\* Registries of each kind, saves that overlap, fail or
\* are cut off by a crash.
SPECIFICATION Spec
CONSTANTS
  Procs = {p1, p2, p3}
  Entries = {e1, e2}
  Kinds = {"plain", "guarded", "caps", "inventory"}
  Crashes = TRUE
  DiskFull = TRUE
  Free = Free
INVARIANTS
  TypeOK
  NeverInterleaved
  SoloEditsStick
  ServedIsEchoed
