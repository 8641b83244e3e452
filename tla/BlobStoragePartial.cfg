\* One store in progress and one reader of the disk.
SPECIFICATION Spec
CONSTANTS
  Procs = {p1, p2}
  Temps = {1}
  Backends = {"disk"}
  Crashes = FALSE
INVARIANT NeverFoundUnstored
