\* Both backends, every failure, crashes.
SPECIFICATION Spec
CONSTANTS
  Procs = {p1, p2, p3}
  Temps = {1, 2}
  Backends = {"disk", "r2"}
  Crashes = TRUE
SYMMETRY Symmetry
INVARIANTS
  ListingWhole
  NoTempLeaks
  AnswersHold
