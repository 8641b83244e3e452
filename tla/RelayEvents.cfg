\* Publications, deletions and bans of one mod, with failing saves and restarts.
SPECIFICATION Spec
CONSTANTS
  Procs = {p1, p2}
  alice = alice
  bob = bob
  Authors = {alice, bob}
  Admin = Admin
  Coordinates <- OneMod
  MaxTime = 2
  AcceptAll = FALSE
  SaveFails = TRUE
  Crashes = TRUE
SYMMETRY Symmetry
INVARIANTS
  TypeOK
PROPERTIES
  TakedownSticks
  DeletionSticks
  BlockedAddsNothing
  RemovalJustified
  RecordedBeforeErased
  ImplementsTakedown
