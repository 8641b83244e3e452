\* Uploaders and the admin share a blob: claims, retractions, deletes and the
\* cached listing, under fairness.
SPECIFICATION Spec
CONSTANTS
  Procs = {p1, p2}
  Hashes = {h1}
  Pubkeys = {alice, bob, admin}
  None = None
  Admin = admin
  Ops = {"upload", "claim", "retract", "dashDelete", "hardDelete",
         "quarantineRelease", "list"}
  Capacity = 1
  MaxUploaders = 2
  Failures = {"refused"}
  Crashes = FALSE
  Disk = FALSE
  Free = Free
INVARIANTS
  ListingNeverOutlivesDelete
PROPERTIES
  NonAdminOnlyRetractsItself
  EveryRequestReturns
  AcceptedUploadRevives
