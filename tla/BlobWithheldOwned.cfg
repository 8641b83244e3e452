\* A claim or upload between the two halves of a retraction.
SPECIFICATION SafeSpec
CONSTANTS
  Procs = {p1, p2}
  Hashes = {h1}
  Pubkeys = {alice, admin}
  None = None
  Admin = admin
  Ops = {"upload", "claim", "retract"}
  Capacity = 1
  MaxUploaders = 2
  Failures = {}
  Crashes = FALSE
  Disk = FALSE
  Free = Free
INVARIANT WithheldOnlyUnowned
