\* Bans of blobs and of pubkeys, and the index of references, against uploads,
\* claims and deletes, with every failure and with restarts.
SPECIFICATION SafeSpec
CONSTANTS
  Procs = {p1, p2}
  Hashes = {h1}
  Pubkeys = {alice, admin}
  None = None
  Admin = admin
  Ops = {"upload", "claim", "dashDelete", "blacklistAdd", "blacklistRemove",
         "banPubkey", "allowPubkey", "download", "publish", "ingest", "unlink"}
  Capacity = 1
  MaxUploaders = 2
  Failures = {"refused", "unacked", "unsaved"}
  Crashes = TRUE
  Disk = TRUE
  Free = Free
INVARIANTS
  TypeOK
  SlotsMatchUploads
PROPERTIES
  BanSticks
  BlockedNeverOwns
  NoPhantomOwner
  
