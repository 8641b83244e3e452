\* Three requests of three pubkeys, and caps of two, of none and of less.
SPECIFICATION Spec
CONSTANTS
  Requests = {r1, r2, r3}
  Pubkeys = {alice, bob, carol}
  NoPubkey = NoPubkey
  Configs <- TwoOrNone
INVARIANTS
  TypeOK
  OneUploadPerPubkey
  TokensAccounted
  KeysAccounted
PROPERTIES
  CapacityComesBack
  ImplementsSlots
  EmptyLimiterAdmits
