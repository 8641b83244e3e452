\* All three loops over a store that changes twice.
SPECIFICATION Spec
CONSTANTS
  Events <- Slots
  CreatedAt <- SecondOf
  Page = 3
  Limit = 3
  Ceiling = 5
  Walks = {"browse", "rebuild", "backfill"}
  Searches <- Matches
  MaxChurn = 2
INVARIANT
  NothingSkipped
PROPERTY
  WalkEnds
