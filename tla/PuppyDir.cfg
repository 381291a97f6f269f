SPECIFICATION Spec
CONSTANTS
  Listings <- MCListings
  InitEls = 2
  SignedChars = TRUE
INVARIANTS
  BufferHolds
  DatesKept
  ListingShown
CHECK_DEADLOCK FALSE
