SPECIFICATION FairSpec
CONSTANTS
  s1 = s1  s2 = s2  a1 = a1  a2 = a2  a3 = a3
  None = None
  Senders <- TwoSenders
  Albums <- ThreeAlbums
  Broken <- OneBroken
  Scope <- Scopes
  History <- TwoBack
  MaxEdits = 2
  MaxFaults = 1
INVARIANTS SendInv 
PROPERTIES RepeatsAreSpaced EveryAlbumGetsItsTurn
