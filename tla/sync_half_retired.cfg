SPECIFICATION Spec
CONSTANTS
  r1 = r1  r2 = r2  f1 = f1  f2 = f2  d1 = d1  d2 = d2  n1 = n1  n2 = n2  n3 = n3
  None = None
  Runs <- OneRun
  Scheduled <- NoRun
  HasCredentials = TRUE
  Files <- TwoFiles
  CoverFiles <- OneFile
  Folders <- TwoFolders
  Names <- TwoNames
  MaxEdits = 2
  MaxAdmin = 0
  MaxFaults = 1
SYMMETRY Symmetry
INVARIANTS MissingAlbumsHoldNoLiveFiles
