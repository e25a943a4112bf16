SPECIFICATION FairSpec
CONSTANTS
  r1 = r1  r2 = r2  f1 = f1  f2 = f2  d1 = d1  d2 = d2  n1 = n1  n2 = n2  n3 = n3
  None = None
  Runs <- TwoRuns
  Scheduled <- OneRun
  HasCredentials = TRUE
  Files <- OneFile
  CoverFiles <- NoFiles
  Folders <- TwoFolders
  Names <- TwoNames
  MaxEdits = 1
  MaxAdmin = 0
  MaxFaults = 1
PROPERTIES EventuallyMirrors
