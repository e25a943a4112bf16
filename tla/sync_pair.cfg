SPECIFICATION Spec
CONSTANTS
  r1 = r1  r2 = r2  f1 = f1  f2 = f2  d1 = d1  d2 = d2  n1 = n1  n2 = n2  n3 = n3
  None = None
  Runs <- TwoRuns
  Scheduled <- NoRun
  HasCredentials = TRUE
  Files <- OneFile
  CoverFiles <- NoFiles
  Folders <- OneFolder
  Names <- TwoNames
  MaxEdits = 2
  MaxAdmin = 1
  MaxFaults = 1
SYMMETRY Symmetry
INVARIANTS SyncInv AnnouncedOnce DeliveredOnce
PROPERTIES ImplementsLedger
