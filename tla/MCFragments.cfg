SPECIFICATION Spec
CONSTANTS
  NoFile = NoFile
  Holders = {h1, h2}
  HeldChoices <- MCHeldChoices
  ChunkSections = 2
  FileSections = 6
  MaxExtra = 1
  MaxLosses = 1
  MaxRestarts = 1
  MaxRequests = 1
INVARIANTS
  ReportedIsRight
  RequestStillDue
  InOrder
PROPERTIES
  FullFileKept
  DownloadEnds
CHECK_DEADLOCK FALSE
