SPECIFICATION FairSpec
CONSTANTS
  Cells = {c1, c2}
  MaxConfig = 3
  MaxSyncs = 2
  MaxCrashes = 1
  MaxFailures = 1
INVARIANTS WedgedOnlyByFault AnnouncesPackages
PROPERTIES Implements SyncEnds
CHECK_DEADLOCK FALSE
