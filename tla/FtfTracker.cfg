\* Hypersectors of up to two sectors, tracked one after another.
SPECIFICATION FtfLiveSpec
CONSTANTS
  RowOuter = 4
  NPhi = 3
  NEta = 1
  PhiClosed = FALSE
  MinHitsPerTrack = 3
  HitsForSegment = 2
  SegmentRange = 1
  TrackRange = 2
  GoBackwards = TRUE
  NPrimary = 1
  NSecondary = 1
  MaxTracks = 2
  MaxHits = 8
  BankTracks = 1
  SectorBanks <- MCSectors
  MaxHyper = 2
INVARIANTS FtfTypeOK HitsAccounted
PROPERTIES TrackingEnds
CHECK_DEADLOCK FALSE
