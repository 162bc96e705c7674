\* Two events of two sectors; up to three tracks are kept, of at least two hits.
SPECIFICATION CaSpec
CONSTANTS
  Sectors = {1, 2}
  SectorData <- MCSectorData
  Patterns <- MCPatterns
  maxHits = 15
  MaxClusters = 5
  NTRACKSMAX = 3
  MinNHits = 2
  minTimeBin = 0
  maxTimeBin = 80
  minClusterCharge = 8
  maxClusterCharge = 50
  MinHitsForDedx = 3
  CutLow = 0
  CutHigh = 70
  innerSectorGain = 2
  outerSectorGain = 3
  MaxEvents = 2
INVARIANTS CaTypeOK FittedOnce OwnHitsKept
CHECK_DEADLOCK FALSE
