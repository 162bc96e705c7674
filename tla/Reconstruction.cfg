\* Two events of up to four tracks; a vertex of two tracks within two units.
SPECIFICATION Spec
CONSTANTS
  TrackData <- MCTrackData
  TowerData <- MCTowerData
  TofData <- MCTofData
  Configs <- MCConfigs
  Trays = {1, 2}
  Modules = {0, 1}
  maxModuleHits = 2
  nTotalTowers = 6
  MaxMipTracks = 2
  MaxDcaTracks = 1
  minNoOfHits = 3
  MinTracks = 2
  Radius = 2
  nBins = 24
  zMin <- MCzMin
  minEnergy = 1
  CellWidth = 4
  tdiffCut = 2
  tdiffPion = 5
  beamlineX = 0
  TargetZ = 1
  MaxEvents = 2
INVARIANTS TypeOK BanksAgree EventSound
CHECK_DEADLOCK FALSE
