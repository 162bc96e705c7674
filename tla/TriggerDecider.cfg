CONSTANTS
  Setup <- MCSetup
  Content <- MCContent
  Menu <- MCMenu
  Off = {"LowMult", "BesMonitor"}
  NTower = 2
  NHit = 2
  nTracksCut_UPC = 3
  nTracksCut_UPCdiElectron = 2
  nTracksHigh_LowMult = 3
  MaxCut = 3
  MaxEvent = 2
SPECIFICATION Spec
INVARIANTS TypeOK OwnBanks Decision Candidates
CHECK_DEADLOCK FALSE
