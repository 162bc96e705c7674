\* Two events of three sectors; the arrays overflow.
SPECIFICATION Spec
CONSTANTS
  NSectors = 3
  MaxTracks = 5
  MaxTracksSector = 4
  MaxHits = 7
  IdBase = 10
  MaxSectorNForTrackMerging = 6
  HitProcessing = 2
  NPhi = 4
  NEta = 1
  Helix = {"h", "g"}
  Banks <- MCBanks
  Readers = {"gl3Event", "collector"}
  MaxEvents = 2
INVARIANTS TypeOK PairsTogether TracksSound
CHECK_DEADLOCK FALSE
