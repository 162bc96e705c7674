\* Two events in flight whose detectors come and go; two runs, each with its own algorithm.
SPECIFICATION Spec
CONSTANTS
  t1 = t1
  Slot = {s1, s2}
  Trigger <- Triggers
  Content <- Mixed
  Used = {"noHLT", "HighPt", "MTDDiMuon", "MTDQuarkonium"}
  MaxEvent = 3
  MaxRun = 2
  MaxResult = 1
SYMMETRY Buffers
INVARIANTS TypeOK OwnData OneCalibration
PROPERTIES Decided
CHECK_DEADLOCK FALSE
