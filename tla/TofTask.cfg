\* Two events of two boards over two runs, two instances, tokens 1 and 2.
SPECIFICATION LiveSpec
CONSTANTS
  Rdos = {1, 2}
  RdoData <- MCRdoData
  Run13GMT = TRUE
  CutLow <- MCCutLow
  CutHigh <- MCCutHigh
  MaxTot = 12
  TDIG2MRPCChan <- MCTdig2Mrpc
  VpdLE <- MCVpdLE
  VpdTE <- MCVpdTE
  GL3_MAX_TASKS = 2
  LastToken = 2
  MaxEvents = 2
  MaxRuns = 2
INVARIANTS TypeOK HitsExact
PROPERTIES Routed BrokerGoesOn
CHECK_DEADLOCK FALSE
