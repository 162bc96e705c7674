\* Two nodes, two runs that end in a stop or a flush, the thread and the end of a stop scheduled fairly.
SPECIFICATION LiveSpec
CONSTANTS
  Weight = 2
  PosLo <- MCPosLo
  PosHi = 1
  KeepLines = 50
  Junk = Junk
  c1 = c1
  c2 = c2
  Client <- MCClient
  RunNumber <- MCRun
  NPri <- MCNPri
  NMip <- MCNMip
  Vertex <- MCVertex
  Scale <- MCScale
  nTracksCutUpdateBeamline = 50
  nTracksCutUpdatedEdxGainPara = 1
  BroadcastEvery = 2
  BeamFiles <- MCBeamFiles
  GainFiles <- MCGainFiles
  MaxObj = 2
  MaxInbox = 1
INVARIANTS TypeOK Safety
PROPERTIES WritesSound ImplementsStore Answers
CHECK_DEADLOCK FALSE
