\* A worker and the receive thread over two runs: whole copies, every lock returned.
SPECIFICATION LiveSpec
CONSTANTS
  w1 = w1
  Worker <- MCWorker
  MaxSent = 2
  MaxQueue = 1
  MaxRun = 2
INVARIANTS TypeOK Safety
PROPERTIES ImplementsCell Serves
CHECK_DEADLOCK FALSE
