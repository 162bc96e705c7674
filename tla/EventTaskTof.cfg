\* One buffer: an event without TOF data may follow one with them.
SPECIFICATION Spec
CONSTANTS
  t1 = t1
  Slot = {s1}
  Trigger <- Triggers
  Content <- Mixed
  Used = {"noHLT"}
  MaxEvent = 2
  MaxRun = 1
  MaxResult = 1
INVARIANTS OwnTofMatch
CHECK_DEADLOCK FALSE
