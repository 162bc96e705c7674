\* Two events of a run of 2017.
SPECIFICATION Spec
CONSTANTS
  Run16 = FALSE
  Rdos <- MCRdos
  Triggers <- MCTriggers
  Tracks <- MCTracks
  MaxEvents = 2
INVARIANTS TypeOK HitsSound MatchesDistinct
CHECK_DEADLOCK FALSE
