\* All files of up to three lines of nine, with and without a final newline.
SPECIFICATION ParSpec
CONSTANTS
  File <- MCFile
  Dec <- MCDec
  Hex <- MCHex
  NRow = 2
  NColumn = 2
INVARIANTS ParTypeOK StartsOnlyIfSound AsWritten
PROPERTIES StartsIfSound
CHECK_DEADLOCK FALSE
