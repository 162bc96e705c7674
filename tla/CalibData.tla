------------------------------ MODULE CalibData ------------------------------
(***************************************************************************)
(* The calibration values L4_Server keeps and the pure functions on them:  *)
(* the running average of the beam line and what a new server object reads *)
(* back from its two files (src/L4_HLT/L4_Server.cxx).                     *)
(*                                                                         *)
(* Data abstraction.  A beam line is one integer coordinate in place of    *)
(* the pair (x, y): the code always updates both in the same uninterrupted *)
(* stretch and treats them alike.  A gain is an integer percentage of the  *)
(* nominal gain in place of the pair (inner, outer).  A file is a sequence *)
(* of lines, one record each.  A definition whose name ends in _Something  *)
(* is a deliberate fault, used to see that a property notices it.          *)
(***************************************************************************)
EXTENDS Integers, Sequences, FiniteSets

CONSTANTS
  Weight,          \* 1/Weight is newVertexWeight, 0.0001 in the code
  PosLo, PosHi,    \* the readers accept a beam line only inside PosLo..PosHi
  KeepLines,       \* the readers keep the last KeepLines valid lines (50)
  Junk             \* the content of memory the program never wrote

ASSUME DataAssumption ==
  /\ Weight \in Nat \ {0}
  /\ PosLo \in Int /\ PosHi \in Int /\ PosLo <= PosHi
  /\ KeepLines \in Nat \ {0}
  /\ Junk \notin Int

Position == Int \cup {Junk}
Gain     == Nat
BeamLine == [run : Nat, pos : Position]
GainLine == [run : Nat, gain : Gain]

NominalGain == 100

(* A line counts only when its first token looks like a run number.  Run 0 *)
(* is what a server that saw no CALB message writes.                       *)
ValidRun(r) == 10000000 <= r /\ r <= 500000000

(* The exponential average of updateBeamline.  An average that starts from *)
(* memory nobody wrote stays unknown.                                      *)
Blend_Unscaled(b, v) == IF b = Junk THEN Junk ELSE (Weight * b + v) \div Weight

Blend(b, v) == IF b = Junk THEN Junk ELSE ((Weight - 1) * b + v) \div Weight

(* The mean of a set of lines is represented by every value between its    *)
(* least and its greatest member, and exactly when they all agree.         *)
Means(S) == IF Junk \in S THEN {Junk} ELSE UNION {UNION {a..b : b \in S} : a \in S}

(* The readers keep the last KeepLines valid lines V of a file and average *)
(* those at the end that have the run number of the last one.              *)
LastRun(file, V) ==
  {i \in V : /\ Cardinality({j \in V : j > i}) < KeepLines
             /\ \A j \in V : j > i => file[j].run = file[i].run}

(* What readBeamline can leave in beamlineX, beamlineY of a new object.    *)
(* An unknown number in the file may or may not lie inside the window.  No *)
(* valid line leaves the two members unwritten.                            *)
RecallPositions(file, Window) ==
  LET V == {i \in 1..Len(file) : ValidRun(file[i].run) /\ file[i].pos \in Window}
  IN  IF V = {} THEN {Junk} ELSE Means({file[i].pos : i \in LastRun(file, V)})

ReadBeamline(file) ==
  RecallPositions(file, PosLo..PosHi) \cup RecallPositions(file, (PosLo..PosHi) \cup {Junk})

(* readGainParameters: lines within 90% of nominal are kept, but their     *)
(* mean is used only within 10%; otherwise, and without any line (0/0 is   *)
(* not a number and fails both comparisons), the nominal gain is.          *)
ReadGain_NoBand(file) ==
  LET V == {i \in 1..Len(file) : ValidRun(file[i].run) /\ file[i].gain \in 10..190}
  IN  IF V = {} THEN {NominalGain} ELSE Means({file[i].gain : i \in LastRun(file, V)})

ReadGain(file) ==
  LET V == {i \in 1..Len(file) : ValidRun(file[i].run) /\ file[i].gain \in 10..190}
      mean == Means({file[i].gain : i \in LastRun(file, V)})
  IN  IF V = {} THEN {NominalGain}
      ELSE {IF g \in 90..110 THEN g ELSE NominalGain : g \in mean}

=============================================================================
