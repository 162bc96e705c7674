---------------------------- MODULE MC_FtfTracker ----------------------------
(* Instances of FtfTracker for TLC: four rows, three cells in phi. *)
EXTENDS FtfTracker

H(row, phi) == [row |-> row, phi |-> phi, eta |-> 1, wanted |-> TRUE]
Noise(row)  == [row |-> row, phi |-> 2, eta |-> 1, wanted |-> FALSE]

(* A straight track; a crowded cell; two tracks that share a row; a hit    *)
(* out of range; and clusters that the cuts drop.                          *)
MCSectors == {
  << <<H(4, 1), H(3, 1)>>, <<H(2, 1), H(1, 1)>> >>,
  << <<H(3, 3), H(4, 3)>>, <<Noise(2), H(2, 3), H(3, 0), H(4, 3)>> >>,
  << <<H(2, 2), H(3, 2), H(1, 2), H(1, 2)>> >>}
=============================================================================
