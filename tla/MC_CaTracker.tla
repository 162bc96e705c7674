----------------------------- MODULE MC_CaTracker -----------------------------
(* Instances of CaTracker for TLC: two sectors of up to five hits each. *)
EXTENDS CaTracker

C(q, flags) == [tb |-> 5, charge |-> q, flags |-> flags]
R(row, cs)  == [row |-> row, version |-> 1, clusters |-> cs]

(* Three good rows; clusters that are cut; a row that is corrupt, after a  *)
(* good one; a row of too many clusters.                                   *)
MCSectorData == {
  <<R(3, <<C(10, FALSE), C(20, TRUE)>>), R(14, <<C(30, FALSE)>>), R(40, <<C(12, FALSE), C(15, FALSE)>>)>>,
  <<R(5, <<C(10, FALSE), [C(20, FALSE) EXCEPT !.tb = 90], C(2, FALSE)>>), R(6, <<C(11, FALSE)>>)>>,
  <<R(7, <<C(10, FALSE), C(25, FALSE)>>), [R(9, <<C(9, FALSE)>>) EXCEPT !.version = 2], R(10, <<C(9, TRUE)>>)>>,
  <<R(8, <<C(9, FALSE)>>), R(9, [i \in 1..6 |-> C(20, FALSE)])>>}

(* Tracks that share hits, and a short one that has another's hits.        *)
MCPatterns == {
  <<>>, <<<<0, 1>>>>, <<<<0, 2>>, <<1, 3>>>>, <<<<0, 1, 2>>, <<1, 2, 3>>, <<3, 4>>>>,
  <<<<0, 2, 3>>, <<2, 3>>, <<1, 4>>>>, <<<<1, 2>>, <<0, 1, 3, 4>>, <<5, 6>>>>,
  <<<<0, 1>>, <<2, 3>>, <<4, 5>>, <<6, 7>>>>}
=============================================================================
