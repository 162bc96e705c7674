--------------------------- MODULE MC_MuonTelescope ---------------------------
(* Instances of MuonTelescope for TLC. *)
EXTENDS MuonTelescope

Geo(b, h) == [type |-> "geo", half |-> h, backleg |-> b, tdcid |-> 0, chan |-> 0, tdc |-> 0]
Edge(t, id, c, time) ==
  [type |-> t, half |-> 0, backleg |-> 0, tdcid |-> id, chan |-> c, tdc |-> time]

(* Both edges of both ends of the strip of chip and channel 21 and 34.     *)
Both(id1, c1, id2, c2, time) ==
  <<Edge("lead", id1, c1, time), Edge("lead", id2, c2, time + 10),
    Edge("trail", id1, c1, time + 5), Edge("trail", id2, c2, time + 15)>>

(* Strip 1 is 21 and 34, strip 7 is 25 and 33 on the boards of modules 1   *)
(* to 3.  Backleg 1 has a hit on trays 1 and 4 (board 5: half 1); backleg  *)
(* 12 has words of board 2, which is on no module there, and of tray 4;    *)
(* backleg 1 has words of board 3; words of no backleg; a second leading   *)
(* edge; an end that is not there.                                         *)
MCRdos == {
  <<Edge("lead", 1, 1, 9)>> \o <<Geo(1, 0)>> \o Both(1, 1, 2, 4, 100)
    \o <<Edge("lead", 1, 1, 200), [Edge("lead", 0, 0, 0) EXCEPT !.type = "other"]>>
    \o <<Geo(1, 1)>> \o Both(5, 1, 6, 4, 300) \o <<Geo(99, 0), Edge("lead", 1, 1, 9)>>,
  <<Geo(12, 0)>> \o Both(9, 1, 10, 4, 100) \o Both(5, 1, 6, 4, 50)
    \o <<Geo(12, 1)>> \o Both(1, 1, 2, 4, 120),
  <<Geo(1, 0)>> \o Both(13, 5, 14, 3, 70) \o Both(1, 5, 2, 3, 80)
    \o <<Edge("lead", 5, 5, 90), Edge("trail", 5, 5, 95)>> \o <<Geo(9, 0)>> \o Both(1, 1, 2, 4, 70),
  <<Geo(25, 0)>> \o Both(1, 1, 2, 4, 40) \o Both(5, 1, 6, 4, 40) \o <<Geo(24, 1)>> \o Both(1, 1, 2, 4, 60)}

QT(b, s) == [NoQT EXCEPT ![b] = s]

MCTriggers == {
  [hasQT |-> TRUE, sums |-> [NoQT EXCEPT ![1] = <<5, 0, 7, 0, 0, 0, 9, 0>>, ![3] = <<0, 0, 4, 3, 0, 0, 0, 0>>],
   bits |-> {<<1, 1>>, <<1, 2>>, <<3, 2>>}],
  [hasQT |-> TRUE, sums |-> [NoQT EXCEPT ![1] = <<9, 8, 3, 0, 0, 0, 0, 9>>, ![2] = <<0, 0, 0, 0, 0, 0, 0, 6>>],
   bits |-> {<<1, 1>>, <<1, 2>>, <<2, 1>>, <<2, 2>>}],
  [hasQT |-> FALSE, sums |-> NoQT, bits |-> {<<1, 2>>, <<3, 1>>, <<3, 2>>}]}

MCTracks == {[phi |-> 8600, z |-> -1700], [phi |-> 8700, z |-> -1690], [phi |-> 21900, z |-> 800],
             [phi |-> 1700, z |-> -1300]}
=============================================================================
