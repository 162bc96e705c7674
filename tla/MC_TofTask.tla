------------------------------ MODULE MC_TofTask ------------------------------
(* Instances of TofTask for TLC: two boards. *)
EXTENDS TofTask

Geo(tray, half) == [type |-> "geo", tray |-> tray, half |-> half, board |-> 0, chan |-> 0, tdc |-> 0]
Time(t) == [Geo(0, 0) EXCEPT !.type = "time", !.tdc = t]
Lead(b, c, t)  == [Geo(0, 0) EXCEPT !.type = "lead", !.board = b, !.chan = c, !.tdc = t]
Trail(b, c, t) == [Lead(b, c, t) EXCEPT !.type = "trail"]

(* Trays in order, with edges alone and one too late; a start detector and *)
(* trays out of order; a tray without two of its boards, one that is none  *)
(* and 124; nothing.                                                       *)
MCRdoData == <<
  {<<Lead(0, 1, 5), Time(10), Time(90), Geo(3, 0), Lead(0, 1, 50), Lead(0, 2, 51), Trail(0, 1, 60), Trail(0, 1, 99),
     Geo(4, 1), Lead(1, 5, 52), Lead(2, 5, 10), Trail(1, 5, 55), Trail(2, 5, 20), Geo(9, 0), Trail(0, 7, 60)>>,
   <<Time(30), Geo(121, 0), Lead(0, 2, 70), Trail(0, 3, 75), Trail(0, 2, 76), Geo(5, 0),
     Trail(1, 1, 63), Lead(1, 1, 62), Geo(122, 1), Lead(0, 4, 50), Trail(0, 4, 52)>>},
  {<<Geo(7, 1), Lead(0, 1, 40), Geo(8, 0), Lead(0, 7, 50), Lead(1, 7, 55), Trail(0, 7, 58), Geo(123, 0), Lead(0, 0, 50),
     Geo(124, 1), Lead(0, 3, 50), Trail(0, 3, 57)>>,
   <<>>}>>

MCTdig2Mrpc == [c \in 0..191 |-> IF c % 2 = 0 THEN c + 1 ELSE c - 1]
MCVpdLE == [tray \in 121..122 |-> IF tray = 121 THEN <<2, 9>> ELSE <<100, 8>>]
MCVpdTE == [tray \in 121..122 |-> IF tray = 121 THEN <<3, 9>> ELSE <<101, 8>>]
MCCutLow  == [tray \in Tray |-> IF tray = 124 THEN 0 ELSE 20]
MCCutHigh == [tray \in Tray |-> 60]
=============================================================================
