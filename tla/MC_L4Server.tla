----------------------------- MODULE MC_L4Server -----------------------------
(***************************************************************************)
(* A small instance of L4Server.  Positions are a handful of integers with *)
(* the window -1..1, a vertex outside it (the -999 of an event whose fit   *)
(* failed, scaled down) and the 0 the server takes for "no vertex".  The   *)
(* beam line file is empty or holds two runs, a line outside the window    *)
(* and a line that has no run; a stop may find the peak of dE/dx nine      *)
(* percent off.  A message may bring one track, or claim one more than it  *)
(* has room for.                                                           *)
(***************************************************************************)
EXTENDS L4Server

CONSTANTS c1, c2

MCClient == {c1, c2}
MCRun    == {20000001}
MCNPri   == {51}
MCNMip   == {1, 501}
MCVertex == {-3, 0}
MCScale  == {109}
BL(r, p) == [run |-> r, pos |-> p]
GL(r, g) == [run |-> r, gain |-> g]
MCBeamFiles == {<<>>, <<BL(20000000, -1), BL(20000001, 0), BL(20000001, 2), BL(0, 7)>>}
MCGainFiles == {<<GL(20000000, 100), GL(20000001, 109)>>}
MCPosLo == -1
=============================================================================
