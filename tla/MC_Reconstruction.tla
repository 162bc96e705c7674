-------------------------- MODULE MC_Reconstruction --------------------------
(* Instances of Reconstruction for TLC. *)
EXTENDS Reconstruction

At(tray, module, y) == [tray |-> tray, module |-> module, y |-> y]
ATrack(id, nHits, x, z, emc, p, q) ==
  [id |-> id, nHits |-> nHits, x |-> x, z |-> z, emc |-> emc, proj |-> p, primaryProj |-> q,
   pion |-> nHits > 3, flight |-> id, mip |-> id # 4]

(* No tracks; two good ones together and one far away that has the last    *)
(* track's tower; tracks that follow the vertex out of reach of one        *)
(* another; tracks at the limit of the cut on hits and off the beam line.  *)
MCTrackData == {
  <<>>,
  <<ATrack(1, 5, 0, 2, 10, At(1, 0, 5), At(1, 0, 6)), ATrack(3, 5, 1, 3, 12, At(1, 1, 9), At(1, 0, 9)),
    ATrack(4, 4, 0, -6, 12, At(2, 0, 0), At(2, 0, 1))>>,
  <<ATrack(2, 5, -2, 0, 10, At(1, 0, 5), At(1, 1, 5)), ATrack(5, 4, 0, 2, 20, At(2, 1, 23), At(2, 1, 24)),
    ATrack(6, 3, 0, 1, 10, At(1, 0, 4), At(1, 0, 4)), ATrack(7, 4, 1, -1, 20, At(1, 1, 7), At(1, 1, 8))>>,
  <<ATrack(1, 4, 0, 0, 30, At(1, 0, 2), At(1, 0, 2)), ATrack(2, 4, 4, 1, 10, At(1, 0, 3), At(1, 0, 3)),
    ATrack(8, 3, 0, 1, 10, At(2, 0, 9), At(2, 0, 9)), ATrack(9, 4, 1, 2, 10, At(1, 0, 7), At(1, 1, 7))>>}

ATower(crate, z, energy) == [crate |-> crate, z |-> z, energy |-> energy]
MCTowerData == {
  <<ATower(1, 10, 3), ATower(2, 12, 1), ATower(3, 12, 4), ATower(4, 11, 2)>>,
  <<ATower(0, 10, 5), ATower(5, 20, 5), ATower(6, 13, 5), ATower(7, 29, 5), ATower(8, 9, 5)>>}

Hit(tray, module, c, t) == [tray |-> tray, module |-> module, cell |-> c,
                           channel |-> 6 * module + c + 1, tdc |-> t, t |-> t]
Vpd(side, ch, tdc, t) == [tray |-> side, module |-> 0, cell |-> 0, channel |-> ch, tdc |-> tdc, t |-> t]
MCTofData == {
  <<Hit(1, 0, 1, 7), Hit(1, 0, 0, 20), Hit(1, 1, 2, 9), Hit(1, 0, 2, 5), Vpd(East, 1, 5, 3)>>,
  <<Vpd(East, 1, 5, 3), Vpd(East, 1, 4, 9), Vpd(West, 2, 4, 1), Hit(2, 1, 5, 30), Hit(1, 1, 1, 8)>>,
  <<Vpd(East, 1, 5, 3), Vpd(East, 2, 5, 9), Vpd(East, 3, 5, 20), Vpd(West, 2, 4, 1), Vpd(West, 4, 4, 8),
    Hit(1, 0, 1, -1), Hit(2, 0, 2, 4)>>,
  <<>>}

MCzMin    == -12
(* Everything is matched, in all settings; or one detector is not.         *)
Settings(emc, tof) ==
  {[useVpd |-> v, useBeamline |-> b, fixedTarget |-> f, matchAllEMC |-> emc, matchAllTOF |-> tof] :
     v, b, f \in BOOLEAN}
MCConfigs ==
  Settings(TRUE, TRUE) \cup
  {c \in Settings(TRUE, FALSE) \cup Settings(FALSE, TRUE) : c.useVpd = c.fixedTarget /\ ~c.useBeamline}
=============================================================================
