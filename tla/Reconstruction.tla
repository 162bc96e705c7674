---------------------------- MODULE Reconstruction ----------------------------
(***************************************************************************)
(* The reconstruction of an event: what finish() loads into the collector, *)
(* finalizeReconstruction() step by step, and the banks and the summary    *)
(* that are made of it.  The collector, the cells and the nodes live for a *)
(* run, so an event starts from what reset leaves of the one before.       *)
(*                                                                         *)
(* Positions and times are whole numbers of some unit, and a track passes  *)
(* the beam line along one coordinate x and at z.  A track comes with the  *)
(* places in the TOF and the calorimeter that its helix points to.  The    *)
(* corrections of times, beta and the cut on pt (it goes with the one on   *)
(* hits) are left out.                                                     *)
(***************************************************************************)
EXTENDS Integers, Sequences, FiniteSets, SequencesExt

CONSTANTS
  TrackData, TowerData, TofData, \* what the detectors may give in an event
  Configs,                      \* the settings of a run that matter here
  Trays, Modules,
  maxModuleHits,                \* limit of the code (20)
  nTotalTowers,                 \* places for towers (4800 and 720)
  MaxMipTracks, MaxDcaTracks,
  minNoOfHits, MinTracks,       \* 14 and 5
  Radius,                       \* 3 cm: of the vertex, a primary track and the peak
  nBins, zMin,                  \* of the histogram of z; a bin is a unit wide
  minEnergy, CellWidth, tdiffCut, tdiffPion,
  beamlineX, TargetZ,
  MaxEvents                     \* bound

NoZ   == -999
NoHit == 0                      \* hits, towers and tracks count from 1 here

West == 120                     \* the "trays" of the VPD
East == 121

Config == [useVpd : BOOLEAN, useBeamline : BOOLEAN, fixedTarget : BOOLEAN,
           matchAllEMC : BOOLEAN, matchAllTOF : BOOLEAN]

(* What the detectors give: where a helix points to in the TOF, a track, a *)
(* tower, and a hit of a tray or of the VPD.                               *)
Proj   == [tray : Int, module : Int, y : Int]
Track  == [id : Nat, nHits : Nat, x : Int, z : Int, emc : Int, proj : Proj, primaryProj : Proj,
           pion : BOOLEAN, flight : Int, mip : BOOLEAN]
Tower  == [crate : Nat, z : Int, energy : Int]
TofHit == [tray : 0..121, module : Nat, cell : 0..5, channel : 1..192, tdc : Int, t : Int]

ASSUME RecoAssumption ==
  /\ Configs \subseteq Config
  /\ {maxModuleHits, nTotalTowers, MaxMipTracks, MaxDcaTracks, minNoOfHits, Radius, minEnergy,
      tdiffCut, tdiffPion, MaxEvents} \subseteq Nat
  /\ TrackData \subseteq Seq(Track) /\ TowerData \subseteq Seq(Tower) /\ TofData \subseteq Seq(TofHit)
  /\ \A towers \in TowerData : Len(towers) < nTotalTowers  \* 30 cards of 160
  /\ MinTracks \in Nat \ {0} /\ CellWidth \in Nat \ {0} /\ nBins \in Nat
  /\ Trays \subseteq 0..119 /\ Modules \subseteq Nat /\ zMin \in Int /\ zMin > NoZ + Radius
  /\ beamlineX \in Int /\ TargetZ \in Int

VARIABLES
  stage, nEvents, config, detectors, \* detectors: gl3Detectors
  globalTrack, nodes, nPrimaryTracks,
  barrelTower, cell, nTofHits, pvpdhits, Cellhit, \* cell: the array of tofhits
  lmVertex, peak, vertex, nTracksUsed, iter,
  vzVpd, T0,
  banks, caliData

event  == <<nEvents, config, detectors>>
tracks == <<globalTrack, nodes, nPrimaryTracks>>
hits   == <<barrelTower, cell, nTofHits, pvpdhits, Cellhit>>
vert   == <<lmVertex, peak, vertex, nTracksUsed, iter>>
times  == <<vzVpd, T0>>
out    == <<banks, caliData>>
vars   == <<stage, event, tracks, hits, vert, times, out>>

NoTime     == [num |-> 0, den |-> 0]
NoBanks    == [GT |-> <<>>, PT |-> <<>>, TOF |-> <<>>, PVPD |-> <<>>, EMC |-> <<>>, NODE |-> <<>>,
               EVE |-> <<>>]
NoCaliData == [npri |-> 0, vx |-> 0, nMip |-> 0, nDca |-> 0]
NoCells    == [m \in Trays \X Modules |-> <<>>]

Init ==
  /\ stage = "between" /\ nEvents = 0 /\ config \in Configs /\ detectors = {}
  /\ globalTrack = <<>> /\ nodes = <<>> /\ nPrimaryTracks = 0
  /\ barrelTower = <<>> /\ cell = <<>> /\ nTofHits = 0 /\ pvpdhits = <<>> /\ Cellhit = NoCells
  /\ lmVertex = [x |-> beamlineX, z |-> NoZ] /\ vertex = [x |-> NoZ, z |-> NoZ]
  /\ peak = NoZ /\ nTracksUsed = 0 /\ iter = 0
  /\ vzVpd = NoTime /\ T0 = NoTime
  /\ banks = NoBanks /\ caliData = NoCaliData

(* resetEvent.  The hits and the cells by module stay, and the nodes.      *)
UsedAtStart_Kept == nTracksUsed

UsedAtStart == 0

EventStart ==
  /\ stage = "between" /\ nEvents < MaxEvents
  /\ stage' = "btow" /\ nEvents' = nEvents + 1 /\ detectors' = {}
  /\ globalTrack' = <<>> /\ nPrimaryTracks' = 0
  /\ barrelTower' = <<>> /\ nTofHits' = 0 /\ pvpdhits' = <<>>
  /\ lmVertex' = [x |-> beamlineX, z |-> NoZ] /\ vertex' = [x |-> NoZ, z |-> NoZ]
  /\ nTracksUsed' = UsedAtStart /\ peak' = NoZ /\ iter' = 0
  /\ vzVpd' = NoTime /\ T0' = NoTime
  /\ banks' = NoBanks /\ caliData' = NoCaliData
  /\ UNCHANGED <<config, nodes, cell, Cellhit>>

Absent(detector, next) ==
  /\ stage = detector /\ stage' = next
  /\ UNCHANGED <<event, tracks, hits, vert, times, out>>

(* The numbers of I from 1 to n, in order, and the elements of a list that *)
(* have them.                                                              *)
Ascending(I, n) ==
  LET upto[i \in 0..n] ==
        IF i = 0 THEN <<>> ELSE IF i \in I THEN Append(upto[i - 1], i) ELSE upto[i - 1]
  IN upto[n]

Picked(list, I) == LET is == Ascending(I, Len(list)) IN [k \in 1..Len(is) |-> list[is[k]]]

(* readRawBtowers: a tower of a card with a bad crate, or with too little  *)
(* energy, is overwritten by the next.  The array has room for more towers *)
(* than the cards have, so the break at its end is never taken.            *)
ReadRawBtowers(towers) ==
  /\ stage = "btow" /\ stage' = "tof"
  /\ detectors' = detectors \cup {"btow"}
  /\ barrelTower' = Picked(towers, {i \in 1..Len(towers) :
                                      towers[i].crate \in 1..30 /\ towers[i].energy > minEnergy})
  /\ UNCHANGED <<nEvents, config, tracks, cell, nTofHits, pvpdhits, Cellhit, vert, times, out>>

(* readFromTofMachine: the hits of the trays and those of the VPD, and for *)
(* each module the first hits in it.                                       *)
HitsIn(m, list) ==
  LET in == Ascending({i \in 1..Len(list) : <<list[i].tray, list[i].module>> = m}, Len(list))
  IN SubSeq(in, 1, Min({Len(in), maxModuleHits}))

ReadFromTofMachine(list) ==
  LET timed == {i \in 1..Len(list) : list[i].t > 0}
      trays == Picked(list, {i \in timed : list[i].tray \in Trays})
  IN /\ stage = "tof" /\ stage' = "tpx"
     /\ detectors' = detectors \cup {"tof"}
     /\ cell' = trays \o SubSeq(cell, Len(trays) + 1, Len(cell)) /\ nTofHits' = Len(trays)
     /\ pvpdhits' = Picked(list, {i \in timed : list[i].tray \in {West, East}})
     /\ Cellhit' = [m \in Trays \X Modules |-> HitsIn(m, trays)]
     /\ UNCHANGED <<nEvents, config, tracks, barrelTower, vert, times, out>>

ReadTPCCA(list) ==
  /\ stage = "tpx" /\ stage' = "nodes"
  /\ detectors' = detectors \cup {"tpx"}
  /\ globalTrack' = list
  /\ UNCHANGED <<nEvents, config, nodes, nPrimaryTracks, hits, vert, times, out>>

------------------------------------------------------------------------------
Abs(n) == IF n < 0 THEN -n ELSE n

Matchable(t) == t.nHits >= minNoOfHits
ForVertex(t) == t.nHits > minNoOfHits

(* matchEMC keeps the last of the towers that a track points to.           *)
MatchTrack(tower, t) == Abs(tower.z - t.emc) <= 1

EmcTower(t) ==
  LET matched == {i \in 1..Len(barrelTower) :
                    config.matchAllEMC /\ Matchable(t) /\ MatchTrack(barrelTower[i], t)}
  IN IF matched = {} THEN NoHit ELSE Max(matched)

(* projTrayModuleCell: of the hits in the module that a track points to    *)
(* and those beside it, in its cell or beside it, the nearest.             *)
CellAt(p)      == p.y \div CellWidth
HitDistance(p, i) == Abs(2 * p.y - (2 * cell[i].cell + 1) * CellWidth)

CellsAround(p) ==
  LET inModule(m) == IF <<p.tray, m>> \in DOMAIN Cellhit THEN Cellhit[<<p.tray, m>>] ELSE <<>>
      all == inModule(p.module - 1) \o inModule(p.module) \o inModule(p.module + 1)
  IN Picked(all, {k \in 1..Len(all) : CellAt(p) \in 0..5 /\ Abs(cell[all[k]].cell - CellAt(p)) <= 1})

ProjTrayModuleCell(p) ==
  LET c == CellsAround(p)
  IN IF c = <<>> THEN NoHit
     ELSE c[CHOOSE i \in 1..Len(c) :
              \A k \in 1..Len(c) : \/ HitDistance(p, c[i]) < HitDistance(p, c[k])
                                   \/ (HitDistance(p, c[i]) = HitDistance(p, c[k]) /\ i <= k)]

(* makeNodes2 and matchEMC.                                                *)
MakeNodes ==
  /\ stage = "nodes" /\ stage' = "matchTOF"
  /\ nodes' = [i \in 1..Len(globalTrack) |->
                 [primary |-> TRUE, globaltofCell |-> NoHit, primarytofCell |-> NoHit,
                  emcTower |-> EmcTower(globalTrack[i])]]
  /\ UNCHANGED <<event, globalTrack, nPrimaryTracks, hits, vert, times, out>>

(* matchTOF(0).                                                            *)
MatchGlobal ==
  /\ stage = "matchTOF" /\ stage' = "lmVertex"
  /\ nodes' = [i \in 1..Len(nodes) |->
                 IF config.matchAllTOF /\ Matchable(globalTrack[i])
                 THEN [nodes[i] EXCEPT !.globaltofCell = ProjTrayModuleCell(globalTrack[i].proj)]
                 ELSE nodes[i]]
  /\ UNCHANGED <<event, globalTrack, nPrimaryTracks, hits, vert, times, out>>

------------------------------------------------------------------------------
(* makeLmVertex: the peak of the tracks in z, a match counting as ten, and *)
(* from there the mean of the tracks around until it stands still.         *)
Weight(i) == 1 + (IF nodes[i].globaltofCell # NoHit THEN 10 ELSE 0)
               + (IF nodes[i].emcTower # NoHit THEN 10 ELSE 0)

NearOrigin == {i \in 1..Len(globalTrack) : ForVertex(globalTrack[i]) /\ Abs(globalTrack[i].x) <= Radius}

Weights(I) == FoldSet(LAMBDA i, w : w + Weight(i), 0, I)

Around(z) == {i \in NearOrigin : Abs(globalTrack[i].z - z) <= Radius}

Integral(bin) ==
  Weights({i \in NearOrigin : globalTrack[i].z - zMin \in bin - 3..bin + 2})

Peaks == {b \in 3..nBins - 4 : /\ Integral(b) > 0
                               /\ \A c \in 3..nBins - 4 : \/ Integral(c) < Integral(b)
                                                          \/ (Integral(c) = Integral(b) /\ b <= c)}

MeanZ(I) == FoldSet(LAMBDA i, s : s + globalTrack[i].z * Weight(i), 0, I) \div Weights(I)

StartVertex(lm) == IF config.fixedTarget THEN [lm EXCEPT !.z = TargetZ] ELSE lm

NoPeak ==
  /\ stage \in {"lmVertex", "peak"}
  /\ IF stage = "lmVertex" THEN Peaks = {} ELSE Around(peak) = {}
  /\ stage' = "vertex" /\ vertex' = StartVertex(lmVertex) /\ iter' = 0
  /\ UNCHANGED <<event, tracks, hits, lmVertex, peak, nTracksUsed, times, out>>

FindPeak ==
  /\ stage = "lmVertex" /\ Peaks # {}
  /\ stage' = "peak" /\ peak' = zMin + Min(Peaks)
  /\ UNCHANGED <<event, tracks, hits, lmVertex, vertex, nTracksUsed, iter, times, out>>

MovePeak ==
  /\ stage = "peak" /\ iter < 20 /\ Around(peak) # {} /\ MeanZ(Around(peak)) # peak
  /\ peak' = MeanZ(Around(peak)) /\ iter' = iter + 1
  /\ UNCHANGED <<stage, event, tracks, hits, lmVertex, vertex, nTracksUsed, times, out>>

MakeLmVertex ==
  /\ stage = "peak" /\ Around(peak) # {} /\ (iter = 20 \/ MeanZ(Around(peak)) = peak)
  /\ lmVertex' = [x |-> beamlineX, z |-> peak] /\ vertex' = StartVertex(lmVertex')
  /\ stage' = "vertex" /\ iter' = 0
  /\ UNCHANGED <<event, tracks, hits, peak, nTracksUsed, times, out>>

(* makeVertex: as long as enough tracks are near, the vertex goes to the   *)
(* other side of their mean.                                               *)
Near(v) ==
  {i \in 1..Len(globalTrack) :
     /\ ForVertex(globalTrack[i])
     /\ (globalTrack[i].x - v.x) * (globalTrack[i].x - v.x)
        + (globalTrack[i].z - v.z) * (globalTrack[i].z - v.z) <= Radius * Radius}

Reflected(v) ==
  LET n == Cardinality(Near(v))
      total(f) == FoldSet(LAMBDA i, s : s + globalTrack[i][f], 0, Near(v))
  IN [x |-> (2 * total("x")) \div n - v.x, z |-> (2 * total("z")) \div n - v.z]

MoveVertex ==
  /\ stage = "vertex" /\ Cardinality(Near(vertex)) >= MinTracks
  /\ nTracksUsed' = Cardinality(Near(vertex))
  /\ vertex' = Reflected(vertex) /\ iter' = iter + 1
  /\ stage' = IF vertex' = vertex \/ iter' = 3 THEN "primaries" ELSE "vertex"
  /\ UNCHANGED <<event, tracks, hits, lmVertex, peak, times, out>>

GiveUpVertex ==
  /\ stage = "vertex" /\ Cardinality(Near(vertex)) < MinTracks
  /\ vertex' = [x |-> NoZ, z |-> NoZ]
  /\ stage' = "primaries"
  /\ UNCHANGED <<event, tracks, hits, lmVertex, peak, nTracksUsed, iter, times, out>>

(* makePrimaries.                                                          *)
IsPrimary(t) ==
  /\ lmVertex.z # NoZ
  /\ LET dx == t.x - beamlineX
         dz == IF config.useBeamline THEN 0 ELSE t.z - lmVertex.z
     IN dx * dx + dz * dz <= Radius * Radius

MakePrimaries ==
  /\ stage = "primaries" /\ stage' = "start"
  /\ nodes' = [i \in 1..Len(nodes) |-> [nodes[i] EXCEPT !.primary = @ /\ IsPrimary(globalTrack[i])]]
  /\ nPrimaryTracks' = Cardinality({i \in 1..Len(nodes) : IsPrimary(globalTrack[i])})
  /\ UNCHANGED <<event, globalTrack, hits, vert, times, out>>

------------------------------------------------------------------------------
(* The times t of some channels without those too far from the others, in  *)
(* order; the last one left stays.                                         *)
FarOff(t, kept, c, cut) ==
  LET others == kept \ {c}
  IN /\ others # {}
     /\ Abs(t[c] * Cardinality(others) - FoldSet(LAMBDA o, s : s + t[o], 0, others))
          > cut * Cardinality(others)

WithoutFar(t, c, cut) ==
  [kept \in SUBSET DOMAIN t |-> IF c \in kept /\ FarOff(t, kept, c, cut) THEN kept \ {c} ELSE kept]

KeptOf(t, cut) ==
  LET n == IF DOMAIN t = {} THEN 0 ELSE Max(DOMAIN t)
      kept[c \in 0..n] == IF c = 0 THEN DOMAIN t ELSE WithoutFar(t, c, cut)[kept[c - 1]]
  IN kept[n]

Sum(t, kept) == FoldSet(LAMBDA c, s : s + t[c], 0, kept)

(* The earliest hit of each channel of a side of the VPD.                  *)
Side(side) ==
  LET of(ch) == {i \in 1..Len(pvpdhits) : pvpdhits[i].tray = side /\ pvpdhits[i].channel = ch}
      first(ch) == CHOOSE i \in of(ch) :
                     \A k \in of(ch) : \/ pvpdhits[i].tdc < pvpdhits[k].tdc
                                      \/ (pvpdhits[i].tdc = pvpdhits[k].tdc /\ i <= k)
  IN [ch \in {pvpdhits[i].channel : i \in {i \in 1..Len(pvpdhits) : pvpdhits[i].tray = side}} |->
        pvpdhits[first(ch)].t]

(* CalcvzVpd and Tstart, which does the same again.  Of no hits and of no  *)
(* hit on a side nothing is calculated.                                    *)
VzVpd(e, w) ==
  LET I == Cardinality(KeptOf(e, tdiffCut)) * Cardinality(KeptOf(w, tdiffCut))
  IN IF I = 0 THEN NoTime
     ELSE [num |-> Sum(e, KeptOf(e, tdiffCut)) * Cardinality(KeptOf(w, tdiffCut))
                   - Sum(w, KeptOf(w, tdiffCut)) * Cardinality(KeptOf(e, tdiffCut)),
           den |-> 2 * I]

Tstart(e, w) ==
  LET Ie == Cardinality(KeptOf(e, tdiffCut))
      Iw == Cardinality(KeptOf(w, tdiffCut))
  IN IF Ie + Iw = 0 THEN NoTime
     ELSE [num |-> Sum(e, KeptOf(e, tdiffCut)) + Sum(w, KeptOf(w, tdiffCut)) + (Iw - Ie) * lmVertex.z,
           den |-> Ie + Iw]

(* Tstart_NoVpd: from the primary tracks that look like pions.             *)
PionTimes ==
  LET at(i) == ProjTrayModuleCell(globalTrack[i].primaryProj)
      pions == {i \in 1..Len(nodes) : /\ nodes[i].primary /\ globalTrack[i].pion
                                      /\ at(i) # NoHit /\ cell[at(i)].tray > 0}
  IN [i \in pions |-> cell[at(i)].t - globalTrack[i].flight]

(* When all pions but the last are removed, the last is compared to a mean *)
(* of none: 0 / 0, or, for what rounding left of the sum, an infinity,     *)
(* which removes it too.                                                   *)
PionsKept(t) ==
  {KeptOf(t, tdiffPion)} \cup
  (IF Cardinality(DOMAIN t) > 1 /\ KeptOf(t, tdiffPion) = {Max(DOMAIN t)} THEN {{}} ELSE {})

MeanOf(t, kept) ==
  IF kept = {} THEN NoTime ELSE [num |-> Sum(t, kept), den |-> Cardinality(kept)]

StartTime ==
  /\ stage = "start" /\ stage' = "matchPrimary"
  /\ vzVpd' = VzVpd(Side(East), Side(West))
  /\ \/ config.useVpd /\ T0' = Tstart(Side(East), Side(West))
     \/ ~config.useVpd /\ \E kept \in PionsKept(PionTimes) : T0' = MeanOf(PionTimes, kept)
  /\ UNCHANGED <<event, tracks, hits, vert, out>>

(* matchTOF(1).                                                            *)
MatchPrimary ==
  /\ stage = "matchPrimary" /\ stage' = "fill"
  /\ nodes' = [i \in 1..Len(nodes) |->
                 IF /\ config.matchAllTOF /\ lmVertex.z # NoZ
                    /\ Matchable(globalTrack[i]) /\ nodes[i].primary
                 THEN [nodes[i] EXCEPT !.primarytofCell = ProjTrayModuleCell(globalTrack[i].primaryProj)]
                 ELSE nodes[i]]
  /\ UNCHANGED <<event, globalTrack, nPrimaryTracks, hits, vert, times, out>>

------------------------------------------------------------------------------
Primaries == Ascending({i \in 1..Len(nodes) : nodes[i].primary}, Len(nodes))

(* FillNodes numbers the primary tracks as FillPrimTracks writes them.     *)
PrimaryTrackSN_OfNode(i) == IF nodes[i].primary THEN i ELSE NoHit

PrimaryTrackSN(i) ==
  IF nodes[i].primary THEN Cardinality({k \in 1..i : nodes[k].primary}) ELSE NoHit

FillGlobTracks == [i \in 1..Len(globalTrack) |-> globalTrack[i].id]

FillPrimTracks == [k \in 1..Len(Primaries) |-> globalTrack[Primaries[k]].id]

FillTofHits  == SubSeq(cell, 1, nTofHits)
FillPvpdHits == pvpdhits
FillEmc      == barrelTower

FillNodes ==
  [i \in 1..Len(nodes) |->
     [globalTrackSN |-> i, primaryTrackSN |-> PrimaryTrackSN(i),
      tofHitSN |-> nodes[i].primarytofCell, emcTowerSN |-> nodes[i].emcTower]]

FillEvent == <<vertex, lmVertex, vzVpd, T0>>

(* fill_blobs: the banks of the reconstruction.  They hold as much as the  *)
(* detectors give, so the branch of a bank without room is left out.       *)
Fill ==
  /\ stage = "fill" /\ stage' = "send"
  /\ banks' = [GT |-> FillGlobTracks, PT |-> FillPrimTracks, TOF |-> FillTofHits, PVPD |-> FillPvpdHits,
               EMC |-> FillEmc, NODE |-> FillNodes, EVE |-> FillEvent]
  /\ UNCHANGED <<event, tracks, hits, vert, times, caliData>>

(* makeNetworkData: of the primary tracks, the dE/dx of those in the right *)
(* range, and the dca of those with a tower if the event was taken.        *)
Taken_OneMore(n, max) == Min({n, max + 1})

Taken(n, max) == Min({n, max})

MakeNetworkData(decision) ==
  LET mips == {i \in 1..Len(nodes) : nodes[i].primary /\ globalTrack[i].mip}
      dcas == {i \in 1..Len(nodes) : nodes[i].primary /\ nodes[i].emcTower # NoHit /\ decision}
  IN /\ stage = "send" /\ stage' = "between"
     /\ caliData' = [npri |-> nTracksUsed, vx |-> vertex.x,
                     nMip |-> Taken(Cardinality(mips), MaxMipTracks),
                     nDca |-> Taken(Cardinality(dcas), MaxDcaTracks)]
     /\ UNCHANGED <<event, tracks, hits, vert, times, banks>>

Next ==
  \/ EventStart \/ MakeNodes \/ MatchGlobal
  \/ NoPeak \/ FindPeak \/ MovePeak \/ MakeLmVertex \/ MoveVertex \/ GiveUpVertex
  \/ MakePrimaries \/ StartTime \/ MatchPrimary \/ Fill
  \/ Absent("btow", "tof") \/ Absent("tof", "tpx") \/ Absent("tpx", "nodes")
  \/ \E towers \in TowerData : ReadRawBtowers(towers)
  \/ \E list \in TofData : ReadFromTofMachine(list)
  \/ \E list \in TrackData : ReadTPCCA(list)
  \/ \E decision \in BOOLEAN : MakeNetworkData(decision)

Spec == Init /\ [][Next]_vars

------------------------------------------------------------------------------
(* The fixed arrays are never overrun, and the hits listed for a module    *)
(* are hits that were read.                                                *)
TypeOK ==
  /\ stage \in {"between", "btow", "tof", "tpx", "nodes", "matchTOF", "lmVertex", "peak", "vertex",
                "primaries", "start", "matchPrimary", "fill", "send"}
  /\ nEvents \in 0..MaxEvents /\ config \in Configs /\ detectors \subseteq {"btow", "tof", "tpx"}
  /\ nPrimaryTracks \in 0..Len(globalTrack) /\ iter \in 0..20
  /\ Len(barrelTower) <= nTotalTowers /\ nTofHits \in 0..Len(cell)
  /\ \A m \in Trays \X Modules :
       Len(Cellhit[m]) <= maxModuleHits /\ ToSet(Cellhit[m]) \subseteq 1..Len(cell)
  /\ caliData.nMip \in 0..MaxMipTracks /\ caliData.nDca \in 0..MaxDcaTracks

(* Who reads the banks of an event finds in the entries that a node names  *)
(* the node's own primary track, and, of the same event, a hit and a tower *)
(* that the track points to; the bank of primary tracks is as long as the  *)
(* space that FillPrimTracks reserves for it.  (Hits: in events that have  *)
(* TOF data, see EventTask.)                                               *)
BanksAgree ==
  stage = "send" =>
    /\ Len(banks.PT) = nPrimaryTracks
    /\ \A i \in 1..Len(banks.NODE) :
         LET n == banks.NODE[i]
             t == globalTrack[i]
             p == t.primaryProj
         IN /\ n.primaryTrackSN # NoHit =>
                 n.primaryTrackSN <= Len(banks.PT) /\ banks.PT[n.primaryTrackSN] = banks.GT[i]
            /\ n.emcTowerSN # NoHit =>
                 n.emcTowerSN <= Len(banks.EMC) /\ MatchTrack(banks.EMC[n.emcTowerSN], t)
            /\ n.tofHitSN # NoHit /\ "tof" \in detectors =>
                 /\ n.tofHitSN <= Len(banks.TOF) /\ n.primaryTrackSN # NoHit
                 /\ LET h == banks.TOF[n.tofHitSN]
                    IN h.tray = p.tray /\ Abs(h.module - p.module) <= 1 /\ Abs(h.cell - CellAt(p)) <= 1

(* A vertex that is given rests on enough tracks, and the number of tracks *)
(* that goes to the calibration server is of tracks of this event: the     *)
(* count outlives the event, a vertex that is given up and two more        *)
(* iterations.                                                             *)
VertexSupported ==
  stage = "send" =>
    /\ vertex.z # NoZ => nTracksUsed >= MinTracks
    /\ nTracksUsed <= Cardinality({i \in 1..Len(globalTrack) : ForVertex(globalTrack[i])})

(* Removing the times that are off leaves each side of the VPD one, so the *)
(* means are of something: the vertex of the VPD is given when both sides  *)
(* were hit in this event, the start time when either was.                 *)
TimesGiven ==
  stage = "send" =>
    /\ vzVpd.den > 0 <=> \A side \in {East, West} :
                            \E i \in 1..Len(pvpdhits) : pvpdhits[i].tray = side
    /\ config.useVpd => (T0.den > 0 <=> pvpdhits # <<>>)

EventSound == VertexSupported /\ TimesGiven
=============================================================================
