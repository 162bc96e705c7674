------------------------- MODULE MC_TriggerDecider --------------------------
(* Events of at most three tracks, chosen for what each algorithm looks at. *)
EXTENDS TriggerDecider

MCSetup == {
  <<>>,
  <<[algo |-> "HighPt", cut |-> 3], [algo |-> "BesGoodEvents", cut |-> 2],
    [algo |-> "HighPt", cut |-> 2]>>,
  <<[algo |-> "DiElectron", cut |-> 3], [algo |-> "HeavyFragment", cut |-> 2],
    [algo |-> "LowMult", cut |-> 2], [algo |-> "AllEvents", cut |-> 2],
    [algo |-> "DiElectron", cut |-> 2]>> }

Plain == [near |-> TRUE, fitted |-> TRUE, nHits |-> 2, p |-> 1, q |-> 1, window |-> {},
          light |-> FALSE, cell |-> FALSE, towers |-> {}, gtowers |-> {}, pid |-> {},
          muon |-> FALSE, distance |-> [h \in Hit |-> Far]]

Electrons(p, w, ts) == [Plain EXCEPT !.p = p, !.window = w, !.light = TRUE, !.cell = TRUE,
                                     !.towers = ts, !.pid = {"Electron"}]
Muons(p, d1, d2) == [Plain EXCEPT !.p = p, !.muon = TRUE, !.distance = [h \in Hit |-> IF h = 1 THEN d1 ELSE d2]]

NoMass == [a \in DiElectrons \cup {"UPCPair", "MTDQuarkonium"} |-> {}]
EeMass(S) == [a \in DOMAIN NoMass |-> IF a \in DiElectrons THEN S ELSE {}]

Empty == [tracks |-> <<>>, energy |-> [w \in Tower |-> -1], high |-> {}, vz |-> 0, vr |-> 0,
          mtd |-> TRUE, isTrigger |-> {}, inMass |-> NoMass]

(* A slow electron by TOF, a fast one by its tower, a third one by both.   *)
ThreeElectrons ==
  [Empty EXCEPT
     !.tracks = <<Electrons(1, {"Tof"}, {}), Electrons(2, {"Emc"}, {1, 2}),
                  [Electrons(6, {"TofAndEmc"}, {2}) EXCEPT !.nHits = 3]>>,
     !.energy = [w \in Tower |-> IF w = 1 THEN 2 ELSE 5], !.high = {1}, !.vr = 1,
     !.inMass = EeMass({<<1, 2>>, <<2, 3>>, <<1, 3>>})]

(* The same without TOF cells.                                             *)
NoTof ==
  [ThreeElectrons EXCEPT
     !.tracks = [i \in DOMAIN ThreeElectrons.tracks |-> [ThreeElectrons.tracks[i] EXCEPT !.cell = FALSE]]]

(* Two electrons by their towers.                                          *)
TwoElectrons ==
  [Empty EXCEPT
     !.tracks = <<Electrons(1, {"Emc"}, {1}), Electrons(2, {"Emc", "Tof"}, {2})>>,
     !.energy = [w \in Tower |-> 2], !.high = {2}, !.vz = 4,
     !.inMass = EeMass({<<1, 2>>})]

(* Two electrons by their towers, of which the leading one has the dE/dx   *)
(* of helium and a global track that points elsewhere, and the other one   *)
(* the dE/dx of a triton and another mass.                                 *)
HeavyElectrons ==
  [TwoElectrons EXCEPT
     !.tracks = <<[Electrons(1, {"Emc"}, {1}) EXCEPT !.pid = {"Electron", "Triton"}, !.gtowers = {2}],
                  [Electrons(2, {"Emc", "Tof"}, {2}) EXCEPT !.pid = {"Electron", "He3"}, !.gtowers = {1}]>>]

(* A triton by its mass, a helium that is no primary track, a fast track   *)
(* close to the vertex without a fit.                                      *)
Heavy ==
  [Empty EXCEPT
     !.tracks = <<[Plain EXCEPT !.cell = TRUE, !.gtowers = {1}, !.pid = {"Triton", "TritonMass"}],
                  [Plain EXCEPT !.near = FALSE, !.nHits = 3, !.gtowers = {2}, !.pid = {"He3"}],
                  [Plain EXCEPT !.fitted = FALSE, !.p = 5, !.towers = {1}]>>,
     !.energy = [w \in Tower |-> w], !.vz = 20]

Pions ==
  [Empty EXCEPT
     !.tracks = <<[Plain EXCEPT !.cell = TRUE, !.pid = {"Pion"}],
                  [Plain EXCEPT !.q = -1, !.cell = TRUE, !.pid = {"Pion"}]>>,
     !.vz = 210, !.vr = 1,
     !.inMass = [NoMass EXCEPT !["UPCPair"] = {<<1, 2>>, <<2, 1>>}]]
PionsInside == [Pions EXCEPT !.vz = 50]

(* One track reaches both hits, a second one reaches one of them.          *)
OneOrTwoMuons ==
  [Empty EXCEPT
     !.tracks = <<Muons(3, 2, 1), Muons(2, 3, Far), Muons(1, Far, 5)>>,
     !.isTrigger = Hit, !.inMass = [NoMass EXCEPT !["MTDQuarkonium"] = {<<1, 2>>}]]
OneMuon == [Empty EXCEPT !.tracks = <<Muons(3, 1, 2)>>, !.isTrigger = Hit]
NoMtd   == [OneMuon EXCEPT !.mtd = FALSE]

MCContent == {ThreeElectrons, NoTof, TwoElectrons, HeavyElectrons, Heavy, Pions, PionsInside, OneOrTwoMuons, OneMuon, NoMtd}

MCMenu == {Algorithm, Algorithm \ {"MTDDiMuon"}, {"UPCDiElectron", "HeavyFragment"},
           {"DiElectron", "LowMult"}}
=============================================================================
