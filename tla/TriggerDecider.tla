---------------------------- MODULE TriggerDecider ----------------------------
(***************************************************************************)
(* gl3TriggerDecider: the algorithms finish() runs on a reconstructed      *)
(* event, one after the other, each only if a trigger that fired needs it. *)
(* They share the nodes of the tracks, where they leave the TOF cell and   *)
(* the tower they matched, and write banks that are copied to the output   *)
(* of every event, whether or not their algorithm ran.                     *)
(*                                                                         *)
(* Numbers that are compared with each other (momentum, energy, hits,      *)
(* distances) are small integers.  Whether a track lies in a window of     *)
(* dE/dx and momentum, and a pair in a window of mass, is an attribute of  *)
(* the event.  The switches and cuts are the defaults of setTriggers but   *)
(* for those named here.                                                   *)
(***************************************************************************)
EXTENDS Integers, FiniteSets

CONSTANTS
  Setup,     \* trg_setup: what run control may configure, a set of sequences of Requests
  Content,   \* what an event can be like, see IsContent
  Menu,      \* algorithms that the triggers of an event may need, a set of sets
  Off,       \* algorithms switched off in the file HLTparameters
  NTower, NHit,                             \* towers; hits of the muon telescope
  nTracksCut_UPC, nTracksCut_UPCdiElectron, \* cuts on the number of primary tracks
  nTracksHigh_LowMult,                      \* and the upper one on that of all tracks
  MaxCut,    \* bound: the cuts of run control
  MaxEvent   \* bound: events

Name == <<"AllEventsNoHLT", "HighPt", "DiElectron", "HeavyFragment", "AllEvents", "RandomEvents",
          "BesGoodEvents", "DiV0", "MatchedHT2", "LowMult", "UPCDiElectron", "UPCPair",
          "MTDDiMuon", "FixedTarget", "FixedTargetMonitor", "BesMonitor", "HLTGood2",
          "MTDQuarkonium", "DiElectron2Twr">>

MaxNHLTTriggers == 19
Algorithm  == {Name[n] : n \in 1..MaxNHLTTriggers}
DiElectrons == {"DiElectron", "UPCDiElectron", "DiElectron2Twr"}
Banked == DiElectrons \cup {"HighPt", "HeavyFragment", "MatchedHT2", "LowMult", "UPCPair",
                            "MTDQuarkonium"}

(* Algorithms whose first cut (hits on a track, tracks, scale) is an       *)
(* integer parameter of the trigger.                                       *)
WithCut == {"HighPt", "DiElectron", "HeavyFragment", "RandomEvents", "BesGoodEvents",
            "MatchedHT2", "LowMult", "UPCDiElectron", "BesMonitor", "HLTGood2", "MTDQuarkonium"}
Request == [algo : Algorithm, cut : 1..MaxCut]
Default == 1

Tower == 1..NTower
Hit   == 1..NHit
Far   == 9   \* a hit outside the window of a track
Method == {"Tof", "Emc", "TofAndEmc"}

(* near: close enough to the vertex to be primary; fitted: has a primary   *)
(* fit; window: the windows of dE/dx and momentum it is in; light: 1/beta  *)
(* is near 1 if a cell is matched; cell: it points at a TOF hit; towers,   *)
(* gtowers: towers that the primary and the global track point at; pid:    *)
(* hypotheses that dE/dx (for TritonMass, beta) agrees with; muon: meets   *)
(* the cuts of matchMTD; distance: to the MTD hits, in 10 cm.              *)
Track == [near : BOOLEAN, fitted : BOOLEAN, nHits : Nat, p : Nat, q : {-1, 1},
          window : SUBSET Method, light : BOOLEAN, cell : BOOLEAN,
          towers : SUBSET Tower, gtowers : SUBSET Tower,
          pid : SUBSET {"Electron", "Pion", "He3", "Triton", "TritonMass"},
          muon : BOOLEAN, distance : [Hit -> Nat]]

(* high: towers over the threshold; mtd: there are MTD data; isTrigger:    *)
(* hits flagged by the trigger; inMass: per algorithm, the pairs of tracks *)
(* that pass its cuts on pairs.                                            *)
IsContent(c) ==
  /\ DOMAIN c = {"tracks", "energy", "high", "vz", "vr", "mtd", "isTrigger", "inMass"}
  /\ IsFiniteSet(DOMAIN c.tracks) /\ DOMAIN c.tracks = 1..Cardinality(DOMAIN c.tracks)
  /\ \A i \in DOMAIN c.tracks : c.tracks[i] \in Track
  /\ c.energy \in [Tower -> Int] /\ c.high \subseteq Tower
  /\ c.vz \in Int /\ c.vr \in Nat
  /\ c.mtd \in BOOLEAN /\ c.isTrigger \subseteq Hit
  /\ DOMAIN c.inMass = DiElectrons \cup {"UPCPair", "MTDQuarkonium"}
  /\ \A a \in DOMAIN c.inMass : c.inMass[a] \subseteq (Nat \X Nat)

ASSUME DeciderAssumption ==
  /\ \A s \in Setup : /\ IsFiniteSet(DOMAIN s) /\ DOMAIN s = 1..Cardinality(DOMAIN s)
                      /\ \A i \in DOMAIN s : s[i] \in Request
  /\ \A c \in Content : IsContent(c)
  /\ \A m \in Menu : m \subseteq Algorithm
  /\ Off \subseteq Algorithm
  /\ NTower \in Nat /\ NHit \in Nat /\ MaxCut \in Nat \ {0} /\ MaxEvent \in Nat
  /\ nTracksCut_UPC \in Int /\ nTracksCut_UPCdiElectron \in Int /\ nTracksHigh_LowMult \in Int

VARIABLES
  phase,        \* "config", "deciding", "filled" or "crashed"
  setup, index, \* the triggers of the run; the next one to be read
  cut,          \* per algorithm, the cut that trigger parameters set
  event,        \* the event in the store
  needed,       \* algorithms some trigger of the event needs
  algo,         \* loop variable of finish()
  node,         \* per track: has it a primary TOF cell, its emcTower (0: none)
  trackId,      \* hlt_trackId of each MTD hit (0: none)
  hltDecision,  \* trigger bits of the event
  bank,         \* per algorithm, the valid part of its data bank
  ePair,        \* the array of hlt_UPCdiEP, at the positions ever written
  NumOfCalled, NumOfSucceed,
  nEvent        \* events so far

config == <<setup, index, cut>>
input  == <<phase, config, event, needed, trackId, nEvent>>
counts == <<NumOfCalled, NumOfSucceed>>
vars   == <<input, algo, node, hltDecision, bank, ePair, counts>>

NoNode  == [cell |-> FALSE, tower |-> 0]
NoBanks == [a \in Banked |-> {}]
NoEvent == [tracks |-> <<>>]

Init ==
  /\ phase = "config"
  /\ setup \in Setup /\ index = 1
  /\ cut = [a \in Algorithm |-> Default]
  /\ event = NoEvent /\ needed = {} /\ algo = 1
  /\ node = <<>> /\ trackId = [h \in Hit |-> 0]
  /\ hltDecision = {} /\ bank = NoBanks /\ ePair = <<>>
  /\ NumOfCalled = [a \in Algorithm |-> 0] /\ NumOfSucceed = NumOfCalled
  /\ nEvent = 0

------------------------------------------------------------------------------
(* Triggers are read in order; those of one algorithm share its cuts.      *)
SetTriggersFromRunControl ==
  /\ phase = "config" /\ index \in DOMAIN setup
  /\ LET r == setup[index]
     IN cut' = IF r.algo \in WithCut THEN [cut EXCEPT ![r.algo] = r.cut] ELSE cut
  /\ index' = index + 1
  /\ UNCHANGED <<phase, setup, event, needed, trackId, nEvent, algo, node, hltDecision, bank, ePair,
                 counts>>

(* A track is matched to the nearest hit in its window (gl3MTD), and a hit *)
(* to the nearest of the tracks that are matched to it; of equals, the     *)
(* first.                                                                  *)
Nearest(S, d) == CHOOSE x \in S : \A y \in S : d[x] < d[y] \/ (d[x] = d[y] /\ x <= y)

HitOf(t) ==
  LET inWindow == {h \in Hit : t.distance[h] < Far}
  IN IF t.muon /\ inWindow # {} THEN Nearest(inWindow, t.distance) ELSE 0

(* Every hit takes the nearest track.                                      *)
MatchMTD_ByHit(e) ==
  [h \in Hit |->
     LET candidates == {i \in DOMAIN e.tracks : e.tracks[i].muon /\ e.tracks[i].distance[h] < Far}
     IN IF e.mtd /\ candidates # {}
          THEN Nearest(candidates, [i \in candidates |-> e.tracks[i].distance[h]])
          ELSE 0]

MatchMTD(e) ==
  [h \in Hit |->
     LET candidates == {i \in DOMAIN e.tracks : HitOf(e.tracks[i]) = h}
     IN IF e.mtd /\ candidates # {}
          THEN Nearest(candidates, [i \in candidates |-> e.tracks[i].distance[h]])
          ELSE 0]

(* Nodes of the last event are used again.                                 *)
MakeNodes_Kept(e) == [i \in DOMAIN e.tracks |-> IF i \in DOMAIN node THEN node[i] ELSE NoNode]

(* makeNodes2 makes the nodes anew.                                        *)
MakeNodes(e) == [i \in DOMAIN e.tracks |-> NoNode]

(* One bank is forgotten.                                                  *)
ResetBanks_NotRho == [NoBanks EXCEPT !["UPCPair"] = bank["UPCPair"]]

(* The banks after resetEvent.                                             *)
ResetBanks == NoBanks

(* resetEvent, the data of the detectors, finalizeReconstruction.          *)
EventStart(e, m) ==
  /\ (phase = "config" /\ index \notin DOMAIN setup) \/ phase = "filled"
  /\ nEvent < MaxEvent
  /\ phase' = "deciding" /\ algo' = 1
  /\ event' = e /\ needed' = m /\ nEvent' = nEvent + 1
  /\ node' = MakeNodes(e) /\ trackId' = MatchMTD(e)
  /\ hltDecision' = {} /\ bank' = ResetBanks
  /\ UNCHANGED <<config, ePair, counts>>

------------------------------------------------------------------------------
T(i)    == event.tracks[i]
Tracks  == DOMAIN event.tracks
Prim(i) == T(i).near /\ T(i).fitted
NPrimaryTracks == Cardinality({i \in Tracks : T(i).near})
Long(a, i) == T(i).nHits >= cut[a]
Higher(x, y) == IF x < y THEN y ELSE x

(* Every algorithm but LowMult returns when it is switched off.            *)
Enabled(a) == a = "LowMult" <=> a \in Off

Turn(a) ==
  /\ phase = "deciding" /\ algo <= MaxNHLTTriggers /\ Name[algo] = a /\ a \in needed
  /\ algo' = algo + 1
  /\ UNCHANGED input

Skip ==
  /\ phase = "deciding" /\ algo <= MaxNHLTTriggers /\ Name[algo] \notin needed
  /\ algo' = algo + 1
  /\ UNCHANGED <<input, node, hltDecision, bank, ePair, counts>>

(* A call that is not counted.                                             *)
Returns_NotCounted(a, triggered) ==
  /\ hltDecision' = IF triggered THEN hltDecision \cup {a} ELSE hltDecision
  /\ NumOfSucceed' = IF triggered THEN [NumOfSucceed EXCEPT ![a] = @ + 1] ELSE NumOfSucceed
  /\ UNCHANGED NumOfCalled

(* How an algorithm ends: the bit, the counters, its bank.                 *)
Returns(a, triggered) ==
  /\ hltDecision' = IF triggered THEN hltDecision \cup {a} ELSE hltDecision
  /\ NumOfCalled' = [NumOfCalled EXCEPT ![a] = @ + 1]
  /\ NumOfSucceed' = IF triggered THEN [NumOfSucceed EXCEPT ![a] = @ + 1] ELSE NumOfSucceed

Fills(a, found) == Returns(a, found # {}) /\ bank' = [bank EXCEPT ![a] = found]

Declines(a) ==
  /\ a \in Banked => bank' = [bank EXCEPT ![a] = {}]
  /\ a \notin Banked => UNCHANGED bank
  /\ UNCHANGED <<node, hltDecision, ePair, counts>>

Disabled(a) == Turn(a) /\ a # "AllEventsNoHLT" /\ a # "DiV0" /\ ~Enabled(a) /\ Declines(a)

(* The tower of the highest energy, the last of equals; the old one if     *)
(* none has energy.                                                        *)
Best(ts, old) ==
  LET lit == {w \in ts : event.energy[w] >= 0}
  IN IF lit = {} THEN old
     ELSE CHOOSE w \in lit : \A v \in lit :
            event.energy[v] < event.energy[w] \/ (event.energy[v] = event.energy[w] /\ v <= w)

(* matchPrimaryTracks, for a node that has no cell yet.                    *)
CellOf(i) == node[i].cell \/ (Prim(i) /\ T(i).cell)

DecideHighPt ==
  LET a == "HighPt"
      found == {i \in Tracks : Prim(i) /\ Long(a, i) /\ T(i).p >= 5}
  IN /\ Turn(a) /\ Enabled(a) /\ Fills(a, found)
     /\ node' = [i \in Tracks |-> IF i \in found
                   THEN [cell |-> CellOf(i), tower |-> Best(T(i).towers, node[i].tower)]
                   ELSE node[i]]
     /\ UNCHANGED ePair

------------------------------------------------------------------------------
(* The three di-electron algorithms.  The test that precedes a match asks  *)
(* for the hull of two windows, taken to be their union.  UPCDiElectron    *)
(* does not look at TOF and takes it for passed.                           *)
Windows(a) == IF a = "DiElectron2Twr" THEN {"Tof", "Emc"} ELSE Method
Eligible(a, i) == Prim(i) /\ Long(a, i) /\ T(i).p >= 1
TriesTof(a, i) ==
  a # "UPCDiElectron" /\ Eligible(a, i) /\ T(i).window \cap Windows(a) \cap {"Tof", "TofAndEmc"} # {}
TriesEmc(a, i) == Eligible(a, i) /\ T(i).window \cap Windows(a) \cap {"Emc", "TofAndEmc"} # {}

LitTowers(i) == {w \in T(i).towers : event.energy[w] >= 1}

Match(a) ==
  [i \in Tracks |->
     [cell  |-> IF TriesTof(a, i) THEN CellOf(i) ELSE node[i].cell,
      tower |-> IF TriesEmc(a, i) THEN Best(LitTowers(i), node[i].tower) ELSE node[i].tower]]

PassTof(a, i, cell) == a = "UPCDiElectron" \/ (TriesTof(a, i) /\ cell /\ T(i).light)

(* The tower whose energy an electron is judged by.                        *)
Judged(i) == Best(LitTowers(i), 0)
POverE(a, i) ==
  LET E == event.energy[Judged(i)]
  IN IF a = "DiElectron2Twr" THEN 10 * T(i).p > E /\ 10 * T(i).p < 25 * E
     ELSE 10 * T(i).p > 3 * E /\ 10 * T(i).p < 15 * E
PassEmc(a, i) == TriesEmc(a, i) /\ LitTowers(i) # {} /\ POverE(a, i)

SelectionBits(a, i, cell) ==
  {m \in T(i).window \cap Windows(a) :
     (m # "Emc" => PassTof(a, i, cell)) /\ (m # "Tof" => PassEmc(a, i))}

IsElectron(a, i, cell) == Eligible(a, i) /\ SelectionBits(a, i, cell) # {}

(* The bits stay where they were.                                          *)
Pair_BitsNotSwapped(a, i, j) ==
  LET swap == a # "DiElectron2Twr" /\ T(i).p < T(j).p
      d1 == IF swap THEN j ELSE i
      d2 == IF swap THEN i ELSE j
  IN [dau1 |-> d1, dau2 |-> d2,
      bits1 |-> SelectionBits(a, i, CellOf(i)), bits2 |-> SelectionBits(a, j, CellOf(j))]

(* The leading electron first, each with its own bits; DiElectron2Twr      *)
(* keeps the order of the tracks.                                          *)
Pair(a, i, j) ==
  LET swap == a # "DiElectron2Twr" /\ T(i).p < T(j).p
      d1 == IF swap THEN j ELSE i
      d2 == IF swap THEN i ELSE j
  IN [dau1 |-> d1, dau2 |-> d2,
      bits1 |-> SelectionBits(a, d1, CellOf(d1)), bits2 |-> SelectionBits(a, d2, CellOf(d2))]

PairsOf(a) ==
  {ij \in Tracks \X Tracks :
     /\ ij[1] < ij[2] /\ ij \in event.inMass[a]
     /\ IsElectron(a, ij[1], CellOf(ij[1])) /\ IsElectron(a, ij[2], CellOf(ij[2]))
     /\ Higher(T(ij[1]).p, T(ij[2]).p) >= 2}

DecideDiElectron(a) ==
  /\ a \in {"DiElectron", "DiElectron2Twr"} /\ Turn(a) /\ Enabled(a)
  /\ node' = Match(a)
  /\ Fills(a, {Pair(a, ij[1], ij[2]) : ij \in PairsOf(a)})
  /\ UNCHANGED ePair

(* The pairs go, one after the other, to the position given by the number  *)
(* of pairs in the bank of DiElectron; the bank holds the positions that   *)
(* it counts.                                                              *)
DecideUPCDiElectron ==
  LET a == "UPCDiElectron"
      ps == PairsOf(a)
      last == CHOOSE x \in ps : \A y \in ps : y[1] < x[1] \/ (y[1] = x[1] /\ y[2] <= x[2])
      at == Cardinality(bank["DiElectron"])
  IN /\ Turn(a) /\ Enabled(a)
     /\ IF NPrimaryTracks > nTracksCut_UPCdiElectron THEN Declines(a)
        ELSE /\ node' = Match(a)
             /\ Fills(a, 0..(Cardinality(ps) - 1))
             /\ ePair' = IF ps = {} THEN ePair
                         ELSE [k \in DOMAIN ePair \cup {at} |->
                                 IF k = at THEN Pair(a, last[1], last[2]) ELSE ePair[k]]

------------------------------------------------------------------------------
(* Helium by dE/dx of the global track; tritons also by their mass, with   *)
(* the time of flight of the primary track.                                *)
HeavyDedx(i, s) == Long("HeavyFragment", i) /\ s \in T(i).pid
IsHeavy(i) ==
  HeavyDedx(i, "He3") \/ (HeavyDedx(i, "Triton") /\ CellOf(i) /\ "TritonMass" \in T(i).pid)

(* Tritons by dE/dx lose their tower before their mass is known.           *)
HeavyTower_AnyTriton(i) ==
  IF HeavyDedx(i, "He3") \/ HeavyDedx(i, "Triton") THEN Best(T(i).gtowers, node[i].tower)
  ELSE node[i].tower

(* A track that is taken gets the tower of its global track.               *)
HeavyTower(i) == IF IsHeavy(i) THEN Best(T(i).gtowers, node[i].tower) ELSE node[i].tower

DecideHeavyFragment ==
  LET a == "HeavyFragment"
  IN /\ Turn(a) /\ Enabled(a) /\ Fills(a, {i \in Tracks : IsHeavy(i)})
     /\ node' = [i \in Tracks |->
          [cell  |-> IF HeavyDedx(i, "He3") \/ HeavyDedx(i, "Triton") THEN CellOf(i) ELSE node[i].cell,
           tower |-> HeavyTower(i)]]
     /\ UNCHANGED ePair

(* The first fast track on a high tower, and the other fast tracks that    *)
(* look like electrons.  <<i, i>> stands for what the bank says of i.      *)
DecideMatchedHT2 ==
  LET a == "MatchedHT2"
      fast == {i \in Tracks : Prim(i) /\ Long(a, i) /\ T(i).p >= 1}
      onHigh == {i \in fast : \E w \in T(i).towers \cap event.high : event.energy[w] <= 3 * T(i).p}
      first == CHOOSE i \in onHigh : \A j \in onHigh : i <= j
      others == {i \in fast \ {first} : "Electron" \in T(i).pid}
  IN /\ Turn(a) /\ Enabled(a)
     /\ Fills(a, IF onHigh = {} THEN {} ELSE {<<first, first>>} \cup {<<first, i>> : i \in others})
     /\ UNCHANGED <<node, ePair>>

(* The tracks counted are the global ones.                                 *)
DecideLowMult ==
  LET a == "LowMult"
      n == Cardinality(Tracks)
  IN /\ Turn(a) /\ Enabled(a)
     /\ Fills(a, IF n > cut[a] /\ n < nTracksHigh_LowMult THEN {n} ELSE {})
     /\ UNCHANGED <<node, ePair>>

(* A pion with a TOF cell, and the first track back to back with it.       *)
DecideUPCPair ==
  LET a == "UPCPair"
      long == {i \in Tracks : Prim(i) /\ T(i).nHits >= Default}
      pions == {i \in long : CellOf(i) /\ "Pion" \in T(i).pid}
      Partners(i) == {j \in long : <<i, j>> \in event.inMass[a]}
      First(S) == CHOOSE i \in S : \A j \in S : i <= j
      good == /\ event.vz < 100 /\ event.vz > -100 /\ event.vr < 2
              /\ NPrimaryTracks < nTracksCut_UPC
  IN /\ Turn(a) /\ Enabled(a)
     /\ Fills(a, IF good THEN {<<i, First(Partners(i))>> : i \in {k \in pions : Partners(k) # {}}}
                 ELSE {})
     /\ node' = [i \in Tracks |-> IF good /\ i \in long THEN [node[i] EXCEPT !.cell = CellOf(i)]
                                  ELSE node[i]]
     /\ UNCHANGED ePair

------------------------------------------------------------------------------
(* The algorithms that look at the vertex and at numbers.                  *)
Within(z) == -z < event.vz /\ event.vz < z

OnTarget == 195 < event.vz /\ event.vz < 225

MeetsGlobal(a) ==
  CASE a = "AllEvents"          -> TRUE
    [] a = "BesGoodEvents"      -> Within(30) /\ event.vr < 2 /\ NPrimaryTracks > cut[a]
    [] a = "HLTGood2"           -> Within(5) /\ 2 * event.vr < 3 /\ NPrimaryTracks > cut[a]
    [] a = "FixedTarget"        -> OnTarget /\ 0 < event.vr /\ event.vr < 4
    [] a = "FixedTargetMonitor" -> OnTarget
    [] a = "BesMonitor"         -> Within(30) /\ NPrimaryTracks > cut[a]

Global == {"AllEvents", "BesGoodEvents", "HLTGood2", "FixedTarget", "FixedTargetMonitor", "BesMonitor"}

DecideGlobal(a) ==
  /\ a \in Global /\ Turn(a) /\ Enabled(a)
  /\ Returns(a, MeetsGlobal(a))
  /\ UNCHANGED <<node, bank, ePair>>

DecideRandomEvents ==
  /\ Turn("RandomEvents") /\ Enabled("RandomEvents")
  /\ \E r \in 0..(cut["RandomEvents"] - 1) : Returns("RandomEvents", r = 0)
  /\ UNCHANGED <<node, bank, ePair>>

(* DiV0 finds nothing yet; AllEventsNoHLT accepts without the decider.     *)
DecideDiV0 ==
  /\ Turn("DiV0") /\ Returns("DiV0", FALSE)
  /\ UNCHANGED <<node, bank, ePair>>

AcceptNoHLT ==
  /\ Turn("AllEventsNoHLT")
  /\ UNCHANGED <<node, hltDecision, bank, ePair, counts>>

(* Muons are flagged hits that have a track.                               *)
MuonHits == {h \in event.isTrigger : trackId[h] # 0}

DecideMTDDiMuon ==
  /\ Turn("MTDDiMuon") /\ Enabled("MTDDiMuon") /\ event.mtd
  /\ Returns("MTDDiMuon", Cardinality(MuonHits) >= 2)
  /\ UNCHANGED <<node, bank, ePair>>

(* Without MTD data there is no mtdEvent to read: the call is counted, and *)
(* does not return.                                                        *)
Crash ==
  /\ phase = "deciding" /\ algo <= MaxNHLTTriggers /\ Name[algo] = "MTDDiMuon" /\ "MTDDiMuon" \in needed
  /\ Enabled("MTDDiMuon") /\ ~event.mtd
  /\ phase' = "crashed"
  /\ NumOfCalled' = [NumOfCalled EXCEPT !["MTDDiMuon"] = @ + 1]
  /\ UNCHANGED <<config, event, needed, trackId, nEvent, algo, node, hltDecision, bank, ePair,
                 NumOfSucceed>>

(* A pair of muons, hard enough or of high mass, the leading one first.    *)
DecideMTDQuarkonium ==
  LET a == "MTDQuarkonium"
      muons == {h \in MuonHits : LET i == trackId[h] IN
                  Long(a, i) /\ T(i).p >= 1 /\ T(i).distance[h] <= 4}
      Good(i, j) ==
        LET lead == Higher(T(i).p, T(j).p)
        IN lead >= 3 \/ (lead = 2 /\ {<<i, j>>, <<j, i>>} \cap event.inMass[a] # {})
      LeadingFirst(i, j) == IF T(i).p > T(j).p THEN <<i, j>> ELSE <<j, i>>
  IN /\ Turn(a) /\ Enabled(a)
     /\ IF ~event.mtd
          THEN /\ NumOfCalled' = [NumOfCalled EXCEPT ![a] = @ + 1]
               /\ bank' = [bank EXCEPT ![a] = {}]
               /\ UNCHANGED <<hltDecision, NumOfSucceed>>
          ELSE Fills(a, {LeadingFirst(trackId[hg[1]], trackId[hg[2]]) :
                           hg \in {x \in muons \X muons : x[1] < x[2] /\ Good(trackId[x[1]], trackId[x[2]])}})
     /\ UNCHANGED <<node, ePair>>

(* makeNetworkData and fill_blobs copy what there is.                      *)
FillBlobs ==
  /\ phase = "deciding" /\ algo > MaxNHLTTriggers
  /\ phase' = "filled"
  /\ UNCHANGED <<config, event, needed, trackId, nEvent, algo, node, hltDecision, bank, ePair, counts>>

Decide ==
  \/ Skip \/ Crash \/ FillBlobs
  \/ AcceptNoHLT \/ DecideHighPt \/ DecideHeavyFragment \/ DecideRandomEvents \/ DecideDiV0
  \/ DecideMatchedHT2 \/ DecideLowMult \/ DecideUPCDiElectron \/ DecideUPCPair
  \/ DecideMTDDiMuon \/ DecideMTDQuarkonium
  \/ \E a \in Algorithm : DecideDiElectron(a) \/ DecideGlobal(a) \/ Disabled(a)

Next ==
  \/ SetTriggersFromRunControl
  \/ \E e \in Content, m \in Menu : EventStart(e, m)
  \/ Decide

Spec == Init /\ [][Next]_vars

------------------------------------------------------------------------------
PairType == [dau1 : Tracks, dau2 : Tracks, bits1 : SUBSET Method, bits2 : SUBSET Method]

(* Every variable keeps to the values its C++ counterpart can hold.        *)
TypeOK ==
  /\ phase \in {"config", "deciding", "filled", "crashed"}
  /\ setup \in Setup /\ index \in Nat \ {0}
  /\ cut \in [Algorithm -> 1..Higher(Default, MaxCut)]
  /\ event \in Content \cup {NoEvent} /\ needed \subseteq Algorithm
  /\ algo \in 1..(MaxNHLTTriggers + 1)
  /\ node \in [Tracks -> [cell : BOOLEAN, tower : Tower \cup {0}]]
  /\ trackId \in [Hit -> Tracks \cup {0}]
  /\ hltDecision \subseteq needed
  /\ \A a \in {"DiElectron", "DiElectron2Twr"} : bank[a] \subseteq PairType
  /\ NumOfCalled \in [Algorithm -> 0..nEvent]
  /\ \A a \in Algorithm : NumOfSucceed[a] \in 0..NumOfCalled[a]
  /\ nEvent \in 0..MaxEvent

(* What an algorithm may find in this event; of UPCDiElectron the bank has *)
(* positions, whose pairs are those of ePair, see UPCPairKept.             *)
PairsIn(a) ==
  {x \in PairType : {<<x.dau1, x.dau2>>, <<x.dau2, x.dau1>>} \cap event.inMass[a] # {}}

Entries(a) ==
  CASE a = "HighPt"         -> {i \in Tracks : Prim(i) /\ T(i).p >= 5}
    [] a = "HeavyFragment"  -> {i \in Tracks : T(i).pid \cap {"He3", "Triton"} # {}}
    [] a = "DiElectron"     -> PairsIn(a)
    [] a = "DiElectron2Twr" -> PairsIn(a)
    [] a = "UPCDiElectron"  -> Nat
    [] a = "MatchedHT2"     -> {ij \in Tracks \X Tracks : T(ij[1]).towers \cap event.high # {}}
    [] a = "LowMult"        -> {Cardinality(Tracks)}
    [] a = "UPCPair"        -> event.inMass[a] \cap (Tracks \X Tracks)
    [] a = "MTDQuarkonium"  -> {<<trackId[h], trackId[g]>> : h, g \in MuonHits}

BankIfAccepted == \A a \in Banked : bank[a] # {} <=> a \in hltDecision

(* Of the positions that the bank of UPCDiElectron counts it writes one:   *)
(* that given by the number of pairs of DiElectron, again and again, for   *)
(* all its pairs.  This one holds a pair of this event; the others go out  *)
(* as they were left.  So the bank, a "di-electron pair bank"              *)
(* (HLTFormats.h:189), is right for an event with one such pair and none   *)
(* of DiElectron, and for no other.                                        *)
UPCPairKept ==
  bank["UPCDiElectron"] # {} => ePair[Cardinality(bank["DiElectron"])] \in PairsIn("UPCDiElectron")

(* What goes out with an event is this event's: a bank holds something if  *)
(* and only if its algorithm ran on the event and accepted it, and every   *)
(* entry is of tracks, pairs and hits of this event (all banks are copied, *)
(* resetEvent empties them, decide_* fill them).  Of the pairs of          *)
(* UPCDiElectron that is true of the one position that is written.         *)
OwnBanks ==
  /\ BankIfAccepted
  /\ \A a \in Banked : \A x \in bank[a] : x \in Entries(a)
  /\ UPCPairKept

(* The cut that the last trigger of an algorithm asked for.                *)
Asked(a) ==
  LET mine == {i \in DOMAIN setup : setup[i].algo = a}
  IN IF a \notin WithCut \/ mine = {} THEN Default
     ELSE setup[CHOOSE i \in mine : \A j \in mine : j <= i].cut

(* What an algorithm should decide, told from the event and the setup.     *)
AskedLong(a, i) == T(i).nHits >= Asked(a)

Electron(a, i) ==
  /\ Prim(i) /\ AskedLong(a, i) /\ T(i).p >= 1
  /\ SelectionBits(a, i, T(i).cell) # {}

Accepts(a) ==
  \/ /\ a = "HighPt"
     /\ \E i \in Tracks : Prim(i) /\ AskedLong(a, i) /\ T(i).p >= 5
  \/ /\ a \in DiElectrons
     /\ a = "UPCDiElectron" => NPrimaryTracks <= nTracksCut_UPCdiElectron
     /\ \E ij \in event.inMass[a] :
          /\ ij \in Tracks \X Tracks /\ ij[1] < ij[2]
          /\ Electron(a, ij[1]) /\ Electron(a, ij[2])
          /\ Higher(T(ij[1]).p, T(ij[2]).p) >= 2
  \/ /\ a = "HeavyFragment"
     /\ \E i \in Tracks :
          /\ AskedLong(a, i)
          /\ \/ "He3" \in T(i).pid
             \/ Prim(i) /\ T(i).cell /\ {"Triton", "TritonMass"} \subseteq T(i).pid
  \/ /\ a \in {"BesGoodEvents", "HLTGood2"}
     /\ Within(30) /\ event.vr < 2 /\ NPrimaryTracks > Asked(a)
     /\ a = "HLTGood2" => Within(5) /\ 2 * event.vr < 3
  \/ /\ a = "LowMult"
     /\ Cardinality(Tracks) > Asked(a) /\ Cardinality(Tracks) < nTracksHigh_LowMult

Referenced == DiElectrons \cup {"HighPt", "HeavyFragment", "BesGoodEvents", "HLTGood2", "LowMult"}

(* An algorithm decides on the event and on the parameters of its trigger  *)
(* alone, whatever other algorithms matched before it and whatever events  *)
(* and triggers came first.                                                *)
Decision ==
  phase = "filled" =>
    \A a \in needed \cap Referenced : a \in hltDecision <=> Enabled(a) /\ Accepts(a)

(* HeavyFragment took the track, and gave its node another tower than that *)
(* an electron was judged by.                                              *)
Overwritten(i) == i \in bank["HeavyFragment"] /\ node[i].tower = Best(T(i).gtowers, Judged(i))

Evidence(a, i, bits) ==
  /\ bits # {} /\ bits \subseteq T(i).window
  /\ bits \cap {"Tof", "TofAndEmc"} # {} => node[i].cell /\ T(i).light
  /\ bits \cap {"Emc", "TofAndEmc"} # {} =>
       /\ LitTowers(i) # {} /\ POverE(a, i)
       /\ (node[i].tower = Judged(i) \/ (a = "DiElectron" /\ Overwritten(i)))

(* A di-electron in a bank is two different electrons, the leading one     *)
(* first, each with the bits of its own selection; and the nodes that are  *)
(* put out with it still hold the cell, and the very tower by whose energy *)
(* the electron was selected, after all later algorithms matched the same  *)
(* nodes again.  Only a track that is also a heavy fragment has lost the   *)
(* tower of its bits, to that of its global track (decide_HeavyFragment).  *)
PairsSound ==
  \A a \in {"DiElectron", "DiElectron2Twr"} : \A x \in bank[a] :
    /\ x.dau1 # x.dau2
    /\ a = "DiElectron" => T(x.dau1).p >= T(x.dau2).p
    /\ Evidence(a, x.dau1, x.bits1) /\ Evidence(a, x.dau2, x.bits2)

(* Two muon candidates are two tracks: no track has two MTD hits, a        *)
(* quarkonium is never a track paired with itself, and an event accepted   *)
(* for a quarkonium is a di-muon event (matchMTD, on which both count).    *)
MuonsDistinct ==
  /\ \A h, g \in Hit : trackId[h] = trackId[g] /\ trackId[h] # 0 => h = g
  /\ \A x \in bank["MTDQuarkonium"] : x[1] # x[2] /\ T(x[1]).p >= T(x[2]).p
  /\ phase = "filled" /\ "MTDDiMuon" \in needed /\ Enabled("MTDDiMuon")
       /\ "MTDQuarkonium" \in hltDecision => "MTDDiMuon" \in hltDecision

(* What the candidates of a bank and of a match stand for: different       *)
(* tracks, with the evidence their bits claim.                             *)
Candidates == PairsSound /\ MuonsDistinct
=============================================================================
