------------------------ MODULE TriggerDecider_proofs ------------------------
(***************************************************************************)
(* What the decider guarantees for any setup, events and switches, in      *)
(* three inductive invariants, each with the one before it as a conjunct.  *)
(*                                                                         *)
(* IInv: that a bank goes with its bit is not inductive, since an          *)
(* algorithm that ran twice on an event could empty a bank whose bit is    *)
(* set.  Once rests on the loop of finish(), which meets every algorithm   *)
(* once.  That the entries are of the event follows step by step.          *)
(*                                                                         *)
(* MInv: the muons.  No track has two hits, and both algorithms that count *)
(* muons see the same hits.                                                *)
(*                                                                         *)
(* DInv: the decisions.  The cuts are those asked for so far (Cuts), a     *)
(* node has a cell only if its primary track points at one and loses       *)
(* nothing while the event lasts (Nodes, NodesGrow), the algorithms passed *)
(* have decided rightly (Decided) and counted once (Counted), and the      *)
(* banks of electrons are borne out by the nodes (Electrons).              *)
(***************************************************************************)
EXTENDS TriggerDecider, TLAPS, FiniteSetTheorems, WellFoundedInduction

(* The bits set so far are of algorithms the loop has passed.              *)
Once ==
  /\ algo \in Nat \ {0}
  /\ bank = [a \in Banked |-> bank[a]]
  /\ \A a \in hltDecision : \E n \in 1..MaxNHLTTriggers : n < algo /\ Name[n] = a

IInv == BankIfAccepted /\ Once

(* No two algorithms have one name.                                        *)
LEMMA NamesDiffer ==
  ASSUME NEW n \in 1..MaxNHLTTriggers, NEW k \in 1..MaxNHLTTriggers, Name[n] = Name[k]
  PROVE  n = k
  BY DEF MaxNHLTTriggers, Name

(* An algorithm whose turn it is has not decided yet.                      *)
LEMMA TurnIsFirst ==
  ASSUME IInv, NEW a, Turn(a)
  PROVE  /\ a \notin hltDecision
         /\ algo' \in Nat \ {0}
         /\ \E n \in 1..MaxNHLTTriggers : n < algo' /\ Name[n] = a
         /\ \A b \in hltDecision : \E n \in 1..MaxNHLTTriggers : n < algo' /\ Name[n] = b
<1>1. algo \in 1..MaxNHLTTriggers /\ algo' = algo + 1 /\ Name[algo] = a
  BY DEF IInv, Once, Turn, MaxNHLTTriggers
<1>2. a \notin hltDecision
  <2>1. SUFFICES ASSUME a \in hltDecision PROVE FALSE
    OBVIOUS
  <2>2. PICK n \in 1..MaxNHLTTriggers : n < algo /\ Name[n] = a
    BY <2>1 DEF IInv, Once
  <2>3. n = algo
    BY <1>1, <2>2, NamesDiffer
  <2> QED
    BY <1>1, <2>2, <2>3 DEF MaxNHLTTriggers
<1>3. \A b \in hltDecision : \E n \in 1..MaxNHLTTriggers : n < algo' /\ Name[n] = b
  <2>1. ASSUME NEW b \in hltDecision
        PROVE  \E n \in 1..MaxNHLTTriggers : n < algo' /\ Name[n] = b
    <3>1. PICK n \in 1..MaxNHLTTriggers : n < algo /\ Name[n] = b
      BY DEF IInv, Once
    <3> QED
      BY <1>1, <3>1 DEF MaxNHLTTriggers
  <2> QED
    BY <2>1
<1>4. algo < algo' /\ algo' \in Nat \ {0}
  BY <1>1 DEF MaxNHLTTriggers
<1> QED
  BY <1>1, <1>2, <1>3, <1>4

(* An algorithm that fills its bank keeps the invariant ...                *)
LEMMA FillsKeeps ==
  ASSUME IInv, NEW a \in Banked, NEW found, Turn(a), Fills(a, found)
  PROVE  IInv'
<1>1. /\ hltDecision' = IF found # {} THEN hltDecision \cup {a} ELSE hltDecision
      /\ bank' = [bank EXCEPT ![a] = found]
  BY DEF Fills, Returns
<1>2. bank = [b \in Banked |-> bank[b]]
  BY DEF IInv, Once
<1>3. bank' = [b \in Banked |-> IF b = a THEN found ELSE bank[b]]
  BY <1>1, <1>2
<1>4. BankIfAccepted'
  <2>1. ASSUME NEW b \in Banked
        PROVE  bank'[b] # {} <=> b \in hltDecision'
    <3>1. CASE b = a
      BY <1>1, <1>3, <3>1, TurnIsFirst
    <3>2. CASE b # a
      BY <1>1, <1>3, <3>2 DEF IInv, BankIfAccepted
    <3> QED
      BY <3>1, <3>2
  <2> QED
    BY <2>1 DEF BankIfAccepted
<1>5. Once'
  <2>1. bank' = [b \in Banked |-> bank'[b]]
    BY <1>3
  <2> QED
    BY <1>1, <2>1, TurnIsFirst DEF Once
<1> QED
  BY <1>4, <1>5 DEF IInv

(* ... and so do one without a bank ...                                    *)
LEMMA ReturnsKeeps ==
  ASSUME IInv, NEW a, a \notin Banked, NEW triggered, Turn(a), Returns(a, triggered),
         UNCHANGED bank
  PROVE  IInv'
<1>1. hltDecision' = IF triggered THEN hltDecision \cup {a} ELSE hltDecision
  BY DEF Returns
<1>2. \A b \in Banked : b \in hltDecision' <=> b \in hltDecision
  BY <1>1
<1>3. BankIfAccepted'
  BY <1>2 DEF IInv, BankIfAccepted
<1>4. Once'
  <2>1. bank' = [b \in Banked |-> bank'[b]]
    BY DEF IInv, Once
  <2> QED
    BY <1>1, <2>1, TurnIsFirst DEF Once
<1> QED
  BY <1>3, <1>4 DEF IInv

(* ... and one that empties its bank or has none, and sets no bit.         *)
LEMMA EmptiesKeeps ==
  ASSUME IInv, NEW a, Turn(a), UNCHANGED hltDecision,
         a \in Banked => bank' = [bank EXCEPT ![a] = {}],
         a \notin Banked => UNCHANGED bank
  PROVE  IInv'
<1>1. bank = [b \in Banked |-> bank[b]]
  BY DEF IInv, Once
<1>2. bank' = [b \in Banked |-> IF b = a THEN {} ELSE bank[b]]
  BY <1>1
<1>3. BankIfAccepted'
  BY <1>2, TurnIsFirst DEF IInv, BankIfAccepted
<1>4. Once'
  <2>1. bank' = [b \in Banked |-> bank'[b]]
    BY <1>2
  <2> QED
    BY <2>1, TurnIsFirst DEF Once
<1> QED
  BY <1>3, <1>4 DEF IInv

(* Steps that touch neither the banks nor the bits.                        *)
LEMMA QuietKeeps ==
  ASSUME IInv, UNCHANGED <<bank, hltDecision>>, algo' = algo \/ algo' = algo + 1
  PROVE  IInv'
<1>1. BankIfAccepted'
  BY DEF IInv, BankIfAccepted
<1>2. algo' \in Nat \ {0} /\ algo <= algo'
  BY DEF IInv, Once
<1>3. \A a \in hltDecision' : \E n \in 1..MaxNHLTTriggers : n < algo' /\ Name[n] = a
  <2>1. ASSUME NEW a \in hltDecision'
        PROVE  \E n \in 1..MaxNHLTTriggers : n < algo' /\ Name[n] = a
    <3>1. PICK n \in 1..MaxNHLTTriggers : n < algo /\ Name[n] = a
      BY DEF IInv, Once
    <3> QED
      BY <1>2, <3>1 DEF IInv, Once, MaxNHLTTriggers
  <2> QED
    BY <2>1
<1>4. bank' = [a \in Banked |-> bank'[a]]
  BY DEF IInv, Once
<1> QED
  BY <1>1, <1>2, <1>3, <1>4 DEF IInv, Once

LEMMA InitHolds == Init => IInv
  BY DEF Init, IInv, BankIfAccepted, Once, NoBanks

(* Every action of the decider keeps the invariant.                        *)
LEMMA StepKeeps == IInv /\ [Next]_vars => IInv'
<1> SUFFICES ASSUME IInv, [Next]_vars PROVE IInv'
  OBVIOUS
<1>1. CASE UNCHANGED vars
  BY <1>1, QuietKeeps DEF vars
<1>2. CASE SetTriggersFromRunControl
  BY <1>2, QuietKeeps DEF SetTriggersFromRunControl
<1>3. ASSUME NEW e \in Content, NEW m \in Menu, EventStart(e, m) PROVE IInv'
  BY <1>3 DEF EventStart, ResetBanks, NoBanks, IInv, BankIfAccepted, Once
<1>4. CASE Skip
  BY <1>4, QuietKeeps DEF Skip
<1>5. CASE Crash
  BY <1>5, QuietKeeps DEF Crash
<1>6. CASE FillBlobs
  BY <1>6, QuietKeeps DEF FillBlobs
<1>7. CASE AcceptNoHLT
  BY <1>7, QuietKeeps DEF AcceptNoHLT, Turn
<1>8. CASE DecideHighPt
  BY <1>8, FillsKeeps DEF DecideHighPt, Banked
<1>9. CASE DecideHeavyFragment
  BY <1>9, FillsKeeps DEF DecideHeavyFragment, Banked
<1>10. CASE DecideRandomEvents
  BY <1>10, ReturnsKeeps DEF DecideRandomEvents, Banked, DiElectrons
<1>11. CASE DecideDiV0
  BY <1>11, ReturnsKeeps DEF DecideDiV0, Banked, DiElectrons
<1>12. CASE DecideMatchedHT2
  BY <1>12, FillsKeeps DEF DecideMatchedHT2, Banked
<1>13. CASE DecideLowMult
  BY <1>13, FillsKeeps DEF DecideLowMult, Banked
<1>14. CASE DecideUPCDiElectron
  <2>1. CASE NPrimaryTracks > nTracksCut_UPCdiElectron
    BY <1>14, <2>1, EmptiesKeeps DEF DecideUPCDiElectron, Declines
  <2>2. CASE ~(NPrimaryTracks > nTracksCut_UPCdiElectron)
    BY <1>14, <2>2, FillsKeeps DEF DecideUPCDiElectron, Banked, DiElectrons
  <2> QED
    BY <2>1, <2>2
<1>15. CASE DecideUPCPair
  BY <1>15, FillsKeeps DEF DecideUPCPair, Banked
<1>16. CASE DecideMTDDiMuon
  BY <1>16, ReturnsKeeps DEF DecideMTDDiMuon, Banked, DiElectrons
<1>17. CASE DecideMTDQuarkonium
  <2>1. "MTDQuarkonium" \in Banked
    BY DEF Banked
  <2>2. CASE event.mtd
    BY <1>17, <2>1, <2>2, FillsKeeps DEF DecideMTDQuarkonium
  <2>3. CASE ~event.mtd
    BY <1>17, <2>1, <2>3, EmptiesKeeps DEF DecideMTDQuarkonium
  <2> QED
    BY <2>2, <2>3
<1>18. ASSUME NEW a \in Algorithm, DecideDiElectron(a) PROVE IInv'
  BY <1>18, FillsKeeps DEF DecideDiElectron, Banked, DiElectrons
<1>19. ASSUME NEW a \in Algorithm, DecideGlobal(a) PROVE IInv'
  <2>1. a \notin Banked
    BY <1>19 DEF DecideGlobal, Global, Banked, DiElectrons
  <2> QED
    BY <1>19, <2>1, ReturnsKeeps DEF DecideGlobal
<1>20. ASSUME NEW a \in Algorithm, Disabled(a) PROVE IInv'
  BY <1>20, EmptiesKeeps DEF Disabled, Declines
<1> QED
  BY <1>1, <1>2, <1>3, <1>4, <1>5, <1>6, <1>7, <1>8, <1>9, <1>10, <1>11, <1>12, <1>13, <1>14,
     <1>15, <1>16, <1>17, <1>18, <1>19, <1>20 DEF Next, Decide

------------------------------------------------------------------------------
(* The muons.  Tracks have at most one hit (Distinct), the banks hold what *)
(* hits with a track make (Pairs), and the di-muon algorithm, whose turn   *)
(* is before that of the quarkonium, saw the same hits (Seen).             *)

Sane ==
  /\ event \in Content \cup {NoEvent}
  /\ phase \in {"deciding", "filled"} => event \in Content
  /\ phase = "filled" => algo > MaxNHLTTriggers
  /\ trackId \in [Hit -> Tracks \cup {0}]
  /\ 0 \notin Tracks

Distinct == \A h, g \in Hit : trackId[h] = trackId[g] /\ trackId[h] # 0 => h = g

Pairs ==
  \A x \in bank["MTDQuarkonium"] : x[1] # x[2] /\ T(x[1]).p >= T(x[2]).p

Seen ==
  /\ "MTDQuarkonium" \in hltDecision => Cardinality(MuonHits) >= 2
  /\ phase \in {"deciding", "filled"} /\ algo > 13 /\ "MTDDiMuon" \in needed
       /\ Enabled("MTDDiMuon") /\ Cardinality(MuonHits) >= 2
     => "MTDDiMuon" \in hltDecision

MInv == IInv /\ Sane /\ Distinct /\ Pairs /\ Seen

(* A set of numbers has a least one.                                       *)
LEMMA LeastNumber ==
  ASSUME NEW S \in SUBSET Nat, S # {}
  PROVE  \E x \in S : \A y \in S : x <= y
<1> DEFINE Less == {ss \in Nat \X Nat : ss[1] < ss[2]}
<1>1. IsWellFoundedOn(Less, Nat)
  BY NatLessThanWellFounded, Zenon DEF OpToRel
<1> HIDE DEF Less
<1>2. PICK x \in S : \A y \in S : ~(<<y, x>> \in Less)
  BY <1>1, WFMin
<1>3. ASSUME NEW y \in S PROVE x <= y
  <2>1. x \in Nat /\ y \in Nat /\ <<y, x>> \notin Less
    BY <1>2
  <2>2. ~(y < x)
    <3>1. SUFFICES ASSUME y < x PROVE <<y, x>> \in Less
      BY <2>1
    <3>2. <<y, x>> \in Nat \X Nat /\ <<y, x>>[1] < <<y, x>>[2]
      BY <2>1, <3>1
    <3> QED
      BY <3>2 DEF Less
  <2> QED
    BY <2>1, <2>2
<1> QED
  BY <1>3

(* There is a nearest one.                                                 *)
LEMMA NearestIsOne ==
  ASSUME NEW S \in SUBSET Nat, S # {}, NEW d, \A x \in S : d[x] \in Nat
  PROVE  Nearest(S, d) \in S
<1> DEFINE distances == {d[x] : x \in S}
<1>1. PICK least \in distances : \A y \in distances : least <= y
  <2>1. distances \in SUBSET Nat /\ distances # {}
    OBVIOUS
  <2> QED
    BY <2>1, LeastNumber
<1> DEFINE closest == {x \in S : d[x] = least}
<1>2. PICK first \in closest : \A y \in closest : first <= y
  <2>1. closest \in SUBSET Nat /\ closest # {}
    BY <1>1
  <2> QED
    BY <2>1, LeastNumber
<1>3. \A y \in S : d[first] < d[y] \/ (d[first] = d[y] /\ first <= y)
  BY <1>1, <1>2
<1> QED
  BY <1>2, <1>3 DEF Nearest
(* Of the events that can be, what the proof needs.                        *)
LEMMA EventIsSane ==
  ASSUME NEW e \in Content
  PROVE  /\ DOMAIN e.tracks \in SUBSET Nat /\ 0 \notin DOMAIN e.tracks
         /\ \A i \in DOMAIN e.tracks :
              e.tracks[i].p \in Nat /\ e.tracks[i].distance \in [Hit -> Nat]
         /\ e.isTrigger \subseteq Hit
<1>1. IsContent(e)
  BY DeciderAssumption
<1>2. /\ IsFiniteSet(DOMAIN e.tracks)
      /\ DOMAIN e.tracks = 1..Cardinality(DOMAIN e.tracks)
      /\ e.isTrigger \subseteq Hit
  BY <1>1 DEF IsContent
<1>3. DOMAIN e.tracks \in SUBSET Nat /\ 0 \notin DOMAIN e.tracks
  <2>1. Cardinality(DOMAIN e.tracks) \in Nat
    BY <1>2, FS_CardinalityType
  <2> QED
    BY <1>2, <2>1
<1>4. \A i \in DOMAIN e.tracks : e.tracks[i] \in Track
  BY <1>1 DEF IsContent
<1>5. \A t \in Track : t.p \in Nat /\ t.distance \in [Hit -> Nat]
  BY DEF Track
<1> QED
  BY <1>2, <1>3, <1>4, <1>5

(* A hit of a track is the one that the track is matched to.               *)
LEMMA MatchIsMutual ==
  ASSUME NEW e \in Content, NEW h \in Hit
  PROVE  \/ MatchMTD(e)[h] = 0
         \/ MatchMTD(e)[h] \in DOMAIN e.tracks /\ HitOf(e.tracks[MatchMTD(e)[h]]) = h
<1> DEFINE candidates == {i \in DOMAIN e.tracks : HitOf(e.tracks[i]) = h}
           d == [i \in candidates |-> e.tracks[i].distance[h]]
<1>1. MatchMTD(e)[h] = IF e.mtd /\ candidates # {} THEN Nearest(candidates, d) ELSE 0
  BY DEF MatchMTD
<1>2. CASE e.mtd /\ candidates # {}
  <2>1. candidates \in SUBSET Nat /\ \A i \in candidates : d[i] \in Nat
    BY EventIsSane
  <2>2. Nearest(candidates, d) \in candidates
    BY <1>2, <2>1, NearestIsOne
  <2> QED
    BY <1>1, <1>2, <2>2
<1>3. CASE ~(e.mtd /\ candidates # {})
  BY <1>1, <1>3
<1> QED
  BY <1>2, <1>3

(* matchMTD gives no track two hits.                                       *)
LEMMA MatchIsDistinct ==
  ASSUME NEW e \in Content
  PROVE  /\ MatchMTD(e) \in [Hit -> DOMAIN e.tracks \cup {0}]
         /\ \A h, g \in Hit : MatchMTD(e)[h] = MatchMTD(e)[g] /\ MatchMTD(e)[h] # 0 => h = g
<1>1. MatchMTD(e) = [h \in Hit |-> MatchMTD(e)[h]]
  BY DEF MatchMTD
<1>2. \A h \in Hit : MatchMTD(e)[h] \in DOMAIN e.tracks \cup {0}
  BY MatchIsMutual
<1>3. ASSUME NEW h \in Hit, NEW g \in Hit, MatchMTD(e)[h] = MatchMTD(e)[g], MatchMTD(e)[h] # 0
      PROVE  h = g
  BY <1>3, MatchIsMutual
<1> QED
  BY <1>1, <1>2, <1>3

(* Two flagged hits with a track are at least two.                         *)
LEMMA TwoMuons ==
  ASSUME event \in Content, NEW h \in MuonHits, NEW g \in MuonHits, h # g
  PROVE  Cardinality(MuonHits) >= 2
<1>1. IsFiniteSet(MuonHits)
  <2>1. MuonHits \in SUBSET (1..NHit)
    BY EventIsSane DEF MuonHits, Hit
  <2>2. IsFiniteSet(1..NHit)
    BY DeciderAssumption, FS_Interval
  <2> QED
    BY <2>1, <2>2, FS_Subset
<1>2. IsFiniteSet({h}) /\ Cardinality({h}) = 1
  BY FS_Singleton
<1>3. Cardinality({h} \cup {g}) = 2
  BY <1>2, FS_AddElement
<1>4. Cardinality({h} \cup {g}) <= Cardinality(MuonHits)
  BY <1>1, FS_Subset
<1>5. Cardinality(MuonHits) \in Nat
  BY <1>1, FS_CardinalityType
<1> QED
  BY <1>3, <1>4, <1>5

(* The algorithms that do not look at muons.                               *)
LEMMA OtherKeeps ==
  ASSUME MInv, IInv', NEW a, Turn(a), a # "MTDDiMuon" \/ ~Enabled("MTDDiMuon"),
         a = "MTDQuarkonium" => UNCHANGED hltDecision /\ bank'["MTDQuarkonium"] = {},
         a # "MTDQuarkonium" => UNCHANGED bank["MTDQuarkonium"],
         hltDecision' = hltDecision \/ hltDecision' = hltDecision \cup {a}
  PROVE  MInv'
<1>1. /\ UNCHANGED <<phase, setup, index, cut, event, needed, trackId, nEvent>>
      /\ phase = "deciding" /\ algo' = algo + 1 /\ Name[algo] = a /\ algo \in 1..MaxNHLTTriggers
  BY DEF Turn, input, config, MInv, IInv, Once, MaxNHLTTriggers
<1>2. Sane' /\ Distinct'
  BY <1>1 DEF MInv, Sane, Distinct, Tracks
<1>3. Pairs'
  BY <1>1 DEF MInv, Pairs, T
<1>4. Seen'
  <2>1. MuonHits' = MuonHits
    BY <1>1 DEF MuonHits
  <2>2. "MTDQuarkonium" \in hltDecision' => "MTDQuarkonium" \in hltDecision
    OBVIOUS
  <2>3. Enabled("MTDDiMuon") => algo # 13
    BY <1>1 DEF Name
  <2>4. hltDecision \subseteq hltDecision'
    OBVIOUS
  <2>5. Enabled("MTDDiMuon")' = Enabled("MTDDiMuon")
    BY DEF Enabled
  <2>6. Enabled("MTDDiMuon") /\ algo' > 13 => algo > 13
    BY <1>1, <2>3
  <2> QED
    BY <1>1, <2>1, <2>2, <2>4, <2>5, <2>6 DEF MInv, Seen
<1> QED
  BY <1>2, <1>3, <1>4 DEF MInv

(* An algorithm that fills a bank other than that of the quarkonium.       *)
LEMMA OtherFills ==
  ASSUME MInv, NEW a \in Banked, a # "MTDQuarkonium", NEW found, Turn(a), Fills(a, found)
  PROVE  MInv'
<1>1. IInv'
  BY FillsKeeps DEF MInv
<1>2. a # "MTDDiMuon"
  BY DEF Banked, DiElectrons
<1>3. hltDecision' = hltDecision \/ hltDecision' = hltDecision \cup {a}
  BY DEF Fills, Returns
<1>4. UNCHANGED bank["MTDQuarkonium"]
  BY DEF MInv, IInv, Once, Fills, Banked
<1> QED
  BY <1>1, <1>2, <1>3, <1>4, OtherKeeps

(* An algorithm without a bank.                                            *)
LEMMA OtherReturns ==
  ASSUME MInv, NEW a, a \notin Banked, a # "MTDDiMuon", NEW triggered, Turn(a),
         Returns(a, triggered), UNCHANGED bank
  PROVE  MInv'
<1>1. IInv'
  BY ReturnsKeeps DEF MInv
<1>2. a # "MTDQuarkonium"
  BY DEF Banked
<1>3. hltDecision' = hltDecision \/ hltDecision' = hltDecision \cup {a}
  BY DEF Returns
<1> QED
  BY <1>1, <1>2, <1>3, OtherKeeps

(* A call that sets no bit and empties its bank.                           *)
LEMMA OtherEmpties ==
  ASSUME MInv, NEW a, Turn(a), UNCHANGED hltDecision,
         a # "MTDDiMuon" \/ ~Enabled("MTDDiMuon"),
         a \in Banked => bank' = [bank EXCEPT ![a] = {}],
         a \notin Banked => UNCHANGED bank
  PROVE  MInv'
<1>1. IInv'
  BY EmptiesKeeps DEF MInv
<1>2. bank = [b \in Banked |-> bank[b]] /\ "MTDQuarkonium" \in Banked
  BY DEF MInv, IInv, Once, Banked
<1>3. a = "MTDQuarkonium" => bank'["MTDQuarkonium"] = {}
  BY <1>2
<1>4. a # "MTDQuarkonium" => UNCHANGED bank["MTDQuarkonium"]
  BY <1>2
<1> QED
  BY <1>1, <1>3, <1>4, OtherKeeps

(* The di-muon algorithm counts the muons.                                 *)
LEMMA DiMuonKeeps ==
  ASSUME MInv, DecideMTDDiMuon
  PROVE  MInv'
<1>1. /\ UNCHANGED <<phase, setup, index, cut, event, needed, trackId, nEvent, bank>>
      /\ phase = "deciding" /\ algo' = algo + 1
  BY DEF DecideMTDDiMuon, Turn, input, config
<1>2. IInv'
  BY ReturnsKeeps DEF DecideMTDDiMuon, MInv, Banked, DiElectrons
<1>3. hltDecision' = IF Cardinality(MuonHits) >= 2 THEN hltDecision \cup {"MTDDiMuon"} ELSE hltDecision
  BY DEF DecideMTDDiMuon, Returns
<1>4. Sane' /\ Distinct' /\ Pairs'
  BY <1>1 DEF MInv, Sane, Distinct, Pairs, Tracks, T
<1>5. MuonHits' = MuonHits
  BY <1>1 DEF MuonHits
<1>6. Seen'
  BY <1>3, <1>5 DEF MInv, Seen
<1> QED
  BY <1>2, <1>4, <1>6 DEF MInv

(* The quarkonium is made of two hits, hence of two tracks.                *)
LEMMA QuarkoniumKeeps ==
  ASSUME MInv, DecideMTDQuarkonium
  PROVE  MInv'
<1> DEFINE q == "MTDQuarkonium"
<1>1. /\ UNCHANGED <<phase, setup, index, cut, event, needed, trackId, nEvent>>
      /\ phase = "deciding" /\ algo' = algo + 1 /\ Name[algo] = q /\ Turn(q)
  BY DEF DecideMTDQuarkonium, Turn, input, config
<1>2. q \in Banked /\ bank = [b \in Banked |-> bank[b]]
  BY DEF Banked, MInv, IInv, Once
<1>3. CASE ~event.mtd
  BY <1>1, <1>2, <1>3, OtherEmpties DEF DecideMTDQuarkonium
<1>4. CASE event.mtd
  <2> DEFINE muons == {h \in MuonHits : LET i == trackId[h] IN
                         Long(q, i) /\ T(i).p >= 1 /\ T(i).distance[h] <= 4}
             Good(i, j) ==
               LET lead == Higher(T(i).p, T(j).p)
               IN lead >= 3 \/ (lead = 2 /\ {<<i, j>>, <<j, i>>} \cap event.inMass[q] # {})
             LeadingFirst(i, j) == IF T(i).p > T(j).p THEN <<i, j>> ELSE <<j, i>>
             chosen == {x \in muons \X muons : x[1] < x[2] /\ Good(trackId[x[1]], trackId[x[2]])}
             found == {LeadingFirst(trackId[hg[1]], trackId[hg[2]]) : hg \in chosen}
  <2>1. Fills(q, found)
    BY <1>4 DEF DecideMTDQuarkonium
  <2>2. bank'[q] = found /\ hltDecision' = IF found # {} THEN hltDecision \cup {q} ELSE hltDecision
    BY <1>2, <2>1 DEF Fills, Returns
  <2>3. IInv'
    BY <1>1, <1>2, <2>1, FillsKeeps DEF MInv
  <2>4. event \in Content
    BY <1>1 DEF MInv, Sane
  <2>5. ASSUME NEW hg \in chosen
        PROVE  LET x == LeadingFirst(trackId[hg[1]], trackId[hg[2]])
               IN  /\ x[1] # x[2] /\ T(x[1]).p >= T(x[2]).p
                   /\ Cardinality(MuonHits) >= 2
    <3>1. hg[1] \in MuonHits /\ hg[2] \in MuonHits /\ hg[1] < hg[2]
      OBVIOUS
    <3>2. hg[1] \in Hit /\ hg[2] \in Hit /\ trackId[hg[1]] # 0 /\ trackId[hg[2]] # 0
      BY <2>4, <3>1, EventIsSane DEF MuonHits
    <3>3. hg[1] # hg[2]
      BY <3>1, <3>2 DEF Hit
    <3>4. Cardinality(MuonHits) >= 2
      BY <2>4, <3>1, <3>3, TwoMuons
    <3> DEFINE i == trackId[hg[1]]
               j == trackId[hg[2]]
    <3>5. i # j /\ i \in Tracks /\ j \in Tracks
      BY <3>2, <3>3 DEF MInv, Sane, Distinct
    <3>6. T(i).p \in Nat /\ T(j).p \in Nat
      BY <2>4, <3>5, EventIsSane DEF T, Tracks
    <3> HIDE DEF i, j
    <3>7. CASE T(i).p > T(j).p
      BY <3>4, <3>5, <3>6, <3>7 DEF i, j
    <3>8. CASE ~(T(i).p > T(j).p)
      BY <3>4, <3>5, <3>6, <3>8 DEF i, j
    <3> QED
      BY <3>7, <3>8
  <2> HIDE DEF chosen, LeadingFirst
  <2>6. Sane' /\ Distinct'
    BY <1>1 DEF MInv, Sane, Distinct, Tracks
  <2>7. Pairs'
    BY <1>1, <2>2, <2>5 DEF Pairs, T
  <2>8. MuonHits' = MuonHits
    BY <1>1 DEF MuonHits
  <2>9. found # {} => Cardinality(MuonHits) >= 2
    BY <2>5
  <2>10. algo' > 13 => algo > 13
    BY <1>1 DEF Name, MInv, IInv, Once
  <2>11. Seen'
    BY <1>1, <2>2, <2>8, <2>9, <2>10 DEF MInv, Seen, Enabled
  <2> QED
    BY <2>3, <2>6, <2>7, <2>11 DEF MInv
<1> QED
  BY <1>3, <1>4

LEMMA InitMuons == Init => MInv
  BY InitHolds, DeciderAssumption
     DEF Init, MInv, Sane, Distinct, Pairs, Seen, NoEvent, Tracks, NoBanks, Banked

(* A new event: its hits have their tracks, its banks are empty.           *)
LEMMA StartKeeps ==
  ASSUME MInv, NEW e \in Content, NEW m \in Menu, EventStart(e, m)
  PROVE  MInv'
<1>1. IInv'
  BY StepKeeps DEF MInv, Next
<1>2. /\ event' = e /\ phase' = "deciding" /\ algo' = 1 /\ trackId' = MatchMTD(e)
      /\ hltDecision' = {} /\ bank' = NoBanks
  BY DEF EventStart, ResetBanks
<1>3. Sane'
  BY <1>2, EventIsSane, MatchIsDistinct DEF Sane, Tracks
<1>4. Distinct'
  BY <1>2, MatchIsDistinct DEF Distinct
<1>5. Pairs' /\ Seen'
  BY <1>2 DEF Pairs, Seen, NoBanks, Banked
<1> QED
  BY <1>1, <1>3, <1>4, <1>5 DEF MInv

(* Steps that touch neither banks, bits, hits nor event.                   *)
LEMMA QuietMuons ==
  ASSUME MInv, UNCHANGED <<event, needed, trackId, bank, hltDecision>>,
         \/ algo' = algo
         \/ algo' = algo + 1 /\ phase = "deciding" /\ (algo = 13 => "MTDDiMuon" \notin needed),
         \/ UNCHANGED phase
         \/ phase' = "crashed"
         \/ phase = "deciding" /\ phase' = "filled" /\ algo' > MaxNHLTTriggers
  PROVE  MInv'
<1>1. IInv'
  BY QuietKeeps DEF MInv
<1>2. algo \in Nat
  BY DEF MInv, IInv, Once
<1>3. Sane'
  BY <1>2 DEF MInv, Sane, Tracks, MaxNHLTTriggers
<1>4. Distinct' /\ Pairs'
  BY DEF MInv, Distinct, Pairs, T
<1>5. MuonHits' = MuonHits /\ Enabled("MTDDiMuon")' = Enabled("MTDDiMuon")
  BY DEF MuonHits, Enabled
<1>6. Seen'
  BY <1>2, <1>5 DEF MInv, Seen
<1> QED
  BY <1>1, <1>3, <1>4, <1>6 DEF MInv

LEMMA StepMuons == MInv /\ [Next]_vars => MInv'
<1> SUFFICES ASSUME MInv, [Next]_vars PROVE MInv'
  OBVIOUS
<1>1. CASE UNCHANGED vars
  BY <1>1, QuietMuons DEF vars, input, config
<1>2. CASE SetTriggersFromRunControl
  BY <1>2, QuietMuons DEF SetTriggersFromRunControl
<1>3. ASSUME NEW e \in Content, NEW m \in Menu, EventStart(e, m) PROVE MInv'
  BY <1>3, StartKeeps
<1>4. CASE Skip
  <2>1. algo = 13 => "MTDDiMuon" \notin needed
    BY <1>4 DEF Skip, Name
  <2> QED
    BY <1>4, <2>1, QuietMuons DEF Skip, input, config
<1>5. CASE Crash
  BY <1>5, QuietMuons DEF Crash
<1>6. CASE FillBlobs
  BY <1>6, QuietMuons DEF FillBlobs
<1>7. CASE AcceptNoHLT
  <2>1. algo # 13
    BY <1>7 DEF AcceptNoHLT, Turn, Name
  <2> QED
    BY <1>7, <2>1, QuietMuons DEF AcceptNoHLT, Turn, input, config
<1>8. CASE DecideHighPt
  BY <1>8, OtherFills DEF DecideHighPt, Banked
<1>9. CASE DecideHeavyFragment
  BY <1>9, OtherFills DEF DecideHeavyFragment, Banked
<1>10. CASE DecideRandomEvents
  BY <1>10, OtherReturns DEF DecideRandomEvents, Banked, DiElectrons
<1>11. CASE DecideDiV0
  BY <1>11, OtherReturns DEF DecideDiV0, Banked, DiElectrons
<1>12. CASE DecideMatchedHT2
  BY <1>12, OtherFills DEF DecideMatchedHT2, Banked
<1>13. CASE DecideLowMult
  BY <1>13, OtherFills DEF DecideLowMult, Banked
<1>14. CASE DecideUPCDiElectron
  <2>1. CASE NPrimaryTracks > nTracksCut_UPCdiElectron
    BY <1>14, <2>1, OtherEmpties DEF DecideUPCDiElectron, Declines
  <2>2. CASE ~(NPrimaryTracks > nTracksCut_UPCdiElectron)
    BY <1>14, <2>2, OtherFills DEF DecideUPCDiElectron, Banked, DiElectrons
  <2> QED
    BY <2>1, <2>2
<1>15. CASE DecideUPCPair
  BY <1>15, OtherFills DEF DecideUPCPair, Banked
<1>16. CASE DecideMTDDiMuon
  BY <1>16, DiMuonKeeps
<1>17. CASE DecideMTDQuarkonium
  BY <1>17, QuarkoniumKeeps
<1>18. ASSUME NEW a \in Algorithm, DecideDiElectron(a) PROVE MInv'
  BY <1>18, OtherFills DEF DecideDiElectron, Banked, DiElectrons
<1>19. ASSUME NEW a \in Algorithm, DecideGlobal(a) PROVE MInv'
  <2>1. a \notin Banked /\ a # "MTDDiMuon"
    BY <1>19 DEF DecideGlobal, Global, Banked, DiElectrons
  <2> QED
    BY <1>19, <2>1, OtherReturns DEF DecideGlobal
<1>20. ASSUME NEW a \in Algorithm, Disabled(a) PROVE MInv'
  BY <1>20, OtherEmpties DEF Disabled, Declines
<1> QED
  BY <1>1, <1>2, <1>3, <1>4, <1>5, <1>6, <1>7, <1>8, <1>9, <1>10, <1>11, <1>12, <1>13, <1>14,
     <1>15, <1>16, <1>17, <1>18, <1>19, <1>20 DEF Next, Decide

(* Two muons are two tracks, in hits and in pairs, and an event accepted   *)
(* for a quarkonium is a di-muon event (matchMTD and the two algorithms    *)
(* that rest on it).                                                       *)
THEOREM TwoTracks == Spec => []MuonsDistinct
<1>1. MInv => MuonsDistinct
  BY DEF MInv, IInv, Once, Sane, Distinct, Pairs, Seen, MuonsDistinct, MaxNHLTTriggers
<1> QED
  BY InitMuons, StepMuons, <1>1, PTL DEF Spec
------------------------------------------------------------------------------
(* The entries of the banks.                                               *)
Own == \A a \in Banked : \A x \in bank[a] : x \in Entries(a)

(* As long as the event lasts, what may be in a bank stays the same.       *)
LEMMA EntriesKept ==
  ASSUME UNCHANGED <<event, trackId>>, NEW a \in Banked
  PROVE  Entries(a)' = Entries(a)
<1>1. Tracks' = Tracks /\ \A i : T(i)' = T(i) /\ Prim(i)' = Prim(i)
  BY DEF Tracks, T, Prim
<1>2. PairType' = PairType /\ MuonHits' = MuonHits
  BY <1>1 DEF PairType, Method, MuonHits
<1>3. PairsIn(a)' = PairsIn(a)
  BY <1>2 DEF PairsIn
<1>4. event' = event /\ trackId' = trackId
  OBVIOUS
<1>5. CASE a \in {"DiElectron", "DiElectron2Twr"}
  BY <1>3, <1>5 DEF Entries
<1>6. CASE a = "MTDQuarkonium"
  BY <1>2, <1>4, <1>6 DEF Entries
<1>7. CASE a \in {"LowMult", "UPCDiElectron"}
  BY <1>1, <1>7 DEF Entries
<1>8. CASE a = "HeavyFragment"
  <2>1. /\ Entries(a) = {i \in Tracks : T(i).pid \cap {"He3", "Triton"} # {}}
        /\ Entries(a)' = {i \in Tracks' : T(i)'.pid \cap {"He3", "Triton"} # {}}
    BY <1>8 DEF Entries
  <2> QED
    BY <1>1, <2>1
<1>9. CASE a = "HighPt"
  <2>1. /\ Entries(a) = {i \in Tracks : Prim(i) /\ T(i).p >= 5}
        /\ Entries(a)' = {i \in Tracks' : Prim(i)' /\ T(i)'.p >= 5}
    BY <1>9 DEF Entries
  <2> QED
    BY <1>1, <2>1
<1>10. CASE a = "UPCPair"
  BY <1>1, <1>4, <1>10 DEF Entries
<1>11. CASE a = "MatchedHT2"
  <2>1. /\ Entries(a) = {ij \in Tracks \X Tracks : T(ij[1]).towers \cap event.high # {}}
        /\ Entries(a)' = {ij \in Tracks' \X Tracks' : T(ij[1])'.towers \cap event'.high # {}}
    BY <1>11 DEF Entries
  <2> QED
    BY <1>1, <1>4, <2>1
<1>12. a \in {"DiElectron", "DiElectron2Twr", "MTDQuarkonium", "HighPt", "HeavyFragment", "MatchedHT2",
              "LowMult", "UPCPair", "UPCDiElectron"}
  BY DEF Banked, DiElectrons
<1> QED
  BY <1>5, <1>6, <1>7, <1>8, <1>9, <1>10, <1>11, <1>12

(* One bank is filled, with entries of the event.                          *)
LEMMA FillsOwn ==
  ASSUME IInv, Own, NEW a, NEW found, UNCHANGED <<event, trackId>>, bank' = [bank EXCEPT ![a] = found],
         a \in Banked => \A x \in found : x \in Entries(a)
  PROVE  Own'
<1>1. bank' = [b \in Banked |-> IF b = a THEN found ELSE bank[b]]
  BY DEF IInv, Once
<1>2. ASSUME NEW b \in Banked, NEW x \in bank'[b] PROVE x \in Entries(b)
  BY <1>1, <1>2 DEF Own
<1>3. ASSUME NEW b \in Banked, NEW x \in bank'[b] PROVE x \in Entries(b)'
  BY <1>2, <1>3, EntriesKept
<1> QED
  BY <1>3 DEF Own

LEMMA QuietOwn ==
  ASSUME Own, UNCHANGED <<event, trackId, bank>>
  PROVE  Own'
<1>1. ASSUME NEW b \in Banked, NEW x \in bank'[b] PROVE x \in Entries(b)'
  BY <1>1, EntriesKept DEF Own
<1> QED
  BY <1>1 DEF Own

(* A pair is of two tracks of the event that pass the cuts on pairs.       *)
LEMMA PairIsIn ==
  ASSUME NEW a, NEW ij \in PairsOf(a)
  PROVE  Pair(a, ij[1], ij[2]) \in PairsIn(a)
<1> DEFINE i == ij[1]
           j == ij[2]
           swap == a # "DiElectron2Twr" /\ T(i).p < T(j).p
           d1 == IF swap THEN j ELSE i
           d2 == IF swap THEN i ELSE j
<1>1. i \in Tracks /\ j \in Tracks /\ <<i, j>> \in event.inMass[a]
  BY DEF PairsOf
<1>2. \A k, c : SelectionBits(a, k, c) \subseteq Method
  BY DEF SelectionBits, Windows, Method
<1>3. Pair(a, i, j) = [dau1 |-> d1, dau2 |-> d2, bits1 |-> SelectionBits(a, d1, CellOf(d1)),
                       bits2 |-> SelectionBits(a, d2, CellOf(d2))]
  BY DEF Pair
<1> HIDE DEF i, j
<1>4. d1 \in Tracks /\ d2 \in Tracks /\ {<<d1, d2>>, <<d2, d1>>} \cap event.inMass[a] # {}
  BY <1>1
<1> HIDE DEF d1, d2
<1>5. SelectionBits(a, d1, CellOf(d1)) \in SUBSET Method /\ SelectionBits(a, d2, CellOf(d2)) \in SUBSET Method
  BY <1>2
<1>6. Pair(a, i, j) \in PairsIn(a)
  BY <1>3, <1>4, <1>5 DEF PairsIn, PairType
<1> QED
  BY <1>6 DEF i, j

LEMMA FirstOfTracks ==
  ASSUME event \in Content, NEW S \in SUBSET Tracks, S # {}
  PROVE  \E i \in S : \A j \in S : i <= j
BY EventIsSane, LeastNumber DEF Tracks

(* Every algorithm finds what it fills its bank with in the event.         *)
LEMMA StepOwns == MInv /\ Own /\ [Next]_vars => Own'
<1> SUFFICES ASSUME MInv, Own, [Next]_vars PROVE Own'
  OBVIOUS
<1>0. IInv /\ (phase = "deciding" => event \in Content)
  BY DEF MInv, Sane
<1>1. ASSUME NEW a, Turn(a) PROVE UNCHANGED <<event, trackId>>
  BY <1>1 DEF Turn, input
<1>2. ASSUME NEW a, NEW found, Turn(a), Fills(a, found),
             a \in Banked => \A x \in found : x \in Entries(a)
      PROVE  Own'
  BY <1>0, <1>1, <1>2, FillsOwn DEF Fills
<1>3. ASSUME NEW a, Turn(a), Declines(a) PROVE Own'
  BY <1>0, <1>1, <1>3, FillsOwn, QuietOwn DEF Declines
<1>4. CASE UNCHANGED vars \/ SetTriggersFromRunControl \/ Skip \/ Crash \/ FillBlobs
  BY <1>4, QuietOwn DEF vars, input, SetTriggersFromRunControl, Skip, Crash, FillBlobs
<1>5. ASSUME NEW e \in Content, NEW m \in Menu, EventStart(e, m) PROVE Own'
  BY <1>5 DEF EventStart, ResetBanks, NoBanks, Own
<1>6. CASE AcceptNoHLT \/ DecideRandomEvents \/ DecideDiV0 \/ DecideMTDDiMuon
  BY <1>1, <1>6, QuietOwn DEF AcceptNoHLT, DecideRandomEvents, DecideDiV0, DecideMTDDiMuon
<1>7. CASE DecideHighPt
  <2>1. Turn("HighPt") /\ Fills("HighPt", {i \in Tracks : Prim(i) /\ Long("HighPt", i) /\ T(i).p >= 5})
    BY <1>7 DEF DecideHighPt
  <2> QED
    BY <1>2, <2>1 DEF Entries
<1>8. CASE DecideHeavyFragment
  <2>1. Turn("HeavyFragment") /\ Fills("HeavyFragment", {i \in Tracks : IsHeavy(i)})
    BY <1>8 DEF DecideHeavyFragment
  <2>2. \A i : IsHeavy(i) => T(i).pid \cap {"He3", "Triton"} # {}
    BY DEF IsHeavy, HeavyDedx
  <2> QED
    BY <1>2, <2>1, <2>2 DEF Entries
<1>9. CASE DecideMatchedHT2
  <2> DEFINE a == "MatchedHT2"
             fast == {i \in Tracks : Prim(i) /\ Long(a, i) /\ T(i).p >= 1}
             onHigh == {i \in fast : \E w \in T(i).towers \cap event.high : event.energy[w] <= 3 * T(i).p}
             first == CHOOSE i \in onHigh : \A j \in onHigh : i <= j
             others == {i \in fast \ {first} : "Electron" \in T(i).pid}
             found == IF onHigh = {} THEN {} ELSE {<<first, first>>} \cup {<<first, i>> : i \in others}
  <2>0. event \in Content
    BY <1>0, <1>9 DEF DecideMatchedHT2, Turn
  <2>1. Turn(a) /\ Fills(a, found)
    BY <1>9 DEF DecideMatchedHT2
  <2>2. onHigh # {} => first \in onHigh
    <3>1. ASSUME onHigh # {} PROVE \E i \in onHigh : \A j \in onHigh : i <= j
      BY <2>0, <3>1, FirstOfTracks
    <3> QED
      BY <3>1
  <2>3. \A i \in onHigh : i \in Tracks /\ T(i).towers \cap event.high # {}
    OBVIOUS
  <2>4. \A i \in others : i \in Tracks
    OBVIOUS
  <2> HIDE DEF onHigh, others, first
  <2>5. \A x \in found : \E i \in Tracks : x = <<first, i>> /\ first \in onHigh
    BY <2>2, <2>3, <2>4
  <2>6. Entries(a) = {ij \in Tracks \X Tracks : T(ij[1]).towers \cap event.high # {}}
    BY DEF Entries
  <2> HIDE DEF found
  <2>7. \A x \in found : x \in Entries(a)
    BY <2>3, <2>5, <2>6
  <2> QED
    BY <1>2, <2>1, <2>7
<1>10. CASE DecideLowMult
  <2> DEFINE n == Cardinality(Tracks)
             found == IF n > cut["LowMult"] /\ n < nTracksHigh_LowMult THEN {n} ELSE {}
  <2>1. Turn("LowMult") /\ Fills("LowMult", found)
    BY <1>10 DEF DecideLowMult
  <2>2. \A x \in found : x \in Entries("LowMult")
    BY DEF Entries
  <2> HIDE DEF found
  <2> QED
    BY <1>2, <2>1, <2>2
<1>11. CASE DecideUPCDiElectron
  <2>1. \/ Turn("UPCDiElectron") /\ Declines("UPCDiElectron")
        \/ \E n : Turn("UPCDiElectron") /\ Fills("UPCDiElectron", 0..(n - 1))
    BY <1>11 DEF DecideUPCDiElectron
  <2>2. \A n : \A x \in 0..(n - 1) : x \in Entries("UPCDiElectron")
    BY DEF Entries
  <2> QED
    BY <1>2, <1>3, <2>1, <2>2
<1>12. CASE DecideUPCPair
  <2> DEFINE a == "UPCPair"
             long == {i \in Tracks : Prim(i) /\ T(i).nHits >= Default}
             pions == {i \in long : CellOf(i) /\ "Pion" \in T(i).pid}
             Partners(i) == {j \in long : <<i, j>> \in event.inMass[a]}
             First(S) == CHOOSE i \in S : \A j \in S : i <= j
             good == /\ event.vz < 100 /\ event.vz > -100 /\ event.vr < 2
                     /\ NPrimaryTracks < nTracksCut_UPC
             found == IF good THEN {<<i, First(Partners(i))>> : i \in {k \in pions : Partners(k) # {}}}
                      ELSE {}
  <2>0. event \in Content
    BY <1>0, <1>12 DEF DecideUPCPair, Turn
  <2>1. Turn(a) /\ Fills(a, found)
    BY <1>12 DEF DecideUPCPair
  <2>2. ASSUME NEW i, Partners(i) # {} PROVE First(Partners(i)) \in Partners(i)
    <3>1. \E k \in Partners(i) : \A j \in Partners(i) : k <= j
      BY <2>0, <2>2, FirstOfTracks
    <3> QED
      BY <3>1
  <2>3. \A i, j : j \in Partners(i) => j \in Tracks /\ <<i, j>> \in event.inMass[a]
    OBVIOUS
  <2>4. \A i \in pions : i \in Tracks
    OBVIOUS
  <2> HIDE DEF pions, Partners, First, good
  <2>5. \A x \in found : \E i \in pions : x = <<i, First(Partners(i))>> /\ Partners(i) # {}
    OBVIOUS
  <2>6. Entries(a) = event.inMass[a] \cap (Tracks \X Tracks)
    BY DEF Entries
  <2> HIDE DEF found
  <2>7. \A x \in found : x \in Entries(a)
    BY <2>2, <2>3, <2>4, <2>5, <2>6
  <2> QED
    BY <1>2, <2>1, <2>7
<1>13. CASE DecideMTDQuarkonium
  <2> DEFINE a == "MTDQuarkonium"
             muons == {h \in MuonHits : LET i == trackId[h] IN
                         Long(a, i) /\ T(i).p >= 1 /\ T(i).distance[h] <= 4}
             Good(i, j) ==
               LET lead == Higher(T(i).p, T(j).p)
               IN lead >= 3 \/ (lead = 2 /\ {<<i, j>>, <<j, i>>} \cap event.inMass[a] # {})
             LeadingFirst(i, j) == IF T(i).p > T(j).p THEN <<i, j>> ELSE <<j, i>>
             found == {LeadingFirst(trackId[hg[1]], trackId[hg[2]]) :
                         hg \in {x \in muons \X muons : x[1] < x[2] /\ Good(trackId[x[1]], trackId[x[2]])}}
  <2>1. CASE event.mtd
    <3>1. Turn(a) /\ Fills(a, found)
      BY <1>13, <2>1 DEF DecideMTDQuarkonium
    <3>2. \A x \in found : \E h, g \in MuonHits : x = <<trackId[h], trackId[g]>>
      OBVIOUS
    <3>3. \A x \in found : x \in Entries(a)
      BY <3>2 DEF Entries
    <3> HIDE DEF found
    <3> QED
      BY <1>2, <3>1, <3>3
  <2>2. CASE ~event.mtd
    <3>1. Turn(a) /\ bank' = [bank EXCEPT ![a] = {}]
      BY <1>13, <2>2 DEF DecideMTDQuarkonium
    <3> QED
      BY <1>0, <1>1, <3>1, FillsOwn
  <2> QED
    BY <2>1, <2>2
<1>14. ASSUME NEW a \in Algorithm, DecideDiElectron(a) PROVE Own'
  <2>1. /\ Turn(a) /\ Fills(a, {Pair(a, ij[1], ij[2]) : ij \in PairsOf(a)})
        /\ a \in {"DiElectron", "DiElectron2Twr"}
    BY <1>14 DEF DecideDiElectron
  <2>2. Entries(a) = PairsIn(a)
    BY <2>1 DEF Entries
  <2> QED
    BY <1>2, <2>1, <2>2, PairIsIn
<1>15. ASSUME NEW a \in Algorithm, DecideGlobal(a) \/ Disabled(a) PROVE Own'
  BY <1>1, <1>3, <1>15, QuietOwn DEF DecideGlobal, Disabled
<1> QED
  BY <1>4, <1>5, <1>6, <1>7, <1>8, <1>9, <1>10, <1>11, <1>12, <1>13, <1>14, <1>15 DEF Next, Decide

(* The tracks of an event are numbered from 1.                             *)
LEMMA TracksNumbered ==
  ASSUME event \in Content
  PROVE  \E n \in Nat : Tracks = 1..n
<1>1. IsFiniteSet(Tracks) /\ Tracks = 1..Cardinality(Tracks)
  BY DeciderAssumption DEF IsContent, Tracks
<1> QED
  BY <1>1, FS_CardinalityType

(* A set of tracks has a last one, and a set of pairs of tracks too.       *)
LEMMA LastOfTracks ==
  ASSUME event \in Content, NEW S \in SUBSET Tracks, S # {}
  PROVE  \E i \in S : \A j \in S : j <= i
<1>1. PICK n \in Nat : Tracks = 1..n
  BY TracksNumbered
<1> DEFINE R == {n - i : i \in S}
<1>2. R \in SUBSET Nat /\ R # {}
  BY <1>1
<1>3. PICK k \in R : \A m \in R : k <= m
  BY <1>2, LeastNumber
<1>4. PICK i \in S : k = n - i
  BY <1>3
<1>5. \A j \in S : n - i <= n - j
  BY <1>3, <1>4
<1> HIDE DEF R
<1> QED
  BY <1>1, <1>4, <1>5

LEMMA LastPair ==
  ASSUME event \in Content, NEW P \in SUBSET (Tracks \X Tracks), P # {}
  PROVE  \E x \in P : \A y \in P : y[1] < x[1] \/ (y[1] = x[1] /\ y[2] <= x[2])
<1> DEFINE F == {x[1] : x \in P}
<1>1. F \in SUBSET Tracks /\ F # {}
  OBVIOUS
<1>2. PICK i \in F : \A j \in F : j <= i
  BY <1>1, LastOfTracks
<1> DEFINE G == {x[2] : x \in {y \in P : y[1] = i}}
<1>3. G \in SUBSET Tracks /\ G # {}
  BY <1>2
<1>4. PICK k \in G : \A j \in G : j <= k
  BY <1>3, LastOfTracks
<1>5. PICK x \in P : x[1] = i /\ x[2] = k
  BY <1>4
<1>6. PICK n \in Nat : Tracks = 1..n
  BY TracksNumbered
<1>7. \A y \in P : y[1] \in Int /\ y[1] <= i /\ (y[1] = i => y[2] <= k)
  BY <1>2, <1>4, <1>6
<1>8. i \in Int
  BY <1>1, <1>6
<1> QED
  BY <1>5, <1>7, <1>8

(* UPCDiElectron leaves a pair of the event at the place it writes.        *)
LEMMA UPCWrites ==
  ASSUME IInv, event \in Content, DecideUPCDiElectron
  PROVE  UPCPairKept'
<1> DEFINE u == "UPCDiElectron"
           ps == PairsOf(u)
           last == CHOOSE x \in ps : \A y \in ps : y[1] < x[1] \/ (y[1] = x[1] /\ y[2] <= x[2])
           at == Cardinality(bank["DiElectron"])
<1>1. bank = [b \in Banked |-> bank[b]] /\ {u, "DiElectron"} \subseteq Banked
  BY DEF IInv, Once, Banked, DiElectrons
<1>2. UNCHANGED event
  BY DEF DecideUPCDiElectron, Turn, input
<1>3. PairsIn(u)' = PairsIn(u)
  BY <1>2 DEF PairsIn, PairType, Tracks, Method
<1>4. CASE Declines(u)
  <2>1. bank'[u] = {}
    BY <1>1, <1>4 DEF Declines
  <2> QED
    BY <2>1 DEF UPCPairKept
<1>5. CASE ps = {} /\ Fills(u, 0..(Cardinality(ps) - 1))
  <2>1. 0..(Cardinality(ps) - 1) = {}
    BY <1>5, FS_EmptySet
  <2>2. bank'[u] = {}
    BY <1>1, <1>5, <2>1 DEF Fills
  <2> QED
    BY <2>2 DEF UPCPairKept
<1>6. CASE ps # {} /\ Fills(u, 0..(Cardinality(ps) - 1))
             /\ ePair' = [k \in DOMAIN ePair \cup {at} |-> IF k = at THEN Pair(u, last[1], last[2]) ELSE ePair[k]]
  <2>1. ps \in SUBSET (Tracks \X Tracks)
    BY DEF PairsOf
  <2>2. last \in ps
    BY <1>6, <2>1, LastPair
  <2>3. Pair(u, last[1], last[2]) \in PairsIn(u)
    BY <2>2, PairIsIn
  <2>4. bank'["DiElectron"] = bank["DiElectron"]
    BY <1>1, <1>6 DEF Fills
  <2> HIDE DEF last
  <2>5. ePair'[at] = Pair(u, last[1], last[2])
    BY <1>6
  <2> QED
    BY <1>3, <2>3, <2>4, <2>5 DEF UPCPairKept
<1>7. \/ Declines(u)
      \/ /\ Fills(u, 0..(Cardinality(ps) - 1))
         /\ ps # {} => ePair' = [k \in DOMAIN ePair \cup {at} |->
                                   IF k = at THEN Pair(u, last[1], last[2]) ELSE ePair[k]]
  BY DEF DecideUPCDiElectron
<1> HIDE DEF ps, last, at
<1> QED
  BY <1>4, <1>5, <1>6, <1>7

(* When it is the turn of DiElectron, UPCDiElectron has found nothing yet. *)
LEMMA UPCIsLater ==
  ASSUME IInv, Turn("DiElectron")
  PROVE  bank["UPCDiElectron"] = {}
<1>1. Name[3] = "DiElectron" /\ Name[11] = "UPCDiElectron"
  BY DEF Name
<1>2. algo = 3
  BY <1>1, NamesDiffer DEF Turn, IInv, Once, MaxNHLTTriggers
<1>3. "UPCDiElectron" \notin hltDecision
  <2>1. ASSUME NEW n \in 1..MaxNHLTTriggers, n < algo, Name[n] = "UPCDiElectron" PROVE FALSE
    BY <1>1, <1>2, <2>1, NamesDiffer DEF MaxNHLTTriggers
  <2> QED
    BY <2>1 DEF IInv, Once
<1> QED
  BY <1>3 DEF IInv, BankIfAccepted, Banked, DiElectrons

(* Nothing else undoes it as long as the event lasts.                      *)
LEMMA StepUPC == MInv /\ UPCPairKept /\ [Next]_vars => UPCPairKept'
<1> SUFFICES ASSUME MInv, UPCPairKept, [Next]_vars PROVE UPCPairKept'
  OBVIOUS
<1> DEFINE u == "UPCDiElectron"
<1>0. IInv /\ (phase = "deciding" => event \in Content)
  BY DEF MInv, Sane
<1>1. bank = [b \in Banked |-> bank[b]] /\ {u, "DiElectron"} \subseteq Banked
  BY <1>0 DEF IInv, Once, Banked, DiElectrons
<1>2. ASSUME NEW a, Turn(a) PROVE UNCHANGED event
  BY <1>2 DEF Turn, input
<1>3. ASSUME UNCHANGED <<event, ePair>>, bank'[u] = bank[u], bank'["DiElectron"] = bank["DiElectron"]
      PROVE  UPCPairKept'
  <2>1. PairsIn(u)' = PairsIn(u)
    BY <1>3 DEF PairsIn, PairType, Tracks, Method
  <2> QED
    BY <1>3, <2>1 DEF UPCPairKept
<1>4. ASSUME bank'[u] = {} PROVE UPCPairKept'
  BY <1>4 DEF UPCPairKept
<1>5. ASSUME NEW a, NEW found, a \notin {u, "DiElectron"}, Turn(a), bank' = [bank EXCEPT ![a] = found],
             UNCHANGED ePair
      PROVE  UPCPairKept'
  BY <1>1, <1>2, <1>3, <1>5
<1>6. ASSUME NEW found, Turn("DiElectron"), bank' = [bank EXCEPT !["DiElectron"] = found] PROVE UPCPairKept'
  <2>1. bank'[u] = bank[u]
    BY <1>1, <1>6
  <2> QED
    BY <1>0, <1>4, <1>6, <2>1, UPCIsLater
<1>7. ASSUME NEW a, Turn(a), Declines(a) PROVE UPCPairKept'
  <2>1. CASE a \notin Banked
    BY <1>2, <1>3, <1>7, <2>1 DEF Declines
  <2>2. CASE a = u
    BY <1>1, <1>4, <1>7, <2>2 DEF Declines
  <2>3. CASE a = "DiElectron"
    BY <1>1, <1>6, <1>7, <2>3 DEF Declines
  <2>4. CASE a \in Banked \ {u, "DiElectron"}
    BY <1>5, <1>7, <2>4 DEF Declines
  <2> QED
    BY <2>1, <2>2, <2>3, <2>4
<1>8. CASE UNCHANGED vars \/ SetTriggersFromRunControl \/ Skip \/ Crash \/ FillBlobs
  BY <1>3, <1>8 DEF vars, input, SetTriggersFromRunControl, Skip, Crash, FillBlobs
<1>9. ASSUME NEW e \in Content, NEW m \in Menu, EventStart(e, m) PROVE UPCPairKept'
  BY <1>1, <1>4, <1>9 DEF EventStart, ResetBanks, NoBanks
<1>10. CASE AcceptNoHLT \/ DecideRandomEvents \/ DecideDiV0 \/ DecideMTDDiMuon
  BY <1>2, <1>3, <1>10 DEF AcceptNoHLT, DecideRandomEvents, DecideDiV0, DecideMTDDiMuon
<1>11. CASE DecideHighPt \/ DecideHeavyFragment \/ DecideMatchedHT2 \/ DecideLowMult \/ DecideUPCPair
  BY <1>5, <1>11 DEF DecideHighPt, DecideHeavyFragment, DecideMatchedHT2, DecideLowMult, DecideUPCPair, Fills
<1>12. CASE DecideUPCDiElectron
  BY <1>0, <1>12, UPCWrites DEF DecideUPCDiElectron, Turn
<1>13. CASE DecideMTDQuarkonium
  BY <1>5, <1>13 DEF DecideMTDQuarkonium, Fills
<1>14. ASSUME NEW a \in Algorithm, DecideDiElectron(a) PROVE UPCPairKept'
  BY <1>5, <1>6, <1>14 DEF DecideDiElectron, Fills
<1>15. ASSUME NEW a \in Algorithm, DecideGlobal(a) \/ Disabled(a) PROVE UPCPairKept'
  <2>1. CASE DecideGlobal(a)
    BY <1>2, <1>3, <2>1 DEF DecideGlobal
  <2>2. CASE Disabled(a)
    BY <1>7, <2>2 DEF Disabled
  <2> QED
    BY <1>15, <2>1, <2>2
<1> QED
  BY <1>8, <1>9, <1>10, <1>11, <1>12, <1>13, <1>14, <1>15 DEF Next, Decide

(* With every event goes what its algorithms found in it, and nothing of   *)
(* another event: a bank holds something if and only if its algorithm      *)
(* accepted the event, and every entry is of tracks, pairs and hits of the *)
(* event (resetEvent and the algorithms); of UPCDiElectron the one that it *)
(* writes, whatever number it counts.                                      *)
THEOREM BanksOfTheEvent == Spec => []OwnBanks
<1>1. Init => MInv /\ Own /\ UPCPairKept
  BY InitMuons DEF Init, Own, NoBanks, UPCPairKept, Banked, DiElectrons
<1>2. MInv /\ Own /\ UPCPairKept /\ [Next]_vars => (MInv /\ Own /\ UPCPairKept)'
  BY StepMuons, StepOwns, StepUPC
<1>3. MInv /\ Own /\ UPCPairKept => OwnBanks
  BY DEF MInv, IInv, Own, OwnBanks
<1> QED
  BY <1>1, <1>2, <1>3, PTL DEF Spec

------------------------------------------------------------------------------
(* The cuts are those that the triggers read so far ask for, and an event  *)
(* is decided on when all are read.                                        *)
Requested(a) == {i \in DOMAIN setup : i < index /\ setup[i].algo = a}

Cuts ==
  /\ setup \in Setup /\ index \in Nat \ {0}
  /\ phase # "config" => index \notin DOMAIN setup
  /\ \A i \in 1..index - 1 : i \in DOMAIN setup
  /\ cut \in [Algorithm -> 1..Higher(Default, MaxCut)]
  /\ \A a \in Algorithm :
       IF a \notin WithCut \/ Requested(a) = {} THEN cut[a] = Default
       ELSE \E i \in Requested(a) : cut[a] = setup[i].cut /\ \A j \in Requested(a) : j <= i

LEMMA SetupIsSequence ==
  ASSUME NEW s \in Setup
  PROVE  \E n \in Nat : DOMAIN s = 1..n /\ \A i \in 1..n : s[i] \in Request
<1>1. /\ IsFiniteSet(DOMAIN s) /\ DOMAIN s = 1..Cardinality(DOMAIN s)
      /\ \A i \in DOMAIN s : s[i] \in Request
  BY DeciderAssumption
<1>2. Cardinality(DOMAIN s) \in Nat
  BY <1>1, FS_CardinalityType
<1> QED
  BY <1>1, <1>2

(* A request read in its turn becomes the last one of its algorithm.       *)
LEMMA RequestRead ==
  ASSUME Cuts, SetTriggersFromRunControl
  PROVE  Cuts'
<1>1. /\ UNCHANGED <<setup, phase>> /\ phase = "config" /\ index' = index + 1
      /\ index \in DOMAIN setup
  BY DEF SetTriggersFromRunControl
<1> DEFINE r == setup[index]
<1>2. PICK n \in Nat : DOMAIN setup = 1..n /\ \A i \in 1..n : setup[i] \in Request
  BY SetupIsSequence DEF Cuts
<1>3. r \in Request /\ index \in 1..n
  BY <1>1, <1>2
<1>4. r.algo \in Algorithm /\ r.cut \in 1..MaxCut /\ r.cut \in 1..Higher(Default, MaxCut)
  BY <1>3, DeciderAssumption DEF Request, Higher, Default
<1>5. cut' = IF r.algo \in WithCut THEN [cut EXCEPT ![r.algo] = r.cut] ELSE cut
  BY DEF SetTriggersFromRunControl
<1>6. cut' \in [Algorithm -> 1..Higher(Default, MaxCut)]
  BY <1>4, <1>5 DEF Cuts
<1>7. \A i \in 1..index' - 1 : i \in DOMAIN setup'
  BY <1>1, <1>2, <1>3 DEF Cuts
<1>8. \A a : Requested(a)' = IF a = r.algo THEN Requested(a) \cup {index} ELSE Requested(a)
  BY <1>1, <1>2, <1>3 DEF Requested
<1>9. ASSUME NEW a \in Algorithm
      PROVE  IF a \notin WithCut \/ Requested(a)' = {} THEN cut'[a] = Default
             ELSE \E i \in Requested(a)' : cut'[a] = setup'[i].cut /\ \A j \in Requested(a)' : j <= i
  <2>1. CASE a = r.algo /\ a \in WithCut
    <3>1. cut'[a] = setup'[index].cut
      BY <1>1, <1>5, <2>1 DEF Cuts
    <3>2. index \in Requested(a)' /\ \A j \in Requested(a)' : j <= index
      BY <1>1, <1>2, <1>3, <1>8, <2>1 DEF Requested
    <3> QED
      BY <2>1, <3>1, <3>2
  <2>2. CASE a # r.algo
    BY <1>1, <1>5, <1>8, <2>2 DEF Cuts
  <2>3. CASE a \notin WithCut
    BY <1>5, <2>3 DEF Cuts
  <2> QED
    BY <2>1, <2>2, <2>3
<1> QED
  BY <1>1, <1>6, <1>7, <1>9 DEF Cuts

LEMMA CutsKept ==
  ASSUME Cuts, UNCHANGED config, phase = "config" => phase' = "config" \/ index \notin DOMAIN setup
  PROVE  Cuts'
BY DEF Cuts, config, Requested

(* So the cuts of an event are the ones asked for.                         *)
LEMMA CutIsAsked ==
  ASSUME Cuts, index \notin DOMAIN setup, NEW a \in Algorithm
  PROVE  cut[a] = Asked(a)
<1>1. PICK n \in Nat : DOMAIN setup = 1..n
  BY SetupIsSequence DEF Cuts
<1> DEFINE mine == {i \in DOMAIN setup : setup[i].algo = a}
<1>2. Requested(a) = mine
  <2>1. \A i \in 1..n : i < index
    BY <1>1 DEF Cuts
  <2> QED
    BY <1>1, <2>1 DEF Requested
<1>3. CASE a \notin WithCut \/ mine = {}
  BY <1>2, <1>3 DEF Cuts, Asked
<1>4. CASE ~(a \notin WithCut \/ mine = {})
  <2>1. PICK i \in mine : cut[a] = setup[i].cut /\ \A j \in mine : j <= i
    BY <1>2, <1>4 DEF Cuts
  <2>2. (CHOOSE k \in mine : \A j \in mine : j <= k) = i
    BY <1>1, <2>1
  <2> QED
    BY <1>4, <2>1, <2>2 DEF Asked
<1> QED
  BY <1>3, <1>4
------------------------------------------------------------------------------
(* The nodes.  A node has a cell only if the primary track points at one,  *)
(* whoever matched it, and what it has it keeps as long as the event is    *)
(* decided on.                                                             *)
Nodes ==
  /\ event \in Content \cup {NoEvent}
  /\ node \in [Tracks -> [cell : BOOLEAN, tower : Tower \cup {0}]]
  /\ \A i \in Tracks : node[i].cell => Prim(i) /\ T(i).cell

NodesGrow ==
  /\ node' \in [Tracks -> [cell : BOOLEAN, tower : Tower \cup {0}]]
  /\ \A i \in Tracks : /\ node[i].cell => node'[i].cell
                       /\ node'[i].cell => CellOf(i)

LEMMA TrackIsSane ==
  ASSUME event \in Content, NEW i \in Tracks
  PROVE  /\ T(i) \in Track
         /\ event.energy \in [Tower -> Int]
BY DeciderAssumption DEF IsContent, Tracks, T

(* The same for the attributes of the track.                               *)
LEMMA TrackHas ==
  ASSUME event \in Content, NEW i \in Tracks
  PROVE  /\ T(i).near \in BOOLEAN /\ T(i).fitted \in BOOLEAN /\ T(i).cell \in BOOLEAN
         /\ T(i).light \in BOOLEAN /\ T(i).nHits \in Nat /\ T(i).p \in Nat
         /\ T(i).window \subseteq Method /\ T(i).towers \subseteq Tower
         /\ T(i).gtowers \subseteq Tower
BY TrackIsSane DEF Track

LEMMA NoTracks ==
  ASSUME event \in Content \cup {NoEvent}, event \notin Content
  PROVE  Tracks = {}
BY DEF NoEvent, Tracks

(* A set of numbers up to a limit has, for any energies, a best element:   *)
(* by induction on the limit.                                              *)
LEMMA HighestIsOne ==
  ASSUME NEW n \in Nat, NEW S \in SUBSET (1..n), S # {}, NEW e, \A w \in S : e[w] \in Int
  PROVE  \E w \in S : \A v \in S : e[v] < e[w] \/ (e[v] = e[w] /\ v <= w)
<1> DEFINE HasBest(R) == \E w \in R : \A v \in R : e[v] < e[w] \/ (e[v] = e[w] /\ v <= w)
           Up(k) == {w \in S : w <= k}
           bad == {k \in Nat : Up(k) # {} /\ ~HasBest(Up(k))}
<1>0. \A w \in S : w \in Nat /\ 1 <= w /\ w <= n
  OBVIOUS
<1>1. ASSUME bad # {} PROVE FALSE
  <2>1. PICK k \in bad : \A j \in bad : k <= j
    BY <1>1, LeastNumber
  <2>2. k \in Nat /\ k # 0
    <3>1. k \in Nat /\ \E w \in S : w <= k
      OBVIOUS
    <3> HIDE DEF bad
    <3> QED
      BY <1>0, <3>1
  <2>3. k - 1 \in Nat /\ k - 1 \notin bad
    BY <2>1, <2>2
  <2>4. Up(k) = IF k \in S THEN Up(k - 1) \cup {k} ELSE Up(k - 1)
    <3>1. \A w \in S : w <= k <=> w <= k - 1 \/ w = k
      BY <1>0, <2>2
    <3> QED
      BY <3>1
  <2>5. k \in S
    BY <2>1, <2>3, <2>4
  <2>6. CASE Up(k - 1) = {}
    <3>1. Up(k) = {k}
      BY <2>4, <2>5, <2>6
    <3>2. HasBest(Up(k))
      BY <3>1
    <3> QED
      BY <2>1, <3>2
  <2>7. CASE Up(k - 1) # {}
    <3>1. PICK w \in Up(k - 1) : \A v \in Up(k - 1) : e[v] < e[w] \/ (e[v] = e[w] /\ v <= w)
      BY <2>3, <2>7
    <3>2. CASE e[k] < e[w]
      <4>1. HasBest(Up(k))
        BY <2>4, <2>5, <3>1, <3>2
      <4> QED
        BY <2>1, <4>1
    <3>3. CASE ~(e[k] < e[w])
      <4>1. \A v \in Up(k - 1) : v \in S /\ v \in Nat /\ v <= k /\ e[v] \in Int
        BY <2>2
      <4>2. e[k] \in Int /\ e[w] \in Int
        BY <2>5
      <4>3. \A v \in Up(k - 1) : e[v] < e[k] \/ (e[v] = e[k] /\ v <= k)
        BY <3>1, <3>3, <4>1, <4>2
      <4>4. HasBest(Up(k))
        BY <2>2, <2>4, <2>5, <4>3
      <4> QED
        BY <2>1, <4>4
    <3> QED
      BY <3>2, <3>3
  <2> QED
    BY <2>6, <2>7
<1>2. Up(n) = S
  BY <1>0
<1> QED
  BY <1>1, <1>2

(* The tower that Best takes is one of those it is given, or the old one.  *)
LEMMA BestIsTower ==
  ASSUME event \in Content, Tracks # {}, NEW ts \in SUBSET Tower, NEW old \in Tower \cup {0}
  PROVE  Best(ts, old) \in Tower \cup {0}
<1> DEFINE lit == {w \in ts : event.energy[w] >= 0}
<1>1. event.energy \in [Tower -> Int] /\ NTower \in Nat
  BY TrackIsSane, DeciderAssumption
<1>2. CASE lit = {}
  <2>1. Best(ts, old) = old
    BY <1>2 DEF Best
  <2> QED
    BY <2>1
<1>3. CASE lit # {}
  <2>1. lit \in SUBSET (1..NTower) /\ \A w \in lit : event.energy[w] \in Int
    BY <1>1 DEF Tower
  <2>2. \E w \in lit : \A v \in lit :
          event.energy[v] < event.energy[w] \/ (event.energy[v] = event.energy[w] /\ v <= w)
    BY <1>1, <1>3, <2>1, HighestIsOne
  <2>3. Best(ts, old) = CHOOSE w \in lit : \A v \in lit :
          event.energy[v] < event.energy[w] \/ (event.energy[v] = event.energy[w] /\ v <= w)
    BY <1>3 DEF Best
  <2>4. Best(ts, old) \in lit
    BY <2>2, <2>3
  <2> QED
    BY <1>1, <2>1, <2>4 DEF Tower
<1> QED
  BY <1>2, <1>3

LEMMA QuietGrows ==
  ASSUME Nodes, UNCHANGED node
  PROVE  NodesGrow
BY DEF Nodes, NodesGrow, CellOf

(* What an algorithm makes of a node: the cell of the primary track and a  *)
(* tower of those it looks at, each if it looks.                           *)
LEMMA MatchedGrows ==
  ASSUME Nodes, event \in Content,
         \E S \in SUBSET Tracks, U \in SUBSET Tracks, ts \in [Tracks -> SUBSET Tower] :
           node' = [i \in Tracks |->
                      [cell  |-> IF i \in S THEN CellOf(i) ELSE node[i].cell,
                       tower |-> IF i \in U THEN Best(ts[i], node[i].tower) ELSE node[i].tower]]
  PROVE  NodesGrow
<1>1. PICK S \in SUBSET Tracks, U \in SUBSET Tracks, ts \in [Tracks -> SUBSET Tower] :
        node' = [i \in Tracks |->
                   [cell  |-> IF i \in S THEN CellOf(i) ELSE node[i].cell,
                    tower |-> IF i \in U THEN Best(ts[i], node[i].tower) ELSE node[i].tower]]
  OBVIOUS
<1>2. ASSUME NEW i \in Tracks
      PROVE  /\ node[i].cell \in BOOLEAN /\ node[i].tower \in Tower \cup {0}
             /\ CellOf(i) \in BOOLEAN
             /\ Best(ts[i], node[i].tower) \in Tower \cup {0}
  <2>1. node[i].cell \in BOOLEAN /\ node[i].tower \in Tower \cup {0}
    BY DEF Nodes
  <2>2. ts[i] \in SUBSET Tower
    OBVIOUS
  <2> QED
    BY <2>1, <2>2, BestIsTower DEF CellOf
<1>3. node' \in [Tracks -> [cell : BOOLEAN, tower : Tower \cup {0}]]
  BY <1>1, <1>2
<1>4. ASSUME NEW i \in Tracks
      PROVE  /\ node[i].cell => node'[i].cell
             /\ node'[i].cell => CellOf(i)
  <2>1. /\ node'[i].cell = IF i \in S THEN CellOf(i) ELSE node[i].cell
        /\ node'[i].tower = IF i \in U THEN Best(ts[i], node[i].tower) ELSE node[i].tower
    BY <1>1
  <2> QED
    BY <1>2, <2>1 DEF CellOf
<1> QED
  BY <1>3, <1>4 DEF NodesGrow

LEMMA NodeIsRecord ==
  ASSUME Nodes, NEW i \in Tracks
  PROVE  /\ node[i] = [cell |-> node[i].cell, tower |-> node[i].tower]
         /\ \A c : [node[i] EXCEPT !.cell = c] = [cell |-> c, tower |-> node[i].tower]
BY DEF Nodes

LEMMA HighPtGrows ==
  ASSUME Nodes, event \in Content, DecideHighPt
  PROVE  NodesGrow
<1> DEFINE found == {i \in Tracks : Prim(i) /\ Long("HighPt", i) /\ T(i).p >= 5}
           ts == [i \in Tracks |-> T(i).towers]
<1>1. node' = [i \in Tracks |->
                 IF i \in found THEN [cell |-> CellOf(i), tower |-> Best(T(i).towers, node[i].tower)]
                 ELSE node[i]]
  BY DEF DecideHighPt
<1>2. ts \in [Tracks -> SUBSET Tower]
  BY TrackHas
<1>3. node' = [i \in Tracks |->
                 [cell  |-> IF i \in found THEN CellOf(i) ELSE node[i].cell,
                  tower |-> IF i \in found THEN Best(ts[i], node[i].tower) ELSE node[i].tower]]
  <2> HIDE DEF found
  <2> QED
    BY <1>1, NodeIsRecord
<1>4. found \in SUBSET Tracks
  OBVIOUS
<1> QED
  BY <1>2, <1>3, <1>4, MatchedGrows

LEMMA HeavyGrows ==
  ASSUME Nodes, event \in Content, DecideHeavyFragment
  PROVE  NodesGrow
<1> DEFINE found == {i \in Tracks : IsHeavy(i)}
           timed == {i \in Tracks : HeavyDedx(i, "He3") \/ HeavyDedx(i, "Triton")}
           ts == [i \in Tracks |-> T(i).gtowers]
<1>1. node' = [i \in Tracks |->
          [cell  |-> IF HeavyDedx(i, "He3") \/ HeavyDedx(i, "Triton") THEN CellOf(i) ELSE node[i].cell,
           tower |-> IF IsHeavy(i) THEN Best(T(i).gtowers, node[i].tower) ELSE node[i].tower]]
  BY DEF DecideHeavyFragment, HeavyTower
<1>2. ts \in [Tracks -> SUBSET Tower]
  BY TrackHas
<1>3. found \in SUBSET Tracks /\ timed \in SUBSET Tracks
  OBVIOUS
<1>4. node' = [i \in Tracks |->
                 [cell  |-> IF i \in timed THEN CellOf(i) ELSE node[i].cell,
                  tower |-> IF i \in found THEN Best(ts[i], node[i].tower) ELSE node[i].tower]]
  <2>1. \A i \in Tracks : i \in timed <=> HeavyDedx(i, "He3") \/ HeavyDedx(i, "Triton")
    OBVIOUS
  <2>2. \A i \in Tracks : i \in found <=> IsHeavy(i)
    OBVIOUS
  <2> HIDE DEF found, timed
  <2> QED
    BY <1>1, <2>1, <2>2
<1> HIDE DEF found, timed, ts
<1> QED
  BY <1>2, <1>3, <1>4, MatchedGrows

LEMMA PionsGrow ==
  ASSUME Nodes, event \in Content, DecideUPCPair
  PROVE  NodesGrow
<1>1. PICK S \in SUBSET Tracks :
        node' = [i \in Tracks |-> IF i \in S THEN [node[i] EXCEPT !.cell = CellOf(i)] ELSE node[i]]
  <2> DEFINE long == {i \in Tracks : Prim(i) /\ T(i).nHits >= Default}
             good == /\ event.vz < 100 /\ event.vz > -100 /\ event.vr < 2
                     /\ NPrimaryTracks < nTracksCut_UPC
             S == IF good THEN long ELSE {}
  <2>1. node' = [i \in Tracks |-> IF good /\ i \in long THEN [node[i] EXCEPT !.cell = CellOf(i)]
                                  ELSE node[i]]
    BY DEF DecideUPCPair
  <2>2. S \in SUBSET Tracks /\ \A i : i \in S <=> good /\ i \in long
    OBVIOUS
  <2> HIDE DEF S, good, long
  <2>3. node' = [i \in Tracks |-> IF i \in S THEN [node[i] EXCEPT !.cell = CellOf(i)] ELSE node[i]]
    BY <2>1, <2>2
  <2> QED
    BY <2>2, <2>3
<1> DEFINE ts == [i \in Tracks |-> {}]
<1>2. ts \in [Tracks -> SUBSET Tower]
  OBVIOUS
<1>3. {} \in SUBSET Tracks
  OBVIOUS
<1>4. node' = [i \in Tracks |->
                 [cell  |-> IF i \in S THEN CellOf(i) ELSE node[i].cell,
                  tower |-> IF i \in {} THEN Best(ts[i], node[i].tower) ELSE node[i].tower]]
  BY <1>1, NodeIsRecord
<1> HIDE DEF ts
<1> QED
  BY <1>2, <1>3, <1>4, MatchedGrows

LEMMA MatchGrows ==
  ASSUME Nodes, event \in Content, NEW a, node' = Match(a)
  PROVE  NodesGrow
<1> DEFINE S == {i \in Tracks : TriesTof(a, i)}
           U == {i \in Tracks : TriesEmc(a, i)}
           ts == [i \in Tracks |-> LitTowers(i)]
<1>1. ts \in [Tracks -> SUBSET Tower]
  BY TrackHas DEF LitTowers
<1>2. S \in SUBSET Tracks /\ U \in SUBSET Tracks
  OBVIOUS
<1>3. node' = [i \in Tracks |->
                 [cell  |-> IF i \in S THEN CellOf(i) ELSE node[i].cell,
                  tower |-> IF i \in U THEN Best(ts[i], node[i].tower) ELSE node[i].tower]]
  BY DEF Match
<1> HIDE DEF S, U, ts
<1> QED
  BY <1>1, <1>2, <1>3, MatchedGrows

------------------------------------------------------------------------------
(* The towers.  Whoever matches a primary track that points at a tower     *)
(* with energy finds the same one; only HeavyFragment looks at the global  *)
(* track.                                                                  *)
TowersKept ==
  \A i \in Tracks : LitTowers(i) # {} => node'[i].tower \in {node[i].tower, Judged(i)}

LEMMA BestIsJudged ==
  ASSUME event \in Content, NEW i \in Tracks, LitTowers(i) # {}, NEW old,
         NEW ts, LitTowers(i) \subseteq ts, ts \subseteq T(i).towers
  PROVE  Best(ts, old) = Judged(i)
<1> DEFINE e == event.energy
           IsBest(w, S) == \A v \in S : e[v] < e[w] \/ (e[v] = e[w] /\ v <= w)
           all == {w \in ts : e[w] >= 0}
           lit == {w \in LitTowers(i) : e[w] >= 0}
<1>1. /\ T(i).towers \subseteq Tower /\ NTower \in Nat /\ Tower = 1..NTower
      /\ \A w \in T(i).towers : e[w] \in Int /\ w \in Nat
  BY TrackHas, TrackIsSane, DeciderAssumption DEF Tower
<1>2. /\ LitTowers(i) \subseteq T(i).towers
      /\ \A w \in T(i).towers : w \in LitTowers(i) <=> e[w] >= 1
  BY DEF LitTowers
<1>3. lit = LitTowers(i) /\ lit \subseteq all /\ all \subseteq T(i).towers
  BY <1>1, <1>2
<1> HIDE DEF lit, all
<1>4. PICK w \in all : IsBest(w, all)
  BY <1>1, <1>3, HighestIsOne
<1>5. PICK v \in lit : IsBest(v, lit)
  BY <1>1, <1>3, HighestIsOne
<1>6. ASSUME NEW x \in all, IsBest(x, all), NEW y \in lit, IsBest(y, lit) PROVE x = y
  <2>1. x \in T(i).towers /\ y \in T(i).towers /\ e[y] >= 1 /\ y \in all
    BY <1>2, <1>3
  <2>2. e[x] \in Int /\ e[y] \in Int /\ x \in Nat /\ y \in Nat
    BY <1>1, <2>1
  <2>3. e[y] < e[x] \/ (e[y] = e[x] /\ y <= x)
    BY <1>6, <2>1
  <2>4. x \in lit
    BY <1>2, <1>3, <2>1, <2>2, <2>3
  <2>5. e[x] < e[y] \/ (e[x] = e[y] /\ x <= y)
    BY <1>6, <2>4
  <2> QED
    BY <2>2, <2>3, <2>5
<1>7. Best(ts, old) = CHOOSE x \in all : IsBest(x, all)
  BY <1>4 DEF Best, all
<1>8. Judged(i) = CHOOSE x \in lit : IsBest(x, lit)
  BY <1>5 DEF Judged, Best, lit
<1> QED
  BY <1>4, <1>5, <1>6, <1>7, <1>8

LEMMA MatchTowers ==
  ASSUME Nodes, event \in Content, NEW a, node' = Match(a)
  PROVE  TowersKept
<1>1. ASSUME NEW i \in Tracks, LitTowers(i) # {} PROVE node'[i].tower \in {node[i].tower, Judged(i)}
  <2>1. node'[i].tower = IF TriesEmc(a, i) THEN Best(LitTowers(i), node[i].tower) ELSE node[i].tower
    BY DEF Match
  <2>2. Best(LitTowers(i), node[i].tower) = Judged(i)
    <3>1. LitTowers(i) \subseteq T(i).towers
      BY DEF LitTowers
    <3> QED
      BY <1>1, <3>1, BestIsJudged
  <2> QED
    BY <2>1, <2>2
<1> QED
  BY <1>1 DEF TowersKept

LEMMA HighPtTowers ==
  ASSUME Nodes, event \in Content, DecideHighPt
  PROVE  TowersKept
<1>1. ASSUME NEW i \in Tracks, LitTowers(i) # {} PROVE node'[i].tower \in {node[i].tower, Judged(i)}
  <2>1. node'[i].tower = node[i].tower \/ node'[i].tower = Best(T(i).towers, node[i].tower)
    BY DEF DecideHighPt
  <2>2. Best(T(i).towers, node[i].tower) = Judged(i)
    <3>1. LitTowers(i) \subseteq T(i).towers
      BY DEF LitTowers
    <3> QED
      BY <1>1, <3>1, BestIsJudged
  <2> QED
    BY <2>1, <2>2
<1> QED
  BY <1>1 DEF TowersKept

LEMMA PionTowers ==
  ASSUME Nodes, event \in Content, DecideUPCPair
  PROVE  TowersKept
<1>1. ASSUME NEW i \in Tracks PROVE node'[i].tower = node[i].tower
  <2>1. node'[i] = node[i] \/ node'[i] = [node[i] EXCEPT !.cell = CellOf(i)]
    BY DEF DecideUPCPair
  <2> QED
    BY <2>1, NodeIsRecord
<1> QED
  BY <1>1 DEF TowersKept

LEMMA DecideKeepsTowers ==
  ASSUME Nodes, event \in Content, Decide, ~DecideHeavyFragment
  PROVE  TowersKept
<1>1. CASE UNCHANGED node
  BY <1>1 DEF TowersKept
<1>2. CASE DecideUPCDiElectron
  BY <1>1, <1>2, MatchTowers DEF DecideUPCDiElectron, Declines
<1>3. ASSUME NEW a \in Algorithm, DecideDiElectron(a) PROVE TowersKept
  BY <1>3, MatchTowers DEF DecideDiElectron
<1>4. CASE Skip \/ Crash \/ FillBlobs \/ AcceptNoHLT \/ DecideRandomEvents \/ DecideDiV0
  BY <1>1, <1>4 DEF Skip, Crash, FillBlobs, AcceptNoHLT, DecideRandomEvents, DecideDiV0
<1>5. CASE DecideMatchedHT2 \/ DecideLowMult \/ DecideMTDDiMuon \/ DecideMTDQuarkonium
  BY <1>1, <1>5 DEF DecideMatchedHT2, DecideLowMult, DecideMTDDiMuon, DecideMTDQuarkonium
<1>6. ASSUME NEW a \in Algorithm, DecideGlobal(a) \/ Disabled(a) PROVE TowersKept
  BY <1>1, <1>6 DEF DecideGlobal, Disabled, Declines
<1> QED
  BY <1>2, <1>3, <1>4, <1>5, <1>6, HighPtTowers, PionTowers DEF Decide

------------------------------------------------------------------------------
(* What the steps of the decider have in common: they take the algorithms  *)
(* in order, none touches the event or the setup, and each algorithm that  *)
(* is needed returns with or without its bit, or declines.                 *)
Takes(a) ==
  /\ algo \in 1..MaxNHLTTriggers /\ Name[algo] = a /\ algo' = algo + 1
  /\ phase = "deciding" /\ UNCHANGED input
  /\ \/ UNCHANGED <<hltDecision, counts>>
     \/ a \in needed /\ \E triggered : Returns(a, triggered)

Ends ==
  /\ phase = "deciding" /\ phase' \in {"crashed", "filled"}
  /\ UNCHANGED <<config, event, needed, trackId, nEvent, algo, node, hltDecision, bank, ePair, NumOfSucceed>>
  /\ \/ UNCHANGED NumOfCalled
     \/ /\ phase' = "crashed" /\ Name[algo] = "MTDDiMuon" /\ algo <= MaxNHLTTriggers
        /\ NumOfCalled' = [NumOfCalled EXCEPT !["MTDDiMuon"] = @ + 1]

LEMMA DecideTakes ==
  ASSUME algo \in Nat \ {0}, Decide
  PROVE  Ends \/ \E a \in Algorithm : Takes(a)
<1>1. ASSUME NEW a, Turn(a)
      PROVE  /\ algo \in 1..MaxNHLTTriggers /\ Name[algo] = a /\ algo' = algo + 1
             /\ phase = "deciding" /\ UNCHANGED input /\ a \in needed /\ a \in Algorithm
  BY <1>1 DEF Turn, MaxNHLTTriggers, Algorithm
<1>2. ASSUME NEW a, Turn(a), NEW triggered, Returns(a, triggered)
      PROVE  \E b \in Algorithm : Takes(b)
  BY <1>1, <1>2 DEF Takes
<1>3. ASSUME NEW a, Turn(a), NEW found, Fills(a, found)
      PROVE  \E b \in Algorithm : Takes(b)
  BY <1>2, <1>3 DEF Fills
<1>4. ASSUME NEW a, Turn(a), UNCHANGED <<hltDecision, counts>>
      PROVE  \E b \in Algorithm : Takes(b)
  BY <1>1, <1>4 DEF Takes
<1>5. CASE Skip
  <2>1. algo \in 1..MaxNHLTTriggers /\ Name[algo] \in Algorithm
    BY <1>5 DEF Skip, MaxNHLTTriggers, Algorithm
  <2> QED
    BY <1>5, <2>1 DEF Skip, Takes
<1>6. CASE Crash \/ FillBlobs
  BY <1>6 DEF Crash, FillBlobs, Ends, counts
<1>7. CASE AcceptNoHLT
  BY <1>4, <1>7 DEF AcceptNoHLT
<1>8. CASE DecideHighPt
  BY <1>3, <1>8 DEF DecideHighPt
<1>9. CASE DecideHeavyFragment
  BY <1>3, <1>9 DEF DecideHeavyFragment
<1>10. CASE DecideRandomEvents
  <2>1. PICK r \in 0..(cut["RandomEvents"] - 1) : Returns("RandomEvents", r = 0)
    BY <1>10 DEF DecideRandomEvents
  <2> QED
    BY <1>2, <1>10, <2>1 DEF DecideRandomEvents
<1>11. CASE DecideDiV0
  BY <1>2, <1>11 DEF DecideDiV0
<1>12. CASE DecideMatchedHT2
  BY <1>3, <1>12 DEF DecideMatchedHT2
<1>13. CASE DecideLowMult
  BY <1>3, <1>13 DEF DecideLowMult
<1>14. CASE DecideUPCDiElectron
  BY <1>3, <1>4, <1>14 DEF DecideUPCDiElectron, Declines
<1>15. CASE DecideUPCPair
  BY <1>3, <1>15 DEF DecideUPCPair
<1>16. CASE DecideMTDDiMuon
  <2>1. Turn("MTDDiMuon") /\ Returns("MTDDiMuon", Cardinality(MuonHits) >= 2)
    BY <1>16 DEF DecideMTDDiMuon
  <2> QED
    BY <1>2, <2>1
<1>17. CASE DecideMTDQuarkonium
  <2>1. CASE event.mtd
    BY <1>3, <1>17, <2>1 DEF DecideMTDQuarkonium
  <2>2. CASE ~event.mtd
    <3>1. Turn("MTDQuarkonium") /\ Returns("MTDQuarkonium", FALSE)
      BY <1>17, <2>2 DEF DecideMTDQuarkonium, Returns
    <3> QED
      BY <1>2, <3>1
  <2> QED
    BY <2>1, <2>2
<1>18. ASSUME NEW a \in Algorithm, DecideDiElectron(a) PROVE \E b \in Algorithm : Takes(b)
  BY <1>3, <1>18 DEF DecideDiElectron
<1>19. ASSUME NEW a \in Algorithm, DecideGlobal(a) PROVE \E b \in Algorithm : Takes(b)
  BY <1>2, <1>19 DEF DecideGlobal
<1>20. ASSUME NEW a \in Algorithm, Disabled(a) PROVE \E b \in Algorithm : Takes(b)
  BY <1>4, <1>20 DEF Disabled, Declines
<1> QED
  BY <1>5, <1>6, <1>7, <1>8, <1>9, <1>10, <1>11, <1>12, <1>13, <1>14,
     <1>15, <1>16, <1>17, <1>18, <1>19, <1>20 DEF Decide

LEMMA DecideGrows ==
  ASSUME Nodes, event \in Content, Decide
  PROVE  NodesGrow
<1>1. CASE UNCHANGED node
  BY <1>1, QuietGrows
<1>2. CASE DecideUPCDiElectron
  BY <1>1, <1>2, MatchGrows DEF DecideUPCDiElectron, Declines
<1>3. ASSUME NEW a \in Algorithm, DecideDiElectron(a) PROVE NodesGrow
  BY <1>3, MatchGrows DEF DecideDiElectron
<1>4. CASE Skip \/ Crash \/ FillBlobs \/ AcceptNoHLT \/ DecideRandomEvents \/ DecideDiV0
  BY <1>1, <1>4 DEF Skip, Crash, FillBlobs, AcceptNoHLT, DecideRandomEvents, DecideDiV0
<1>5. CASE DecideMatchedHT2 \/ DecideLowMult \/ DecideMTDDiMuon \/ DecideMTDQuarkonium
  BY <1>1, <1>5 DEF DecideMatchedHT2, DecideLowMult, DecideMTDDiMuon, DecideMTDQuarkonium
<1>6. ASSUME NEW a \in Algorithm, DecideGlobal(a) \/ Disabled(a) PROVE NodesGrow
  BY <1>1, <1>6 DEF DecideGlobal, Disabled, Declines
<1> QED
  BY <1>2, <1>3, <1>4, <1>5, <1>6, HighPtGrows, HeavyGrows, PionsGrow DEF Decide

LEMMA GrownNodes ==
  ASSUME Nodes, NodesGrow, UNCHANGED event
  PROVE  Nodes'
BY DEF Nodes, NodesGrow, CellOf, Prim, T, Tracks

------------------------------------------------------------------------------
(* The counters.  An algorithm is called at most once per event, so those  *)
(* whose turn is still to come have not been called for this one.          *)
Counted ==
  /\ phase \in {"config", "deciding", "filled", "crashed"}
  /\ needed \subseteq Algorithm /\ hltDecision \subseteq needed
  /\ algo \in 1..(MaxNHLTTriggers + 1) /\ nEvent \in 0..MaxEvent
  /\ NumOfCalled \in [Algorithm -> Nat] /\ NumOfSucceed \in [Algorithm -> Nat]
  /\ \A a \in Algorithm : NumOfSucceed[a] <= NumOfCalled[a] /\ NumOfCalled[a] <= nEvent
  /\ phase = "deciding" =>
       \A n \in 1..MaxNHLTTriggers : algo <= n => NumOfCalled[Name[n]] < nEvent

LEMMA TakenCounts ==
  ASSUME Counted, NEW a \in Algorithm, Takes(a)
  PROVE  Counted'
<1>1. /\ UNCHANGED <<phase, needed, nEvent>> /\ algo' = algo + 1 /\ phase = "deciding"
      /\ algo \in 1..MaxNHLTTriggers /\ Name[algo] = a
  BY DEF Takes, input, config
<1>2. algo' \in 1..(MaxNHLTTriggers + 1)
  BY <1>1 DEF MaxNHLTTriggers
<1>3. NumOfCalled[a] < nEvent /\ NumOfCalled[a] \in Nat /\ nEvent \in Nat
  BY <1>1 DEF Counted, MaxNHLTTriggers
<1>4. CASE UNCHANGED <<hltDecision, counts>>
  BY <1>1, <1>2, <1>4 DEF Counted, counts, MaxNHLTTriggers
<1>5. ASSUME a \in needed, NEW triggered, Returns(a, triggered) PROVE Counted'
  <2>1. /\ hltDecision' = hltDecision \/ hltDecision' = hltDecision \cup {a}
        /\ NumOfCalled' = [NumOfCalled EXCEPT ![a] = @ + 1]
        /\ \/ NumOfSucceed' = NumOfSucceed
           \/ NumOfSucceed' = [NumOfSucceed EXCEPT ![a] = @ + 1]
    BY <1>5 DEF Returns
  <2>2. hltDecision' \subseteq needed'
    BY <1>1, <1>5, <2>1 DEF Counted
  <2>3. NumOfCalled' \in [Algorithm -> Nat] /\ NumOfSucceed' \in [Algorithm -> Nat]
    BY <2>1 DEF Counted
  <2>4. ASSUME NEW b \in Algorithm
        PROVE  NumOfSucceed'[b] <= NumOfCalled'[b] /\ NumOfCalled'[b] <= nEvent'
    <3>1. CASE b = a
      BY <1>1, <1>3, <2>1, <3>1 DEF Counted
    <3>2. CASE b # a
      BY <1>1, <2>1, <3>2 DEF Counted
    <3> QED
      BY <3>1, <3>2
  <2>5. ASSUME NEW n \in 1..MaxNHLTTriggers, algo' <= n
        PROVE  NumOfCalled'[Name[n]] < nEvent'
    <3>1. algo <= n /\ n # algo
      BY <1>1, <2>5 DEF MaxNHLTTriggers
    <3>2. Name[n] # a /\ Name[n] \in Algorithm
      BY <1>1, <3>1, NamesDiffer DEF Algorithm
    <3>3. NumOfCalled'[Name[n]] = NumOfCalled[Name[n]]
      BY <2>1, <3>2 DEF Counted
    <3> QED
      BY <1>1, <3>1, <3>3 DEF Counted
  <2> QED
    BY <1>1, <1>2, <2>2, <2>3, <2>4, <2>5 DEF Counted
<1> QED
  BY <1>4, <1>5 DEF Takes

LEMMA StartCounts ==
  ASSUME Counted, NEW e \in Content, NEW m \in Menu, EventStart(e, m)
  PROVE  Counted'
<1>1. /\ phase' = "deciding" /\ algo' = 1 /\ needed' = m /\ hltDecision' = {}
      /\ nEvent' = nEvent + 1 /\ nEvent < MaxEvent /\ UNCHANGED counts
  BY DEF EventStart
<1>2. nEvent \in Nat /\ nEvent' \in 0..MaxEvent /\ m \subseteq Algorithm
  BY <1>1, DeciderAssumption DEF Counted
<1>3. \A n \in 1..MaxNHLTTriggers : Name[n] \in Algorithm
  BY DEF Algorithm
<1>4. \A a \in Algorithm : NumOfCalled'[a] <= nEvent /\ NumOfCalled'[a] \in Nat
  BY <1>1 DEF Counted, counts
<1>5. \A a \in Algorithm : NumOfCalled'[a] <= nEvent' /\ NumOfCalled'[a] < nEvent'
  BY <1>1, <1>2, <1>4
<1>6. algo' \in 1..(MaxNHLTTriggers + 1)
  BY <1>1 DEF MaxNHLTTriggers
<1> QED
  BY <1>1, <1>2, <1>3, <1>5, <1>6 DEF Counted, counts

LEMMA EndedCounts ==
  ASSUME Counted, UNCHANGED <<event, needed, nEvent, algo, hltDecision, counts>>,
         UNCHANGED phase \/ phase' \in {"crashed", "filled"}
  PROVE  Counted'
BY DEF Counted, counts

(* The di-muon algorithm that does not return was called once.             *)
LEMMA EndsCounts ==
  ASSUME Counted, Ends
  PROVE  Counted'
<1>1. CASE UNCHANGED NumOfCalled
  BY <1>1, EndedCounts DEF Ends, counts
<1>2. CASE ~UNCHANGED NumOfCalled
  <2> DEFINE a == "MTDDiMuon"
  <2>1. /\ phase = "deciding" /\ phase' = "crashed" /\ algo \in 1..MaxNHLTTriggers /\ Name[algo] = a
        /\ NumOfCalled' = [NumOfCalled EXCEPT ![a] = @ + 1] /\ UNCHANGED NumOfSucceed
        /\ UNCHANGED <<needed, nEvent, algo, hltDecision>>
    BY <1>2 DEF Ends, Counted, MaxNHLTTriggers
  <2>2. NumOfCalled[a] < nEvent /\ NumOfCalled[a] \in Nat /\ nEvent \in Nat /\ a \in Algorithm
    <3>1. NumOfCalled[Name[algo]] < nEvent /\ Name[algo] \in Algorithm
      BY <2>1 DEF Counted, MaxNHLTTriggers, Algorithm
    <3>2. NumOfCalled[a] < nEvent /\ a \in Algorithm
      BY <2>1, <3>1
    <3> QED
      BY <3>2 DEF Counted
  <2>3. NumOfCalled' \in [Algorithm -> Nat]
    BY <2>1, <2>2 DEF Counted
  <2>4. ASSUME NEW b \in Algorithm
        PROVE  NumOfSucceed'[b] <= NumOfCalled'[b] /\ NumOfCalled'[b] <= nEvent'
    <3>1. CASE b = a
      BY <2>1, <2>2, <3>1 DEF Counted
    <3>2. CASE b # a
      BY <2>1, <3>2 DEF Counted
    <3> QED
      BY <3>1, <3>2
  <2> QED
    BY <2>1, <2>3, <2>4 DEF Counted
<1> QED
  BY <1>1, <1>2

------------------------------------------------------------------------------
(* The decisions made so far are the right ones.                           *)
Decided ==
  phase \in {"deciding", "filled"} =>
    \A n \in 1..MaxNHLTTriggers :
      n < algo /\ Name[n] \in needed \cap Referenced =>
        (Name[n] \in hltDecision <=> Enabled(Name[n]) /\ Accepts(Name[n]))

(* What the step of an algorithm is to show.                               *)
Verdict(a) == a \in needed \cap Referenced => (a \in hltDecision' <=> Enabled(a) /\ Accepts(a))

LEMMA AcceptsKept ==
  ASSUME UNCHANGED <<setup, cut, event>>, NEW a
  PROVE  Accepts(a)' <=> Accepts(a)
<1>1. Asked(a)' = Asked(a)
  BY DEF Asked
<1>2. Tracks' = Tracks /\ NPrimaryTracks' = NPrimaryTracks /\ \A i : T(i)' = T(i) /\ Prim(i)' = Prim(i)
  BY DEF Tracks, NPrimaryTracks, T, Prim
<1>3. \A i : LitTowers(i)' = LitTowers(i)
  BY <1>2 DEF LitTowers
<1>4. \A i : TriesTof(a, i)' = TriesTof(a, i) /\ TriesEmc(a, i)' = TriesEmc(a, i)
  BY <1>2 DEF TriesTof, TriesEmc, Eligible, Long
<1>5. \A s, t : Best(s, t)' = Best(s, t)
  BY DEF Best
<1>6. \A i, c : SelectionBits(a, i, c)' = SelectionBits(a, i, c)
  BY <1>2, <1>3, <1>4, <1>5 DEF SelectionBits, PassTof, PassEmc, POverE, Judged
<1>7. \A i : Electron(a, i)' <=> Electron(a, i)
  BY <1>1, <1>2, <1>6 DEF Electron, AskedLong
<1> QED
  BY <1>1, <1>2, <1>7 DEF Accepts, AskedLong, Within

LEMMA CutIs ==
  ASSUME Cuts, phase = "deciding", NEW a \in Algorithm, NEW i
  PROVE  cut[a] = Asked(a) /\ (Long(a, i) <=> AskedLong(a, i))
BY CutIsAsked DEF Cuts, Long, AskedLong

(* With the cell of the primary track an algorithm finds what the track    *)
(* has, whatever the node held.                                            *)
LEMMA CellIs ==
  ASSUME Nodes, event \in Content, NEW i \in Tracks
  PROVE  /\ CellOf(i) <=> Prim(i) /\ T(i).cell
         /\ Prim(i) => CellOf(i) = T(i).cell
<1>1. T(i).cell \in BOOLEAN /\ node[i].cell \in BOOLEAN /\ CellOf(i) \in BOOLEAN
  BY TrackHas DEF Nodes, CellOf
<1>2. CellOf(i) <=> Prim(i) /\ T(i).cell
  BY DEF Nodes, CellOf
<1> QED
  BY <1>1, <1>2

LEMMA ElectronIs ==
  ASSUME Nodes, Cuts, phase = "deciding", event \in Content, NEW a \in Algorithm, NEW i \in Tracks
  PROVE  IsElectron(a, i, CellOf(i)) <=> Electron(a, i)
<1>1. Eligible(a, i) <=> Prim(i) /\ AskedLong(a, i) /\ T(i).p >= 1
  BY CutIs DEF Eligible
<1>2. Prim(i) => CellOf(i) = T(i).cell
  BY CellIs
<1> QED
  BY <1>1, <1>2 DEF IsElectron, Electron

LEMMA PairsAre ==
  ASSUME Nodes, Cuts, phase = "deciding", event \in Content, NEW a \in Algorithm
  PROVE  PairsOf(a) # {} <=>
           \E ij \in event.inMass[a] :
             /\ ij \in Tracks \X Tracks /\ ij[1] < ij[2]
             /\ Electron(a, ij[1]) /\ Electron(a, ij[2])
             /\ Higher(T(ij[1]).p, T(ij[2]).p) >= 2
<1>1. \A ij \in Tracks \X Tracks :
        /\ IsElectron(a, ij[1], CellOf(ij[1])) <=> Electron(a, ij[1])
        /\ IsElectron(a, ij[2], CellOf(ij[2])) <=> Electron(a, ij[2])
  BY ElectronIs
<1> QED
  BY <1>1 DEF PairsOf

LEMMA PairsAreFinite ==
  ASSUME event \in Content, NEW a
  PROVE  IsFiniteSet(PairsOf(a)) /\ Cardinality(PairsOf(a)) \in Nat
<1>1. IsFiniteSet(Tracks)
  BY DeciderAssumption DEF IsContent, Tracks
<1>2. IsFiniteSet(Tracks \X Tracks)
  BY <1>1, FS_Product
<1>3. PairsOf(a) \subseteq Tracks \X Tracks
  BY DEF PairsOf
<1> QED
  BY <1>2, <1>3, FS_Subset, FS_CardinalityType

LEMMA HighPtDecides ==
  ASSUME IInv, Cuts, event \in Content, DecideHighPt
  PROVE  Verdict("HighPt")
<1> DEFINE a == "HighPt"
           found == {i \in Tracks : Prim(i) /\ Long(a, i) /\ T(i).p >= 5}
<1>1. Turn(a) /\ Enabled(a) /\ phase = "deciding" /\ a \in Algorithm
      /\ hltDecision' = IF found # {} THEN hltDecision \cup {a} ELSE hltDecision
  <2>1. Turn(a) /\ Enabled(a) /\ Fills(a, found)
    BY DEF DecideHighPt
  <2> QED
    BY <2>1 DEF Fills, Returns, Turn, MaxNHLTTriggers, Algorithm, Name
<1>2. found # {} <=> Accepts(a)
  <2>1. \A i : Long(a, i) <=> AskedLong(a, i)
    BY <1>1, CutIs
  <2> QED
    BY <2>1 DEF Accepts, DiElectrons
<1> QED
  BY <1>1, <1>2, TurnIsFirst DEF Verdict

LEMMA DiElectronDecides ==
  ASSUME IInv, Cuts, Nodes, event \in Content, NEW a \in Algorithm, DecideDiElectron(a)
  PROVE  Verdict(a)
<1> DEFINE found == {Pair(a, ij[1], ij[2]) : ij \in PairsOf(a)}
<1>1. Turn(a) /\ Enabled(a) /\ phase = "deciding" /\ a \in {"DiElectron", "DiElectron2Twr"}
      /\ hltDecision' = IF found # {} THEN hltDecision \cup {a} ELSE hltDecision
  BY DEF DecideDiElectron, Fills, Returns, Turn
<1>2. found # {} <=> PairsOf(a) # {}
  OBVIOUS
<1>3. PairsOf(a) # {} <=> Accepts(a)
  BY <1>1, PairsAre DEF Accepts, DiElectrons
<1> QED
  BY <1>1, <1>2, <1>3, TurnIsFirst DEF Verdict

LEMMA UPCDiElectronDecides ==
  ASSUME IInv, Cuts, Nodes, event \in Content, DecideUPCDiElectron
  PROVE  Verdict("UPCDiElectron")
<1> DEFINE a == "UPCDiElectron"
           found == 0..(Cardinality(PairsOf(a)) - 1)
<1>1. Turn(a) /\ Enabled(a) /\ phase = "deciding" /\ a \in Algorithm
  BY DEF DecideUPCDiElectron, Turn, Algorithm, MaxNHLTTriggers, Name
<1>2. NPrimaryTracks \in Nat /\ nTracksCut_UPCdiElectron \in Int
  <2>1. IsFiniteSet(Tracks)
    BY DeciderAssumption DEF IsContent, Tracks
  <2>2. IsFiniteSet({i \in Tracks : T(i).near})
    BY <2>1, FS_Subset
  <2> QED
    BY <2>2, FS_CardinalityType, DeciderAssumption DEF NPrimaryTracks
<1>3. CASE NPrimaryTracks > nTracksCut_UPCdiElectron
  <2>1. UNCHANGED hltDecision
    BY <1>3 DEF DecideUPCDiElectron, Declines
  <2>2. ~Accepts(a)
    BY <1>2, <1>3 DEF Accepts, DiElectrons
  <2> QED
    BY <1>1, <2>1, <2>2, TurnIsFirst DEF Verdict
<1>4. CASE ~(NPrimaryTracks > nTracksCut_UPCdiElectron)
  <2>1. hltDecision' = IF found # {} THEN hltDecision \cup {a} ELSE hltDecision
    BY <1>4 DEF DecideUPCDiElectron, Fills, Returns
  <2>2. found # {} <=> PairsOf(a) # {}
    <3>1. IsFiniteSet(PairsOf(a)) /\ Cardinality(PairsOf(a)) \in Nat
      BY PairsAreFinite
    <3>2. Cardinality(PairsOf(a)) = 0 <=> PairsOf(a) = {}
      BY <3>1, FS_EmptySet
    <3> QED
      BY <3>1, <3>2
  <2>3. PairsOf(a) # {} <=> Accepts(a)
    BY <1>1, <1>2, <1>4, PairsAre DEF Accepts, DiElectrons
  <2> QED
    BY <1>1, <2>1, <2>2, <2>3, TurnIsFirst DEF Verdict
<1> QED
  BY <1>3, <1>4

LEMMA HeavyDecides ==
  ASSUME IInv, Cuts, Nodes, event \in Content, DecideHeavyFragment
  PROVE  Verdict("HeavyFragment")
<1> DEFINE a == "HeavyFragment"
           found == {i \in Tracks : IsHeavy(i)}
<1>1. Turn(a) /\ Enabled(a) /\ phase = "deciding" /\ a \in Algorithm
      /\ hltDecision' = IF found # {} THEN hltDecision \cup {a} ELSE hltDecision
  <2>1. Turn(a) /\ Enabled(a) /\ Fills(a, found)
    BY DEF DecideHeavyFragment
  <2> QED
    BY <2>1 DEF Fills, Returns, Turn, MaxNHLTTriggers, Algorithm, Name
<1>2. found # {} <=> Accepts(a)
  <2>1. \A i : Long(a, i) <=> AskedLong(a, i)
    BY <1>1, CutIs
  <2>2. \A i \in Tracks : CellOf(i) <=> Prim(i) /\ T(i).cell
    BY CellIs
  <2>3. Accepts(a) <=> \E i \in Tracks :
          /\ AskedLong(a, i)
          /\ \/ "He3" \in T(i).pid
             \/ Prim(i) /\ T(i).cell /\ {"Triton", "TritonMass"} \subseteq T(i).pid
    BY DEF Accepts, DiElectrons
  <2> QED
    BY <2>1, <2>2, <2>3 DEF IsHeavy, HeavyDedx
<1> QED
  BY <1>1, <1>2, TurnIsFirst DEF Verdict

LEMMA LowMultDecides ==
  ASSUME IInv, Cuts, DecideLowMult
  PROVE  Verdict("LowMult")
<1> DEFINE a == "LowMult"
           n == Cardinality(Tracks)
           found == IF n > cut[a] /\ n < nTracksHigh_LowMult THEN {n} ELSE {}
<1>1. Turn(a) /\ Enabled(a) /\ phase = "deciding" /\ a \in Algorithm
      /\ hltDecision' = IF found # {} THEN hltDecision \cup {a} ELSE hltDecision
  <2>1. Turn(a) /\ Enabled(a) /\ Fills(a, found)
    BY DEF DecideLowMult
  <2> QED
    BY <2>1 DEF Fills, Returns, Turn, MaxNHLTTriggers, Algorithm, Name
<1>2. found # {} <=> Accepts(a)
  BY <1>1, CutIs DEF Accepts, DiElectrons
<1> QED
  BY <1>1, <1>2, TurnIsFirst DEF Verdict

LEMMA GlobalDecides ==
  ASSUME IInv, Cuts, event \in Content, NEW a \in Algorithm, DecideGlobal(a)
  PROVE  Verdict(a)
<1>1. Turn(a) /\ Enabled(a) /\ phase = "deciding" /\ a \in Global
      /\ hltDecision' = IF MeetsGlobal(a) THEN hltDecision \cup {a} ELSE hltDecision
  BY DEF DecideGlobal, Returns, Turn
<1>2. a \in Referenced => a \in {"BesGoodEvents", "HLTGood2"}
  BY <1>1 DEF Global, Referenced, DiElectrons
<1>3. a \in {"BesGoodEvents", "HLTGood2"} => (MeetsGlobal(a) <=> Accepts(a))
  <2>1. cut[a] = Asked(a)
    BY <1>1, CutIs
  <2>2. event.vz \in Int /\ event.vr \in Nat
    BY DeciderAssumption DEF IsContent
  <2>3. CASE a = "BesGoodEvents"
    BY <2>1, <2>3 DEF MeetsGlobal, Accepts, DiElectrons
  <2>4. CASE a = "HLTGood2"
    <3>1. Within(5) => Within(30)
      BY <2>2 DEF Within
    <3>2. 2 * event.vr < 3 => event.vr < 2
      BY <2>2
    <3> QED
      BY <2>1, <2>4, <3>1, <3>2 DEF MeetsGlobal, Accepts, DiElectrons
  <2> QED
    BY <2>3, <2>4
<1> QED
  BY <1>1, <1>2, <1>3, TurnIsFirst DEF Verdict

(* The verdict of the step of any algorithm.                               *)
LEMMA StepDecides ==
  ASSUME IInv, Cuts, Nodes, event \in Content, Decide, ~Ends
  PROVE  Verdict(Name[algo])
<1>1. ASSUME NEW a, Turn(a) PROVE Name[algo] = a
  BY <1>1 DEF Turn
<1>2. CASE Skip
  BY <1>2 DEF Skip, Verdict
<1>3. CASE Crash \/ FillBlobs
  BY <1>3 DEF Crash, FillBlobs, Ends, counts
<1>4. CASE DecideHighPt
  BY <1>1, <1>4, HighPtDecides DEF DecideHighPt
<1>5. CASE DecideHeavyFragment
  BY <1>1, <1>5, HeavyDecides DEF DecideHeavyFragment
<1>6. CASE DecideLowMult
  BY <1>1, <1>6, LowMultDecides DEF DecideLowMult
<1>7. CASE DecideUPCDiElectron
  BY <1>1, <1>7, UPCDiElectronDecides DEF DecideUPCDiElectron
<1>8. CASE AcceptNoHLT \/ DecideRandomEvents \/ DecideDiV0 \/ DecideMatchedHT2
  <2>1. Name[algo] \in {"AllEventsNoHLT", "RandomEvents", "DiV0", "MatchedHT2"}
    BY <1>1, <1>8 DEF AcceptNoHLT, DecideRandomEvents, DecideDiV0, DecideMatchedHT2
  <2> QED
    BY <2>1 DEF Verdict, Referenced, DiElectrons
<1>9. CASE DecideUPCPair \/ DecideMTDDiMuon \/ DecideMTDQuarkonium
  <2>1. Name[algo] \in {"UPCPair", "MTDDiMuon", "MTDQuarkonium"}
    BY <1>1, <1>9 DEF DecideUPCPair, DecideMTDDiMuon, DecideMTDQuarkonium
  <2> QED
    BY <2>1 DEF Verdict, Referenced, DiElectrons
<1>10. ASSUME NEW a \in Algorithm, DecideDiElectron(a) PROVE Verdict(Name[algo])
  BY <1>1, <1>10, DiElectronDecides DEF DecideDiElectron
<1>11. ASSUME NEW a \in Algorithm, DecideGlobal(a) PROVE Verdict(Name[algo])
  BY <1>1, <1>11, GlobalDecides DEF DecideGlobal
<1>12. ASSUME NEW a \in Algorithm, Disabled(a) PROVE Verdict(Name[algo])
  BY <1>1, <1>12, TurnIsFirst DEF Disabled, Declines, Verdict
<1> QED
  BY <1>2, <1>3, <1>4, <1>5, <1>6, <1>7, <1>8, <1>9, <1>10, <1>11, <1>12 DEF Decide

LEMMA TakenDecided ==
  ASSUME IInv, Decided, NEW a \in Algorithm, Takes(a), Verdict(a)
  PROVE  Decided'
<1>1. /\ UNCHANGED <<phase, setup, cut, event, needed>> /\ algo' = algo + 1 /\ phase = "deciding"
      /\ algo \in 1..MaxNHLTTriggers /\ Name[algo] = a
  BY DEF Takes, input, config
<1>2. hltDecision \subseteq hltDecision' /\ hltDecision' \subseteq hltDecision \cup {a}
  BY DEF Takes, Returns
<1>3. ASSUME NEW n \in 1..MaxNHLTTriggers, n < algo', Name[n] \in (needed \cap Referenced)'
      PROVE  (Name[n] \in hltDecision <=> Enabled(Name[n]) /\ Accepts(Name[n]))'
  <2>1. Name[n] \in needed \cap Referenced
    BY <1>1, <1>3 DEF Referenced
  <2>2. /\ Accepts(Name[n])' <=> Accepts(Name[n])
        /\ Enabled(Name[n])' <=> Enabled(Name[n])
    BY <1>1, AcceptsKept DEF Enabled
  <2>3. CASE n = algo
    BY <1>1, <2>1, <2>2, <2>3 DEF Verdict
  <2>4. CASE n # algo
    <3>1. n < algo /\ Name[n] # a
      BY <1>1, <1>3, <2>4, NamesDiffer DEF MaxNHLTTriggers
    <3>2. Name[n] \in hltDecision' <=> Name[n] \in hltDecision
      BY <1>2, <3>1
    <3> QED
      BY <1>1, <2>1, <2>2, <3>1, <3>2 DEF Decided
  <2> QED
    BY <2>3, <2>4
<1> QED
  BY <1>3 DEF Decided

LEMMA EndedDecided ==
  ASSUME Decided, UNCHANGED <<config, event, needed, algo, hltDecision>>,
         UNCHANGED phase \/ phase' = "crashed" \/ phase = "deciding"
  PROVE  Decided'
<1>1. ASSUME NEW a
      PROVE  (Accepts(a)' <=> Accepts(a)) /\ (Enabled(a)' <=> Enabled(a))
  BY AcceptsKept DEF config, Enabled
<1>2. Referenced' = Referenced
  BY DEF Referenced
<1> QED
  BY <1>1, <1>2 DEF Decided

------------------------------------------------------------------------------
(* The di-electrons.  An entry of the two banks is well-formed, and what   *)
(* its bits claim is true of the nodes, also after further algorithms.     *)
Sound(a, x) ==
  /\ x.dau1 # x.dau2
  /\ a = "DiElectron" => T(x.dau1).p >= T(x.dau2).p
  /\ Evidence(a, x.dau1, x.bits1) /\ Evidence(a, x.dau2, x.bits2)

Electrons ==
  \A a \in {"DiElectron", "DiElectron2Twr"} :
    bank[a] \subseteq PairType /\ \A x \in bank[a] : Sound(a, x)

(* Energies and momenta are those of the event.                            *)
LEMMA JudgedKept ==
  ASSUME UNCHANGED event, NEW a, NEW i
  PROVE  /\ T(i)' = T(i) /\ LitTowers(i)' = LitTowers(i) /\ Judged(i)' = Judged(i)
         /\ POverE(a, i)' <=> POverE(a, i)
<1>1. T(i)' = T(i) /\ \A ts, old : Best(ts, old)' = Best(ts, old)
  BY DEF T, Best
<1>2. LitTowers(i)' = LitTowers(i)
  BY <1>1 DEF LitTowers
<1>3. Judged(i)' = Judged(i)
  BY <1>1, <1>2 DEF Judged
<1> QED
  BY <1>1, <1>2, <1>3 DEF POverE

(* An electron keeps its evidence when its node is matched again ...       *)
LEMMA EvidenceKept ==
  ASSUME NodesGrow, TowersKept, UNCHANGED <<event, bank["HeavyFragment"]>>,
         NEW a, NEW i \in Tracks, NEW bits, Evidence(a, i, bits)
  PROVE  Evidence(a, i, bits)'
<1>1. /\ T(i)' = T(i) /\ LitTowers(i)' = LitTowers(i) /\ Judged(i)' = Judged(i)
      /\ POverE(a, i)' <=> POverE(a, i)
  BY JudgedKept
<1>2. bits # {} /\ bits \subseteq T(i)'.window
  BY <1>1 DEF Evidence
<1>3. bits \cap {"Tof", "TofAndEmc"} # {} => node'[i].cell /\ T(i)'.light
  BY <1>1 DEF Evidence, NodesGrow
<1>4. ASSUME bits \cap {"Emc", "TofAndEmc"} # {}
      PROVE  /\ LitTowers(i)' # {} /\ POverE(a, i)'
             /\ node'[i].tower = Judged(i)' \/ (a = "DiElectron" /\ Overwritten(i)')
  <2>1. /\ LitTowers(i) # {} /\ POverE(a, i)
        /\ node[i].tower = Judged(i) \/ (a = "DiElectron" /\ Overwritten(i))
    BY <1>4 DEF Evidence
  <2>2. node'[i].tower = node[i].tower \/ node'[i].tower = Judged(i)
    BY <2>1 DEF TowersKept
  <2>3. node'[i].tower = node[i].tower => (Overwritten(i)' <=> Overwritten(i))
    <3>1. \A ts, old : Best(ts, old)' = Best(ts, old)
      BY DEF Best
    <3> QED
      BY <1>1, <3>1 DEF Overwritten
  <2> QED
    BY <1>1, <2>1, <2>2, <2>3
<1> QED
  BY <1>2, <1>3, <1>4 DEF Evidence

(* ... and when HeavyFragment, which comes after DiElectron and before     *)
(* DiElectron2Twr, takes its track.                                        *)
LEMMA HeavyEvidence ==
  ASSUME IInv, Nodes, event \in Content, DecideHeavyFragment, UNCHANGED event,
         NEW i \in Tracks, NEW bits, Evidence("DiElectron", i, bits)
  PROVE  Evidence("DiElectron", i, bits)'
<1> DEFINE a == "DiElectron"
<1>1. /\ T(i)' = T(i) /\ LitTowers(i)' = LitTowers(i) /\ Judged(i)' = Judged(i)
      /\ POverE(a, i)' <=> POverE(a, i)
  BY JudgedKept
<1>2. NodesGrow
  BY HeavyGrows
<1>3. bits # {} /\ bits \subseteq T(i)'.window
  BY <1>1 DEF Evidence
<1>4. bits \cap {"Tof", "TofAndEmc"} # {} => node'[i].cell /\ T(i)'.light
  BY <1>1, <1>2 DEF Evidence, NodesGrow
<1>5. ASSUME bits \cap {"Emc", "TofAndEmc"} # {}
      PROVE  /\ LitTowers(i)' # {} /\ POverE(a, i)'
             /\ node'[i].tower = Judged(i)' \/ Overwritten(i)'
  <2>1. bank["HeavyFragment"] = {}
    <3>1. Turn("HeavyFragment") /\ "HeavyFragment" \in Banked
      BY DEF DecideHeavyFragment, Banked
    <3> QED
      BY <3>1, TurnIsFirst DEF IInv, BankIfAccepted
  <2>2. LitTowers(i) # {} /\ POverE(a, i) /\ node[i].tower = Judged(i)
    BY <1>5, <2>1 DEF Evidence, Overwritten
  <2>3. bank'["HeavyFragment"] = {k \in Tracks : IsHeavy(k)}
    BY DEF DecideHeavyFragment, Fills, IInv, Once, Banked
  <2>4. node'[i].tower = IF IsHeavy(i) THEN Best(T(i).gtowers, node[i].tower) ELSE node[i].tower
    BY DEF DecideHeavyFragment, HeavyTower
  <2>5. CASE IsHeavy(i)
    <3>1. Best(T(i).gtowers, Judged(i))' = Best(T(i).gtowers, Judged(i))
      BY <1>1 DEF Best
    <3> QED
      BY <1>1, <2>2, <2>3, <2>4, <2>5, <3>1 DEF Overwritten
  <2>6. CASE ~IsHeavy(i)
    BY <1>1, <2>2, <2>4, <2>6
  <2> QED
    BY <2>5, <2>6
<1> QED
  BY <1>3, <1>4, <1>5 DEF Evidence

(* The bits an electron is given are those its node has evidence for.      *)
LEMMA BitsAreTrue ==
  ASSUME Nodes, event \in Content, NEW a, a # "UPCDiElectron", NEW i \in Tracks,
         IsElectron(a, i, CellOf(i)), node' = Match(a), UNCHANGED event,
         NEW bits, bits = SelectionBits(a, i, CellOf(i))
  PROVE  Evidence(a, i, bits)' /\ bits \subseteq Method
<1>1. bits # {} /\ bits \subseteq T(i).window /\ T(i)' = T(i)
  BY DEF IsElectron, SelectionBits, T
<1>2. \A m \in bits : (m # "Emc" => PassTof(a, i, CellOf(i))) /\ (m # "Tof" => PassEmc(a, i))
  BY DEF SelectionBits
<1>3. /\ node'[i].cell = IF TriesTof(a, i) THEN CellOf(i) ELSE node[i].cell
      /\ node'[i].tower = IF TriesEmc(a, i) THEN Best(LitTowers(i), node[i].tower) ELSE node[i].tower
  BY DEF Match
<1>4. PassTof(a, i, CellOf(i)) => node'[i].cell /\ T(i).light
  BY <1>3 DEF PassTof
<1>5. PassEmc(a, i) => LitTowers(i)' # {} /\ POverE(a, i)' /\ node'[i].tower = Judged(i)'
  <2>1. LitTowers(i) \subseteq T(i).towers
    BY DEF LitTowers
  <2>2. LitTowers(i) # {} => Best(LitTowers(i), node[i].tower) = Judged(i)
    BY <2>1, BestIsJudged
  <2> QED
    BY <1>3, <2>2, JudgedKept DEF PassEmc
<1>6. bits \subseteq Method
  BY <1>1, TrackHas
<1>7. bits \cap {"Tof", "TofAndEmc"} # {} => PassTof(a, i, CellOf(i))
  BY <1>2
<1>8. bits \cap {"Emc", "TofAndEmc"} # {} => PassEmc(a, i)
  BY <1>2
<1> QED
  BY <1>1, <1>4, <1>5, <1>6, <1>7, <1>8 DEF Evidence

LEMMA PairIsSound ==
  ASSUME Nodes, event \in Content, NEW a \in {"DiElectron", "DiElectron2Twr"},
         node' = Match(a), UNCHANGED event, NEW ij \in PairsOf(a), NEW x, x = Pair(a, ij[1], ij[2])
  PROVE  x \in PairType' /\ Sound(a, x)'
<1> DEFINE i == ij[1]
           j == ij[2]
           swap == a # "DiElectron2Twr" /\ T(i).p < T(j).p
           d1 == IF swap THEN j ELSE i
           d2 == IF swap THEN i ELSE j
<1>1. /\ i \in Tracks /\ j \in Tracks /\ i < j
      /\ IsElectron(a, i, CellOf(i)) /\ IsElectron(a, j, CellOf(j))
  BY DEF PairsOf
<1>2. i # j /\ T(i).p \in Nat /\ T(j).p \in Nat
  BY <1>1, EventIsSane, TrackHas DEF Tracks
<1>3. /\ x = [dau1 |-> d1, dau2 |-> d2, bits1 |-> SelectionBits(a, d1, CellOf(d1)),
              bits2 |-> SelectionBits(a, d2, CellOf(d2))]
  BY DEF Pair
<1> HIDE DEF i, j
<1>4. /\ d1 \in Tracks /\ d2 \in Tracks /\ d1 # d2
      /\ IsElectron(a, d1, CellOf(d1)) /\ IsElectron(a, d2, CellOf(d2))
      /\ a = "DiElectron" => T(d1).p >= T(d2).p
  BY <1>1, <1>2
<1> HIDE DEF d1, d2
<1>5. x.dau1 = d1 /\ x.bits1 = SelectionBits(a, x.dau1, CellOf(x.dau1))
  BY <1>3
<1>6. x.dau2 = d2 /\ x.bits2 = SelectionBits(a, x.dau2, CellOf(x.dau2))
  BY <1>3
<1>7. Evidence(a, x.dau1, x.bits1)' /\ x.bits1 \subseteq Method
  BY <1>4, <1>5, BitsAreTrue
<1>8. Evidence(a, x.dau2, x.bits2)' /\ x.bits2 \subseteq Method
  BY <1>4, <1>6, BitsAreTrue
<1>9. Tracks' = Tracks /\ \A k : T(k)' = T(k)
  BY DEF Tracks, T
<1>10. x \in PairType'
  <2>1. x = [dau1 |-> x.dau1, dau2 |-> x.dau2, bits1 |-> x.bits1, bits2 |-> x.bits2]
    BY <1>3
  <2> QED
    BY <1>4, <1>5, <1>6, <1>7, <1>8, <1>9, <2>1 DEF PairType, Method
<1>11. x.dau1 # x.dau2 /\ (a = "DiElectron" => T(x.dau1)'.p >= T(x.dau2)'.p)
  BY <1>4, <1>5, <1>6, <1>9
<1> QED
  BY <1>7, <1>8, <1>10, <1>11 DEF Sound

(* Of the two banks a step of the decider fills at most one, and keeps or  *)
(* empties the others.                                                     *)
LEMMA BankOfElectrons ==
  ASSUME Once, Decide, NEW a \in {"DiElectron", "DiElectron2Twr"}
  PROVE  \/ bank'[a] = bank[a] \/ bank'[a] = {}
         \/ DecideDiElectron(a) /\ bank'[a] = {Pair(a, ij[1], ij[2]) : ij \in PairsOf(a)}
<1>1. bank = [b \in Banked |-> bank[b]] /\ a \in Banked
  BY DEF Once, Banked, DiElectrons
<1>2. ASSUME NEW b, a # b, NEW found, bank' = [bank EXCEPT ![b] = found] PROVE bank'[a] = bank[a]
  BY <1>1, <1>2
<1>3. ASSUME NEW b, bank' = [bank EXCEPT ![b] = {}] PROVE bank'[a] = bank[a] \/ bank'[a] = {}
  BY <1>1, <1>3
<1>4. CASE Skip \/ Crash \/ FillBlobs \/ AcceptNoHLT \/ DecideRandomEvents \/ DecideDiV0 \/ DecideMTDDiMuon
  BY <1>4 DEF Skip, Crash, FillBlobs, AcceptNoHLT, DecideRandomEvents, DecideDiV0, DecideMTDDiMuon
<1>5. CASE DecideHighPt
  BY <1>2, <1>5 DEF DecideHighPt, Fills
<1>6. CASE DecideHeavyFragment
  BY <1>2, <1>6 DEF DecideHeavyFragment, Fills
<1>7. CASE DecideMatchedHT2
  BY <1>2, <1>7 DEF DecideMatchedHT2, Fills
<1>8. CASE DecideLowMult
  BY <1>2, <1>8 DEF DecideLowMult, Fills
<1>9. CASE DecideUPCDiElectron
  BY <1>2, <1>9 DEF DecideUPCDiElectron, Declines, Fills, Banked, DiElectrons
<1>10. CASE DecideUPCPair
  BY <1>2, <1>10 DEF DecideUPCPair, Fills
<1>11. CASE DecideMTDQuarkonium
  BY <1>2, <1>11 DEF DecideMTDQuarkonium, Fills
<1>12. ASSUME NEW b \in Algorithm, DecideDiElectron(b)
       PROVE  \/ bank'[a] = bank[a]
              \/ DecideDiElectron(a) /\ bank'[a] = {Pair(a, ij[1], ij[2]) : ij \in PairsOf(a)}
  <2>1. bank' = [bank EXCEPT ![b] = {Pair(b, ij[1], ij[2]) : ij \in PairsOf(b)}]
    BY <1>12 DEF DecideDiElectron, Fills
  <2>2. CASE b = a
    BY <1>1, <1>12, <2>1, <2>2
  <2>3. CASE b # a
    BY <1>2, <2>1, <2>3
  <2> QED
    BY <2>2, <2>3
<1>13. ASSUME NEW b \in Algorithm, DecideGlobal(b) \/ Disabled(b)
       PROVE  bank'[a] = bank[a] \/ bank'[a] = {}
  BY <1>3, <1>13 DEF DecideGlobal, Disabled, Declines
<1> QED
  BY <1>4, <1>5, <1>6, <1>7, <1>8, <1>9, <1>10, <1>11, <1>12, <1>13 DEF Decide

(* The algorithms other than HeavyFragment leave its bank, or find it is   *)
(* its turn and empty it: it is empty already.                             *)
LEMMA BankOfHeavy ==
  ASSUME IInv, Decide, ~DecideHeavyFragment
  PROVE  bank'["HeavyFragment"] = bank["HeavyFragment"]
<1> DEFINE h == "HeavyFragment"
<1>1. bank = [b \in Banked |-> bank[b]] /\ h \in Banked
  BY DEF IInv, Once, Banked
<1>2. ASSUME NEW b, h # b, NEW found, bank' = [bank EXCEPT ![b] = found] PROVE bank'[h] = bank[h]
  BY <1>1, <1>2
<1>3. CASE UNCHANGED bank
  BY <1>3
<1>4. ASSUME NEW b, Turn(b), Declines(b) PROVE bank'[h] = bank[h]
  <2>1. CASE b = h
    <3>1. bank[h] = {}
      BY <1>1, <1>4, <2>1, TurnIsFirst DEF IInv, BankIfAccepted
    <3> QED
      BY <1>1, <1>4, <2>1, <3>1 DEF Declines
  <2>2. CASE b # h
    BY <1>2, <1>4, <2>2 DEF Declines
  <2> QED
    BY <2>1, <2>2
<1>5. CASE Skip \/ Crash \/ FillBlobs \/ AcceptNoHLT \/ DecideRandomEvents \/ DecideDiV0 \/ DecideMTDDiMuon
  BY <1>3, <1>5 DEF Skip, Crash, FillBlobs, AcceptNoHLT, DecideRandomEvents, DecideDiV0, DecideMTDDiMuon
<1>6. CASE DecideHighPt \/ DecideMatchedHT2 \/ DecideLowMult \/ DecideUPCPair
  BY <1>2, <1>6 DEF DecideHighPt, DecideMatchedHT2, DecideLowMult, DecideUPCPair, Fills
<1>7. CASE DecideUPCDiElectron
  BY <1>2, <1>4, <1>7 DEF DecideUPCDiElectron, Fills
<1>8. CASE DecideMTDQuarkonium
  BY <1>2, <1>8 DEF DecideMTDQuarkonium, Fills
<1>9. ASSUME NEW b \in Algorithm, DecideDiElectron(b) \/ DecideGlobal(b) PROVE bank'[h] = bank[h]
  BY <1>2, <1>3, <1>9 DEF DecideDiElectron, DecideGlobal, Fills
<1>10. ASSUME NEW b \in Algorithm, Disabled(b) PROVE bank'[h] = bank[h]
  BY <1>4, <1>10 DEF Disabled
<1> QED
  BY <1>5, <1>6, <1>7, <1>8, <1>9, <1>10 DEF Decide

(* When HeavyFragment runs, DiElectron2Twr has found nothing yet.          *)
LEMMA TwrIsLater ==
  ASSUME IInv, DecideHeavyFragment
  PROVE  bank["DiElectron2Twr"] = {}
<1>1. Turn("HeavyFragment") /\ Name[4] = "HeavyFragment" /\ Name[19] = "DiElectron2Twr"
  BY DEF DecideHeavyFragment, Name
<1>2. algo = 4
  BY <1>1, NamesDiffer DEF Turn, IInv, Once, MaxNHLTTriggers
<1>3. "DiElectron2Twr" \notin hltDecision
  <2>1. ASSUME NEW n \in 1..MaxNHLTTriggers, n < algo, Name[n] = "DiElectron2Twr" PROVE FALSE
    BY <1>1, <1>2, <2>1, NamesDiffer DEF MaxNHLTTriggers
  <2> QED
    BY <2>1 DEF IInv, Once
<1> QED
  BY <1>3 DEF IInv, BankIfAccepted, Banked, DiElectrons

LEMMA ElectronsKept ==
  ASSUME MInv, Nodes, Electrons, event \in Content, Decide, UNCHANGED event
  PROVE  Electrons'
<1>1. NodesGrow
  BY DecideGrows
<1>2. Tracks' = Tracks /\ PairType' = PairType /\ \A k : T(k)' = T(k)
  BY DEF Tracks, T, PairType, Method
<1>3. ASSUME NEW a \in {"DiElectron", "DiElectron2Twr"}, NEW x \in bank'[a]
      PROVE  x \in PairType' /\ Sound(a, x)'
  <2>1. CASE x \in bank[a]
    <3>1. x \in PairType /\ Sound(a, x)
      BY <2>1 DEF Electrons
    <3>2. x.dau1 \in Tracks /\ x.dau2 \in Tracks
      BY <3>1 DEF PairType
    <3>3. Evidence(a, x.dau1, x.bits1)' /\ Evidence(a, x.dau2, x.bits2)'
      <4>1. Evidence(a, x.dau1, x.bits1) /\ Evidence(a, x.dau2, x.bits2)
        BY <3>1 DEF Sound
      <4>2. CASE DecideHeavyFragment
        <5>1. a = "DiElectron"
          BY <2>1, <4>2, TwrIsLater DEF MInv
        <5> QED
          BY <3>2, <4>1, <4>2, <5>1, HeavyEvidence DEF MInv
      <4>3. CASE ~DecideHeavyFragment
        <5>1. TowersKept /\ UNCHANGED bank["HeavyFragment"]
          BY <4>3, DecideKeepsTowers, BankOfHeavy DEF MInv
        <5> QED
          BY <1>1, <3>2, <4>1, <5>1, EvidenceKept
      <4> QED
        BY <4>2, <4>3
    <3> QED
      BY <1>2, <3>1, <3>3 DEF Sound
  <2>2. CASE x \notin bank[a]
    <3>1. DecideDiElectron(a) /\ bank'[a] = {Pair(a, ij[1], ij[2]) : ij \in PairsOf(a)}
      BY <1>3, <2>2, BankOfElectrons DEF MInv, IInv
    <3>2. PICK ij \in PairsOf(a) : x = Pair(a, ij[1], ij[2])
      BY <3>1
    <3>3. node' = Match(a)
      BY <3>1 DEF DecideDiElectron
    <3> QED
      BY <3>2, <3>3, PairIsSound
  <2> QED
    BY <2>1, <2>2
<1> QED
  BY <1>3 DEF Electrons

LEMMA ElectronsQuiet ==
  ASSUME Electrons, UNCHANGED <<event, node, bank>>
  PROVE  Electrons'
<1>1. PairType' = PairType /\ \A k : T(k)' = T(k)
  BY DEF Tracks, T, PairType, Method
<1>2. \A k : /\ LitTowers(k)' = LitTowers(k) /\ Judged(k)' = Judged(k)
             /\ \A a : POverE(a, k)' <=> POverE(a, k)
  BY JudgedKept
<1>3. \A k : Overwritten(k)' <=> Overwritten(k)
  <2>1. \A ts, old : Best(ts, old)' = Best(ts, old)
    BY DEF Best
  <2> QED
    BY <1>1, <1>2, <2>1 DEF Overwritten
<1>4. \A a, k, bits : Evidence(a, k, bits)' <=> Evidence(a, k, bits)
  BY <1>1, <1>2, <1>3 DEF Evidence
<1> QED
  BY <1>1, <1>4 DEF Electrons, Sound

------------------------------------------------------------------------------
(* The invariant of the decisions.                                         *)
DInv == MInv /\ Cuts /\ Nodes /\ Counted /\ Decided /\ Electrons

LEMMA InitDecisions == Init => DInv
<1> SUFFICES ASSUME Init PROVE DInv
  OBVIOUS
<1>1. MInv
  BY InitMuons
<1>2. Cuts
  <2>1. Default \in 1..Higher(Default, MaxCut)
    BY DeciderAssumption DEF Default, Higher
  <2>2. setup \in Setup /\ index = 1 /\ phase = "config" /\ cut = [a \in Algorithm |-> Default]
    BY DEF Init
  <2>3. PICK n \in Nat : DOMAIN setup = 1..n
    BY <2>2, SetupIsSequence
  <2>4. \A a : Requested(a) = {}
    BY <2>2, <2>3 DEF Requested
  <2> QED
    BY <2>1, <2>2, <2>4 DEF Cuts
<1>3. Nodes
  <2>1. event = NoEvent /\ node = <<>> /\ Tracks = {}
    BY DEF Init, NoEvent, Tracks
  <2> QED
    BY <2>1 DEF Nodes
<1>4. Counted
  BY DeciderAssumption DEF Init, Counted, MaxNHLTTriggers
<1>5. Decided
  BY DEF Init, Decided
<1>6. Electrons
  BY DEF Init, Electrons, NoBanks, Banked, DiElectrons
<1> QED
  BY <1>1, <1>2, <1>3, <1>4, <1>5, <1>6 DEF DInv

LEMMA StartDecisions ==
  ASSUME DInv, NEW e \in Content, NEW m \in Menu, EventStart(e, m)
  PROVE  DInv'
<1>1. /\ UNCHANGED config /\ phase' = "deciding" /\ algo' = 1 /\ event' = e
      /\ node' = MakeNodes(e) /\ bank' = NoBanks
      /\ (phase = "config" => index \notin DOMAIN setup)
  BY DEF EventStart, ResetBanks
<1>2. MInv'
  BY StartKeeps DEF DInv
<1>3. Cuts'
  BY <1>1, CutsKept DEF DInv
<1>4. Nodes'
  <2>1. Tracks' = DOMAIN e.tracks /\ node' = [i \in DOMAIN e.tracks |-> NoNode]
    BY <1>1 DEF Tracks, MakeNodes
  <2>2. NoNode \in [cell : BOOLEAN, tower : Tower \cup {0}] /\ NoNode.cell = FALSE
    BY DEF NoNode
  <2>3. Tower' = Tower /\ event' \in Content
    BY <1>1 DEF Tower
  <2> QED
    BY <2>1, <2>2, <2>3 DEF Nodes
<1>5. Counted'
  BY StartCounts DEF DInv
<1>6. Decided'
  BY <1>1 DEF Decided, MaxNHLTTriggers
<1>7. Electrons'
  <2>1. \A a \in {"DiElectron", "DiElectron2Twr"} : bank'[a] = {}
    BY <1>1 DEF NoBanks, Banked, DiElectrons
  <2> QED
    BY <2>1 DEF Electrons
<1> QED
  BY <1>2, <1>3, <1>4, <1>5, <1>6, <1>7 DEF DInv

LEMMA StepDecisions == DInv /\ [Next]_vars => DInv'
<1> SUFFICES ASSUME DInv, [Next]_vars PROVE DInv'
  OBVIOUS
<1> USE DEF DInv
<1>1. MInv'
  BY StepMuons
<1>2. CASE UNCHANGED vars
  <2>1. UNCHANGED <<phase, config, event, needed, trackId, nEvent, algo, node, hltDecision, bank, counts>>
    BY <1>2 DEF vars, input
  <2>2. Cuts' /\ Decided' /\ Electrons' /\ Counted'
    BY <2>1, CutsKept, EndedDecided, ElectronsQuiet, EndedCounts
  <2>3. Nodes'
    BY <2>1, QuietGrows, GrownNodes
  <2> QED
    BY <1>1, <2>2, <2>3
<1>3. CASE SetTriggersFromRunControl
  <2>1. /\ phase = "config" /\ phase' = "config"
        /\ UNCHANGED <<event, needed, nEvent, algo, hltDecision, counts, node, bank, phase>>
    BY <1>3 DEF SetTriggersFromRunControl
  <2>2. Cuts' /\ Electrons' /\ Counted'
    BY <1>3, <2>1, RequestRead, ElectronsQuiet, EndedCounts
  <2>3. Nodes'
    BY <2>1, QuietGrows, GrownNodes
  <2>4. Decided'
    BY <2>1 DEF Decided
  <2> QED
    BY <1>1, <2>2, <2>3, <2>4
<1>4. ASSUME NEW e \in Content, NEW m \in Menu, EventStart(e, m) PROVE DInv'
  BY <1>4, StartDecisions
<1>5. CASE Decide
  <2>1. algo \in Nat \ {0} /\ IInv
    BY DEF MInv, IInv, Once
  <2>2. phase = "deciding" /\ UNCHANGED <<config, event>> /\ (phase' = "config" => phase = "config")
    BY <1>5, <2>1, DecideTakes DEF Ends, Takes, input
  <2>3. event \in Content
    BY <2>2 DEF MInv, Sane
  <2>4. NodesGrow
    BY <1>5, <2>3, DecideGrows
  <2>5. Nodes' /\ Cuts' /\ Electrons'
    BY <1>5, <2>2, <2>3, <2>4, GrownNodes, CutsKept, ElectronsKept
  <2>6. CASE Ends
    <3>1. Counted' /\ Decided'
      BY <2>6, EndsCounts, EndedDecided DEF Ends
    <3> QED
      BY <1>1, <2>5, <3>1
  <2>7. CASE ~Ends
    <3>1. PICK a \in Algorithm : Takes(a)
      BY <1>5, <2>1, <2>7, DecideTakes
    <3>2. Verdict(a)
      BY <1>5, <2>1, <2>3, <2>7, <3>1, StepDecides DEF Takes
    <3>3. Counted' /\ Decided'
      BY <2>1, <3>1, <3>2, TakenCounts, TakenDecided
    <3> QED
      BY <1>1, <2>5, <3>3
  <2> QED
    BY <2>6, <2>7
<1> QED
  BY <1>2, <1>3, <1>4, <1>5 DEF Next

(* The variables keep to the values of their C++ counterparts; above all   *)
(* no algorithm is called, or succeeds, more often than there were events, *)
(* and none sets a bit that no trigger needs (finish() and the counters    *)
(* of the algorithms).                                                     *)
THEOREM TypeCorrect == Spec => []TypeOK
<1>1. DInv => TypeOK
  <2> SUFFICES ASSUME DInv PROVE TypeOK
    OBVIOUS
  <2>1. NumOfCalled \in [Algorithm -> 0..nEvent]
    BY DEF DInv, Counted
  <2>2. \A a \in Algorithm : NumOfSucceed[a] \in 0..NumOfCalled[a]
    BY DEF DInv, Counted
  <2>3. \A a \in {"DiElectron", "DiElectron2Twr"} : bank[a] \subseteq PairType
    BY DEF DInv, Electrons
  <2>4. /\ setup \in Setup /\ index \in Nat \ {0}
        /\ cut \in [Algorithm -> 1..Higher(Default, MaxCut)]
    BY DEF DInv, Cuts
  <2>5. /\ event \in Content \cup {NoEvent}
        /\ node \in [Tracks -> [cell : BOOLEAN, tower : Tower \cup {0}]]
    BY DEF DInv, Nodes
  <2>6. trackId \in [Hit -> Tracks \cup {0}]
    BY DEF DInv, MInv, Sane
  <2>7. /\ phase \in {"config", "deciding", "filled", "crashed"}
        /\ needed \subseteq Algorithm /\ hltDecision \subseteq needed
        /\ algo \in 1..(MaxNHLTTriggers + 1) /\ nEvent \in 0..MaxEvent
    BY DEF DInv, Counted
  <2> QED
    BY <2>1, <2>2, <2>3, <2>4, <2>5, <2>6, <2>7 DEF TypeOK
<1> QED
  BY InitDecisions, StepDecisions, <1>1, PTL DEF Spec

(* An algorithm accepts an event if and only if it is switched on and the  *)
(* event and the last parameters of its trigger say so, whatever other     *)
(* algorithms left in the nodes and whatever was configured before         *)
(* (setTriggersFromRunControl, makeNodes2 and the algorithms).             *)
THEOREM DecidedOnTheEvent == Spec => []Decision
<1>1. DInv => Decision
  <2> SUFFICES ASSUME DInv, phase = "filled", NEW a \in needed \cap Referenced
               PROVE  a \in hltDecision <=> Enabled(a) /\ Accepts(a)
    BY DEF Decision
  <2>1. a \in Algorithm /\ algo > MaxNHLTTriggers /\ algo \in Nat
    BY DEF DInv, Counted, MInv, Sane, IInv, Once
  <2>2. PICK n \in 1..MaxNHLTTriggers : Name[n] = a
    BY <2>1 DEF Algorithm
  <2>3. n < algo
    BY <2>1 DEF MaxNHLTTriggers
  <2> QED
    BY <2>2, <2>3 DEF DInv, Decided
<1> QED
  BY InitDecisions, StepDecisions, <1>1, PTL DEF Spec

(* A di-electron is two tracks, the leading one first, and the nodes put   *)
(* out with it hold the cell and the tower by which each was selected,     *)
(* though later algorithms match the same nodes again; only of a heavy     *)
(* fragment the tower may be that of the global track.  And two muons are  *)
(* two tracks (the algorithms, matchPrimaryTracks, matchMTD).              *)
THEOREM CandidatesSound == Spec => []Candidates
<1>1. DInv => Candidates
  <2> SUFFICES ASSUME DInv PROVE Candidates
    OBVIOUS
  <2>1. PairsSound
    BY DEF DInv, Electrons, Sound, PairsSound
  <2>2. MuonsDistinct
    BY DEF DInv, MInv, IInv, Once, Sane, Distinct, Pairs, Seen, MuonsDistinct, MaxNHLTTriggers
  <2> QED
    BY <2>1, <2>2 DEF Candidates
<1> QED
  BY InitDecisions, StepDecisions, <1>1, PTL DEF Spec
=============================================================================
