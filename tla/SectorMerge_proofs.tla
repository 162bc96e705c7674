-------------------------- MODULE SectorMerge_proofs --------------------------
(***************************************************************************)
(* Theorems about SectorMerge, for arrays of any size and whatever the     *)
(* sectors bring: the tracks, the hits and the index stay within their     *)
(* arrays, and a global and a primary track of one number stay together.   *)
(***************************************************************************)
EXTENDS SectorMerge, FiniteSetTheorems, WellFoundedInduction, NaturalsInduction, SequenceTheorems, TLAPS

(* The sizes of the arrays and of the detector.                            *)
LEMMA Sizes ==
  /\ NSectors \in Nat \ {0} /\ NPhi \in Nat /\ NEta \in Nat
  /\ MaxTracks \in Nat /\ MaxTracks >= 3
  /\ MaxTracksSector \in Nat \ {0} /\ MaxHits \in Nat /\ IdBase \in Nat
  /\ HitProcessing \in 0..2
BY MergeAssumption

(* A set of numbers has a least one.                                       *)
LEMMA LeastNumber ==
  ASSUME NEW S \in SUBSET Nat, S # {}
  PROVE  \E x \in S : \A y \in S : x <= y
<1> DEFINE below == {p \in Nat \X Nat : p[1] < p[2]}
<1>1. IsWellFoundedOn(below, Nat)
  BY NatLessThanWellFounded, Zenon DEF OpToRel
<1> HIDE DEF below
<1>2. PICK x \in S : \A y \in S : ~(<<y, x>> \in below)
  BY <1>1, WFMin
<1> SUFFICES ASSUME NEW y \in S, y < x PROVE FALSE
  BY <1>2
<1>3. <<y, x>> \in Nat \X Nat /\ <<y, x>>[1] < <<y, x>>[2]
  OBVIOUS
<1> QED
  BY <1>2, <1>3 DEF below

(* Of the places in the container that match there is a first one.         *)
LEMMA FirstIsOne ==
  ASSUME NEW cs, cs # {}, \A c \in cs : c \in (Nat \X Nat) \X Nat
  PROVE  First(cs) \in cs
<1> DEFINE phis == {c[1][1] : c \in cs}
<1>1. PICK p \in phis : \A q \in phis : p <= q
  <2>1. phis \in SUBSET Nat /\ phis # {}
    OBVIOUS
  <2> QED
    BY <2>1, LeastNumber
<1> DEFINE etas == {c[1][2] : c \in {d \in cs : d[1][1] = p}}
<1>2. PICK e \in etas : \A q \in etas : e <= q
  <2>1. etas \in SUBSET Nat /\ etas # {}
    BY <1>1
  <2> QED
    BY <2>1, LeastNumber
<1> DEFINE links == {c[2] : c \in {d \in cs : d[1][1] = p /\ d[1][2] = e}}
<1>3. PICK i \in links : \A q \in links : i <= q
  <2>1. links \in SUBSET Nat /\ links # {}
    BY <1>1, <1>2
  <2> QED
    BY <2>1, LeastNumber
<1>4. PICK c \in cs : c[1][1] = p /\ c[1][2] = e /\ c[2] = i
  BY <1>3
<1>5. ASSUME NEW d \in cs \ {c} PROVE Earlier(c, d)
  <2>1. p \in Nat /\ e \in Nat /\ i \in Nat
    BY <1>4
  <2>2. d[1][1] \in Nat /\ d[1][2] \in Nat /\ d[2] \in Nat /\ p <= d[1][1]
    BY <1>1
  <2>3. d[1][1] = p => e <= d[1][2]
    BY <1>2
  <2>4. d[1][1] = p /\ d[1][2] = e => i <= d[2]
    BY <1>3
  <2>5. ~(d[1][1] = p /\ d[1][2] = e /\ d[2] = i)
    <3>1. c = <<<<c[1][1], c[1][2]>>, c[2]>> /\ d = <<<<d[1][1], d[1][2]>>, d[2]>>
      OBVIOUS
    <3> QED
      BY <1>4, <3>1
  <2> QED
    BY <1>4, <2>1, <2>2, <2>3, <2>4, <2>5 DEF Earlier
<1> QED
  BY <1>4, <1>5 DEF First

(* The parts of the invariant: what counts, the lists, the tracks, where   *)
(* they are, the hits that fit.  A bank is read from a sector, of which    *)
(* there is one at every later stage.                                      *)
Counters ==
  /\ reader \in Readers /\ nEvents \in Nat
  /\ stage \in {"idle", "sectors", "tracks", "hits"}
  /\ sector \in 0..NSectors /\ nTrk \in Nat /\ nSectorTracks \in Nat
  /\ nGlobalTracks \in 0..MaxTracks - 2
  /\ nMergedTracks \in Nat /\ nMergableTracks \in Nat
Flag == full \in BOOLEAN
Lists ==
  /\ todo \in Seq(LocalTrack) /\ clusters \in Seq(Int) /\ read \in Seq(Piece)
  /\ hit \in Seq([sector : 1..NSectors, local : Int, trackId : Int])
Tracks == globalTrack \in [Slot -> Track] /\ primaryTrack \in [Slot -> Track]
Places ==
  /\ trackContainer \in [Area -> Seq(Slot)]
  /\ globalTrackIndex \in [0..NSectors * MaxTracksSector - 1 -> 0..MaxTracks]
HitsFit == Len(hit) + (IF stage = "hits" THEN Len(clusters) ELSE 0) <= MaxHits
InSector == stage \in {"tracks", "hits"} => sector \in 1..NSectors

IInv == Counters /\ Flag /\ Lists /\ Tracks /\ Places /\ HitsFit /\ InSector

LEMMA InvIsType == IInv => TypeOK
BY DEF IInv, Counters, Flag, Lists, Tracks, Places, HitsFit, TypeOK

LEMMA SlotsBelow ==
  ASSUME nGlobalTracks \in 0..MaxTracks - 2
  PROVE  /\ 0..nGlobalTracks \subseteq Slot
         /\ nGlobalTracks \in Slot
BY Sizes DEF Slot

LEMMA SetIsTrack ==
  ASSUME sector \in 1..NSectors, NEW t \in LocalTrack
  PROVE  /\ Set(t) \in Track
         /\ Set(t).pieces = << <<sector, Abs(t.id)>> >>
         /\ <<sector, Abs(t.id)>> \in Piece
<1>1. t.id \in Int /\ Abs(t.id) \in Nat
  BY DEF LocalTrack, Abs
<1>2. t.phi \in 0..NPhi /\ t.eta \in 0..NEta /\ t.helix \in Helix
  BY Sizes DEF LocalTrack
<1>3. t.rows \in Nat \X Nat
  BY DEF LocalTrack
<1>4. <<sector, Abs(t.id)>> \in Piece
  BY <1>1, Sizes DEF Piece
<1>5. << <<sector, Abs(t.id)>> >> \in Seq(Piece) /\ << >> \in Seq(Nat)
  BY <1>4
<1>6. sector * IdBase + Abs(t.id) \in Int
  BY <1>1, Sizes
<1> QED
  BY <1>2, <1>3, <1>4, <1>5, <1>6 DEF Set, Track

LEMMA JoinedIsTrack ==
  ASSUME NEW t \in Track, NEW p \in Track
  PROVE  Joined(t, p) \in Track /\ Joined(t, p).pieces = t.pieces \o p.pieces
<1>1. t.rows \in Nat \X Nat /\ p.rows \in Nat \X Nat
  BY DEF Track
<1>2. <<Least(t.rows[1], p.rows[1]), Most(t.rows[2], p.rows[2])>> \in Nat \X Nat
  BY <1>1 DEF Least, Most
<1>3. t.pieces \o p.pieces \in Seq(Piece)
  <2>1. t.pieces \in Seq(Piece) /\ p.pieces \in Seq(Piece)
    BY DEF Track
  <2> QED
    BY <2>1
<1> QED
  BY <1>2, <1>3 DEF Joined, Track

(* The track that a new one is merged with is in the container.            *)
LEMMA FatterIsListed ==
  ASSUME TypeOK, NEW new, Matches(new) # {}
  PROVE  \E a \in Area : \E i \in 1..Len(trackContainer[a]) : Fatter(new) = trackContainer[a][i]
<1>1. \A c \in Matches(new) : /\ c \in (Nat \X Nat) \X Nat
                              /\ c[1] \in Area /\ c[2] \in 1..Len(trackContainer[c[1]])
  <2> SUFFICES ASSUME NEW c \in Matches(new)
               PROVE  /\ c \in (Nat \X Nat) \X Nat
                      /\ c[1] \in Area /\ c[2] \in 1..Len(trackContainer[c[1]])
    OBVIOUS
  <2>1. PICK a \in Around(new), i \in 1..MaxTracks * MaxTracks : c = <<a, i>>
    BY DEF Matches
  <2>2. i \in Nat /\ i >= 1
    BY <2>1, Sizes
  <2>3. a \in Area /\ a \in Nat \X Nat
    BY Sizes DEF Around, Area
  <2>4. c[2] <= Len(trackContainer[c[1]])
    BY DEF Matches
  <2>5. Len(trackContainer[a]) \in Nat
    BY <2>3 DEF TypeOK
  <2> QED
    BY <2>1, <2>2, <2>3, <2>4, <2>5
<1>2. First(Matches(new)) \in Matches(new)
  BY <1>1, FirstIsOne
<1> QED
  BY <1>1, <1>2 DEF Fatter

LEMMA FatterIsSlot ==
  ASSUME TypeOK, NEW new, Matches(new) # {}
  PROVE  Fatter(new) \in Slot
<1>1. trackContainer \in [Area -> Seq(Slot)]
  BY DEF TypeOK
<1> QED
  BY <1>1, FatterIsListed, ElementOfSeq

LEMMA IndexType ==
  ASSUME TypeOK, NEW t, NEW k \in Slot
  PROVE  Index(t, k) \in [0..NSectors * MaxTracksSector - 1 -> 0..MaxTracks]
<1>1. k + 1 \in 0..MaxTracks
  BY Sizes DEF Slot
<1> QED
  BY <1>1 DEF Index, TypeOK

LEMMA InitInv == Init => IInv
<1> SUFFICES ASSUME Init PROVE IInv
  OBVIOUS
<1>1. Nothing \in Track
  <2>1. << >> \in Seq(Piece) /\ << >> \in Seq(Nat) /\ <<0, 0>> \in Nat \X Nat
    OBVIOUS
  <2> QED
    BY <2>1, Sizes DEF Nothing, Track
<1>2. NoIndex \in [0..NSectors * MaxTracksSector - 1 -> 0..MaxTracks]
  BY Sizes DEF NoIndex
<1>3. Places
  BY <1>2 DEF Init, Places
<1>4. Tracks
  BY <1>1 DEF Init, Tracks
<1>5. Lists
  BY DEF Init, Lists
<1>6. HitsFit /\ InSector
  BY Sizes DEF Init, HitsFit, InSector
<1>7. Counters
  <2>1. 0 \in 0..MaxTracks - 2 /\ NSectors \in 0..NSectors
    BY Sizes
  <2> QED
    BY <2>1 DEF Init, Counters
<1>8. Flag
  BY Zenon DEF Init, Flag
<1> QED
  BY <1>3, <1>4, <1>5, <1>6, <1>7, <1>8 DEF IInv

(* What MergeTrack and StoreTrack begin with: the track at the head.       *)
LEMMA HeadIsTrack ==
  ASSUME IInv, stage = "tracks", todo # <<>>
  PROVE  /\ Head(todo) \in LocalTrack /\ Tail(todo) \in Seq(LocalTrack)
         /\ Set(Head(todo)) \in Track
         /\ Append(read, Set(Head(todo)).pieces[1]) \in Seq(Piece)
<1>1. Head(todo) \in LocalTrack /\ Tail(todo) \in Seq(LocalTrack)
  BY DEF IInv, Lists
<1>2. sector \in 1..NSectors
  BY DEF IInv, InSector
<1> DEFINE t == Head(todo)
<1>3. Set(t) \in Track /\ Set(t).pieces[1] \in Piece
  <2>1. /\ Set(t) \in Track /\ Set(t).pieces = << <<sector, Abs(t.id)>> >>
        /\ <<sector, Abs(t.id)>> \in Piece
    <3> HIDE DEF t
    <3> QED
      BY <1>1, <1>2, SetIsTrack DEF t
  <2> QED
    BY <2>1
<1>4. read \in Seq(Piece)
  BY DEF IInv, Lists
<1> QED
  BY <1>1, <1>3, <1>4

(* What leaves a part of the state alone keeps what is said of it.         *)
LEMMA MergeInv ==
  ASSUME IInv, MergeTrack
  PROVE  IInv'
<1> DEFINE t == Head(todo)
           new == Set(t)
           k == Fatter(new)
           add(array) == [array EXCEPT ![nGlobalTracks] = new]
           put(array, p) == [add(array) EXCEPT ![p] = Joined(@, new)]
<1>0. stage = "tracks" /\ todo # <<>> /\ Matches(new) # {}
  BY DEF MergeTrack
<1>1. t \in LocalTrack /\ Tail(todo) \in Seq(LocalTrack) /\ new \in Track
      /\ Append(read, new.pieces[1]) \in Seq(Piece)
  BY <1>0, HeadIsTrack
<1>2. k \in Slot
  BY <1>0, InvIsType, FatterIsSlot
<1>3. nGlobalTracks \in Slot
  BY SlotsBelow DEF IInv, Counters
<1>4. /\ globalTrack' = put(globalTrack, k)
      /\ primaryTrack' = IF reader = "collector" THEN put(primaryTrack, k) ELSE primaryTrack
      /\ globalTrackIndex' = Index(t, nGlobalTracks) \/ globalTrackIndex' = Index(t, k)
      /\ read' = Append(read, new.pieces[1])
      /\ nMergedTracks' = nMergedTracks + 1
      /\ todo' = Tail(todo)
      /\ UNCHANGED <<reader, nEvents, stage, sector, nTrk, nSectorTracks, clusters, nGlobalTracks,
                      trackContainer, nMergableTracks, full, hit>>
  BY DEF MergeTrack, PrimaryOf, IndexOf
<1>5. put(globalTrack, k) \in [Slot -> Track] /\ put(primaryTrack, k) \in [Slot -> Track]
  <2> HIDE DEF new, k
  <2>1. globalTrack \in [Slot -> Track] /\ primaryTrack \in [Slot -> Track]
    BY DEF IInv, Tracks
  <2>2. ASSUME NEW array \in [Slot -> Track] PROVE put(array, k) \in [Slot -> Track]
    <3> DEFINE one == add(array)
    <3>1. one \in [Slot -> Track]
      BY <1>1, <1>3
    <3>2. Joined(one[k], new) \in Track
      <4> HIDE DEF one
      <4> QED
        BY <1>1, <1>2, <3>1, JoinedIsTrack
    <3>3. put(array, k) = [one EXCEPT ![k] = Joined(one[k], new)]
      OBVIOUS
    <3> HIDE DEF one, put
    <3> QED
      BY <3>1, <3>2, <3>3
  <2> QED
    BY <2>1, <2>2
<1>6. Index(t, nGlobalTracks) \in [0..NSectors * MaxTracksSector - 1 -> 0..MaxTracks]
      /\ Index(t, k) \in [0..NSectors * MaxTracksSector - 1 -> 0..MaxTracks]
  BY <1>2, <1>3, InvIsType, IndexType
<1> HIDE DEF t, new, k, put
<1>7. Tracks'
  BY <1>4, <1>5 DEF Tracks, IInv
<1>8. Places'
  BY <1>4, <1>6 DEF Places, IInv
<1>9. Lists'
  BY <1>1, <1>4 DEF Lists, IInv
<1>10. Counters' /\ HitsFit' /\ InSector'
  BY <1>4 DEF Counters, HitsFit, InSector, IInv
<1>11. Flag'
  BY <1>4 DEF Flag, IInv
<1> QED
  BY <1>7, <1>8, <1>9, <1>10, <1>11 DEF IInv

LEMMA StoreInv ==
  ASSUME IInv, StoreTrack
  PROVE  IInv'
<1> DEFINE t == Head(todo)
           new == Set(t)
           m == Mergeable(t)
           a == <<t.phi, t.eta>>
           n == nGlobalTracks + 1
<1>0. stage = "tracks" /\ todo # <<>>
  BY DEF StoreTrack
<1>1. t \in LocalTrack /\ Tail(todo) \in Seq(LocalTrack) /\ new \in Track
      /\ Append(read, new.pieces[1]) \in Seq(Piece)
  BY <1>0, HeadIsTrack
<1>2. nGlobalTracks \in Slot
  BY SlotsBelow DEF IInv, Counters
<1>3. a \in Area
  BY <1>1 DEF LocalTrack, Area
<1>4. /\ globalTrack' = [globalTrack EXCEPT ![nGlobalTracks] = new]
      /\ primaryTrack' = IF reader = "collector" THEN [primaryTrack EXCEPT ![nGlobalTracks] = new]
                          ELSE primaryTrack
      /\ trackContainer' = IF m THEN [trackContainer EXCEPT ![a] = Append(@, nGlobalTracks)]
                            ELSE trackContainer
      /\ nMergableTracks' = IF m THEN nMergableTracks + 1 ELSE nMergableTracks
      /\ globalTrackIndex' = Index(t, nGlobalTracks)
      /\ read' = Append(read, new.pieces[1])
      /\ nGlobalTracks' = IF Full(n) THEN nGlobalTracks ELSE n
      /\ full' = (full \/ Full(n))
      /\ todo' = IF Full(n) THEN <<>> ELSE Tail(todo)
      /\ UNCHANGED <<reader, nEvents, stage, sector, nTrk, nSectorTracks, clusters, nMergedTracks,
                      hit>>
  BY DEF StoreTrack
<1>5. Index(t, nGlobalTracks) \in [0..NSectors * MaxTracksSector - 1 -> 0..MaxTracks]
  BY <1>2, InvIsType, IndexType
<1> HIDE DEF t, new, m, a
<1>6. Tracks'
  BY <1>1, <1>2, <1>4 DEF Tracks, IInv
<1>7. Places'
  <2>1. trackContainer[a] \in Seq(Slot)
    BY <1>3 DEF Places, IInv
  <2>2. Append(trackContainer[a], nGlobalTracks) \in Seq(Slot)
    BY <1>2, <2>1
  <2> QED
    BY <1>3, <1>4, <1>5, <2>2 DEF Places, IInv
<1>8. Lists'
  BY <1>1, <1>4 DEF Lists, IInv
<1>9. Counters'
  BY <1>4, Sizes DEF Counters, IInv, Full
<1>10. HitsFit' /\ InSector'
  BY <1>4 DEF HitsFit, InSector, IInv
<1>11. Flag'
  BY <1>4, Zenon DEF Flag, Full
<1> QED
  BY <1>6, <1>7, <1>8, <1>9, <1>10, <1>11 DEF IInv

(* A hit changes the list of hits of a track, if anything.                 *)
LEMMA HitKeepsPieces ==
  ASSUME IInv, ReadHit
  PROVE  /\ Tracks' /\ Lists' /\ Len(hit') = Len(hit) + 1 /\ Len(clusters') = Len(clusters) - 1
         /\ \A k \in Slot : globalTrack'[k].pieces = globalTrack[k].pieces
<1> DEFINE id == Head(clusters)
           h == Len(hit) + 1
<1>1. PICK entry \in IF Known(id) THEN AtIndex(IndexRead(id)) ELSE {0} :
        IF entry - 1 \in 0..nGlobalTracks
        THEN /\ hit' = Append(hit, [sector |-> sector, local |-> id,
                                    trackId |-> globalTrack[entry - 1].id])
             /\ globalTrack' = IF HitProcessing > 1
                               THEN [globalTrack EXCEPT ![entry - 1].hits = Append(@, h)]
                               ELSE globalTrack
        ELSE /\ hit' = Append(hit, [sector |-> sector, local |-> id, trackId |-> id])
             /\ UNCHANGED globalTrack
  BY DEF ReadHit
<1>2. /\ stage = "hits" /\ clusters # <<>> /\ clusters' = Tail(clusters)
      /\ UNCHANGED <<todo, read, primaryTrack>>
  BY DEF ReadHit
<1>3. clusters \in Seq(Int) /\ hit \in Seq([sector : 1..NSectors, local : Int, trackId : Int])
      /\ todo \in Seq(LocalTrack) /\ read \in Seq(Piece)
      /\ globalTrack \in [Slot -> Track] /\ primaryTrack \in [Slot -> Track]
      /\ sector \in 1..NSectors /\ nGlobalTracks \in 0..MaxTracks - 2
  BY <1>2 DEF IInv, Lists, Tracks, Counters, InSector
<1>4. id \in Int /\ Tail(clusters) \in Seq(Int) /\ Len(Tail(clusters)) = Len(clusters) - 1
      /\ h \in Nat
  BY <1>2, <1>3
<1> HIDE DEF id, h
<1>5. entry - 1 \in 0..nGlobalTracks => entry - 1 \in Slot
  BY <1>3, SlotsBelow
<1>6. \A k \in Slot : globalTrack[k].id \in Int /\ globalTrack[k].hits \in Seq(Nat)
  BY <1>3 DEF Track
<1>7. PICK new \in [sector : 1..NSectors, local : Int, trackId : Int] : hit' = Append(hit, new)
  <2>1. CASE entry - 1 \in 0..nGlobalTracks
    BY <1>1, <1>3, <1>4, <1>5, <1>6, <2>1
  <2>2. CASE ~(entry - 1 \in 0..nGlobalTracks)
    BY <1>1, <1>3, <1>4, <2>2
  <2> QED
    BY <2>1, <2>2
<1>8. hit' \in Seq([sector : 1..NSectors, local : Int, trackId : Int]) /\ Len(hit') = Len(hit) + 1
  BY <1>3, <1>7
<1>9. globalTrack' \in [Slot -> Track]
      /\ \A k \in Slot : globalTrack'[k].pieces = globalTrack[k].pieces
  <2>1. CASE globalTrack' = globalTrack
    BY <1>3, <2>1
  <2>2. ASSUME entry - 1 \in Slot,
               globalTrack' = [globalTrack EXCEPT ![entry - 1].hits = Append(@, h)]
        PROVE  /\ globalTrack' \in [Slot -> Track]
               /\ \A k \in Slot : globalTrack'[k].pieces = globalTrack[k].pieces
    <3>1. Append(globalTrack[entry - 1].hits, h) \in Seq(Nat)
      BY <1>4, <1>6, <2>2
    <3> DEFINE j == entry - 1
               old == globalTrack[j]
               longer == [old EXCEPT !.hits = Append(@, h)]
    <3>2. globalTrack' = [globalTrack EXCEPT ![j] = longer]
      BY <2>2
    <3>3. old \in Track /\ Append(old.hits, h) \in Seq(Nat)
      BY <1>3, <2>2, <3>1
    <3>4. longer \in Track /\ longer.pieces = old.pieces
      BY <3>3 DEF Track
    <3> HIDE DEF longer
    <3> QED
      BY <1>3, <2>2, <3>2, <3>4
  <2> QED
    BY <1>1, <1>5, <2>1, <2>2
<1> QED
  BY <1>2, <1>3, <1>4, <1>8, <1>9 DEF Tracks, Lists

LEMMA HitInv ==
  ASSUME IInv, ReadHit
  PROVE  IInv'
<1>1. Tracks' /\ Lists' /\ Len(hit') = Len(hit) + 1 /\ Len(clusters') = Len(clusters) - 1
  BY HitKeepsPieces
<1>2. stage = "hits" /\ UNCHANGED <<reader, nEvents, stage, sector, nTrk, nSectorTracks,
        nGlobalTracks, trackContainer, nMergedTracks, nMergableTracks, full, globalTrackIndex>>
  BY DEF ReadHit
<1>3. Len(hit) \in Nat /\ Len(clusters) \in Nat
  BY DEF IInv, Lists
<1>4. HitsFit'
  BY <1>1, <1>2, <1>3, Sizes DEF IInv, HitsFit
<1>5. Counters' /\ InSector' /\ Places'
  BY <1>2 DEF IInv, Counters, InSector, Places
<1>6. Flag'
  BY <1>2 DEF IInv, Flag
<1> QED
  BY <1>1, <1>4, <1>5, <1>6 DEF IInv

LEMMA ResetInv ==
  ASSUME IInv, ResetEvent
  PROVE  IInv'
<1>1. NoIndex \in [0..NSectors * MaxTracksSector - 1 -> 0..MaxTracks]
  BY Sizes DEF NoIndex
<1>2. Places'
  BY <1>1 DEF ResetEvent, ResetContainer, ResetIndex, Places, IInv
<1>3. Tracks' /\ Lists'
  BY DEF ResetEvent, Tracks, Lists, IInv
<1>4. Counters'
  BY Sizes DEF ResetEvent, Counters, IInv
<1>5. HitsFit' /\ InSector'
  BY Sizes DEF ResetEvent, HitsFit, InSector, IInv
<1>6. Flag'
  BY Zenon DEF ResetEvent, Flag
<1> QED
  BY <1>2, <1>3, <1>4, <1>5, <1>6 DEF IInv

LEMMA ReadInv ==
  ASSUME IInv, NEW b \in Banks, ReadSectorTracks(b)
  PROVE  IInv'
<1>1. /\ b.sector \in 1..NSectors /\ b.tracks \in Seq(LocalTrack)
      /\ b.nTracks \in Nat /\ b.hits \in Seq(Int)
  BY MergeAssumption DEF Bank
<1>2. Len(b.tracks) \in Nat
  BY <1>1
<1>3. Lists'
  BY <1>1 DEF ReadSectorTracks, tracks, Lists, IInv
<1>4. Tracks' /\ Places'
  BY DEF ReadSectorTracks, tracks, Tracks, Places, IInv
<1>5. Counters' /\ InSector'
  BY <1>1, <1>2, Sizes DEF ReadSectorTracks, tracks, Counters, InSector, IInv
<1>6. HitsFit'
  <2>1. Len(hit) <= MaxHits
    <3>1. Len(hit) \in Nat /\ Len(clusters) \in Nat
      BY DEF IInv, Lists
    <3> QED
      BY <3>1, Sizes DEF ReadSectorTracks, HitsFit, IInv
  <2>2. Len(hit) \in Nat
    BY DEF IInv, Lists
  <2> QED
    BY <2>1, <2>2 DEF ReadSectorTracks, HitsFit
<1>7. Flag'
  BY DEF ReadSectorTracks, tracks, Flag, IInv
<1> QED
  BY <1>3, <1>4, <1>5, <1>6, <1>7 DEF IInv

(* The ends of an event, of the tracks and of the hits of a sector.        *)
LEMMA EndInv ==
  ASSUME IInv, EndOfEvent \/ EndOfTracks \/ EndOfHits
  PROVE  IInv'
<1>1. Tracks' /\ Places'
  BY DEF EndOfEvent, EndOfTracks, EndOfHits, tracks, bank, Tracks, Places, IInv
<1>2. Lists'
  BY DEF EndOfEvent, EndOfTracks, EndOfHits, tracks, bank, Lists, IInv
<1>3. Counters' /\ InSector'
  BY DEF EndOfEvent, EndOfTracks, EndOfHits, tracks, bank, Counters, InSector, IInv
<1>4. HitsFit'
  <2>1. Len(hit) \in Nat /\ Len(clusters) \in Nat /\ HitsFit
    BY DEF IInv, Lists
  <2>2. hit' = hit
    BY DEF EndOfEvent, EndOfTracks, EndOfHits
  <2>3. CASE EndOfTracks
    BY <2>1, <2>2, <2>3, Sizes DEF EndOfTracks, HitsFit
  <2>4. CASE EndOfEvent \/ EndOfHits
    BY <2>1, <2>2, <2>4, Sizes DEF EndOfEvent, EndOfHits, bank, HitsFit
  <2> QED
    BY <2>3, <2>4
<1>5. Flag'
  BY DEF EndOfEvent, EndOfTracks, EndOfHits, tracks, bank, Flag, IInv
<1> QED
  BY <1>1, <1>2, <1>3, <1>4, <1>5 DEF IInv

LEMMA StepInv == IInv /\ [Next]_vars => IInv'
<1> SUFFICES ASSUME IInv, [Next]_vars PROVE IInv'
  OBVIOUS
<1>1. CASE UNCHANGED vars
  BY <1>1 DEF vars, bank, tracks, IInv, Counters, Flag, Lists, Tracks, Places, HitsFit, InSector
<1> QED
  BY <1>1, ResetInv, EndInv, ReadInv, MergeInv, StoreInv, HitInv DEF Next

(* The tracks, the hits and the index stay within the arrays that setup()  *)
(* gave them, also when addTracks has reached the last of them.            *)
THEOREM TypeCorrect == Spec => []TypeOK
BY InitInv, StepInv, InvIsType, PTL DEF Spec

------------------------------------------------------------------------------
(* Every slot has a pair, also those beyond the tracks of this event.      *)
Pairs == reader = "collector" => \A k \in Slot : primaryTrack[k].pieces = globalTrack[k].pieces

LEMMA PairsStep ==
  ASSUME IInv, Pairs, [Next]_vars
  PROVE  Pairs'
<1>1. CASE MergeTrack
  <2> DEFINE new == Set(Head(todo))
             k == Fatter(new)
             add(array) == [array EXCEPT ![nGlobalTracks] = new]
             put(array) == [add(array) EXCEPT ![k] = Joined(@, new)]
  <2>1. new \in Track
    BY <1>1, HeadIsTrack DEF MergeTrack
  <2>2. k \in Slot
    BY <1>1, InvIsType, FatterIsSlot DEF MergeTrack
  <2>3. nGlobalTracks \in Slot
    BY SlotsBelow DEF IInv, Counters
  <2>4. /\ globalTrack' = put(globalTrack) /\ reader' = reader
        /\ reader = "collector" => primaryTrack' = put(primaryTrack)
    BY <1>1 DEF MergeTrack, PrimaryOf
  <2> DEFINE pieces(array, l) ==
               IF l = k THEN (IF k = nGlobalTracks THEN new ELSE array[k]).pieces \o new.pieces
               ELSE IF l = nGlobalTracks THEN new.pieces ELSE array[l].pieces
  <2>5. ASSUME NEW array \in [Slot -> Track]
        PROVE  \A l \in Slot : put(array)[l].pieces = pieces(array, l)
    <3> DEFINE one == add(array)
               two == put(array)
    <3>1. one = [array EXCEPT ![nGlobalTracks] = new] /\ two = [one EXCEPT ![k] = Joined(@, new)]
      OBVIOUS
    <3> HIDE DEF one, two, new, k
    <3>2. \A l \in Slot : one[l] \in Track /\ one[l] = IF l = nGlobalTracks THEN new ELSE array[l]
      BY <2>1, <2>3, <3>1
    <3>3. one \in [Slot -> Track]
      BY <2>1, <2>3, <3>1
    <3>4. Joined(one[k], new).pieces = one[k].pieces \o new.pieces
      BY <2>1, <2>2, <3>2, JoinedIsTrack
    <3>5. \A l \in Slot : two[l].pieces = pieces(array, l)
      BY <2>2, <3>1, <3>2, <3>3, <3>4
    <3> QED
      BY <3>5 DEF two
  <2> HIDE DEF new, k, put
  <2>6. globalTrack \in [Slot -> Track] /\ primaryTrack \in [Slot -> Track]
    BY DEF IInv, Tracks
  <2> QED
    BY <2>2, <2>4, <2>5, <2>6 DEF Pairs
<1>2. CASE StoreTrack
  <2> DEFINE new == Set(Head(todo))
  <2>1. nGlobalTracks \in Slot
    BY SlotsBelow DEF IInv, Counters
  <2>2. /\ globalTrack' = [globalTrack EXCEPT ![nGlobalTracks] = new] /\ reader' = reader
        /\ reader = "collector" => primaryTrack' = [primaryTrack EXCEPT ![nGlobalTracks] = new]
    BY <1>2 DEF StoreTrack
  <2> HIDE DEF new
  <2>3. globalTrack \in [Slot -> Track] /\ primaryTrack \in [Slot -> Track]
    BY DEF IInv, Tracks
  <2> QED
    BY <2>1, <2>2, <2>3 DEF Pairs
<1>3. CASE ReadHit
  <2>1. UNCHANGED <<reader, primaryTrack>>
    BY <1>3 DEF ReadHit
  <2> QED
    BY <1>3, <2>1, HitKeepsPieces DEF Pairs
<1>4. CASE UNCHANGED <<reader, globalTrack, primaryTrack>>
  BY <1>4 DEF Pairs
<1>5. ResetEvent \/ EndOfEvent \/ EndOfTracks \/ EndOfHits \/ (\E b \in Banks : ReadSectorTracks(b))
        \/ UNCHANGED vars => UNCHANGED <<reader, globalTrack, primaryTrack>>
  BY DEF ResetEvent, EndOfEvent, EndOfTracks, EndOfHits, ReadSectorTracks, vars, tracks, bank
<1> QED
  BY <1>1, <1>2, <1>3, <1>4, <1>5 DEF Next

(* A global track and the primary track of its number are made of the same *)
(* pieces, in whatever order the sectors brought and merged them           *)
(* (online_tracking_collector::addTracks).                                 *)
THEOREM PairsStay == Spec => []PairsTogether
<1>1. Init => Pairs
  BY DEF Init, Pairs
<1>2. IInv /\ Pairs => PairsTogether
  <2>1. IInv => Kept \subseteq Slot
    BY Sizes DEF IInv, Counters, Kept, Slot
  <2> QED
    BY <2>1 DEF Pairs, PairsTogether
<1>3. IInv /\ Pairs /\ [Next]_vars => IInv' /\ Pairs'
  BY StepInv, PairsStep
<1> QED
  BY <1>1, <1>2, <1>3, InitInv, PTL DEF Spec

------------------------------------------------------------------------------
(* A sequence has x; a piece that a sequence has once.                     *)
Has(s, x) == \E i \in 1..Len(s) : s[i] = x

LEMMA TimesIs ==
  ASSUME NEW T, NEW s \in Seq(T), NEW x
  PROVE  /\ Times(x, s) \in Nat
         /\ Times(x, s) > 0 <=> Has(s, x)
         /\ Has(s, x) /\ (\A i, j \in 1..Len(s) : s[i] = x /\ s[j] = x => i = j) => Times(x, s) = 1
<1> DEFINE at == {i \in 1..Len(s) : s[i] = x}
<1>1. Len(s) \in Nat /\ at \in SUBSET (1..Len(s)) /\ Times(x, s) = Cardinality(at)
  BY LenProperties DEF Times
<1>2. at # {} <=> Has(s, x)
  BY DEF Has
<1>3. ASSUME Has(s, x), \A i, j \in 1..Len(s) : s[i] = x /\ s[j] = x => i = j
      PROVE  \E i : at = {i}
  <2>1. PICK i \in 1..Len(s) : s[i] = x
    BY <1>3 DEF Has
  <2>2. at = {i}
    BY <1>3, <2>1
  <2> QED
    BY <2>2
<1> HIDE DEF at
<1>4. IsFiniteSet(at)
  <2>1. IsFiniteSet(1..Len(s))
    BY <1>1, FS_Interval
  <2> QED
    BY <1>1, <2>1, FS_Subset
<1>5. Cardinality(at) \in Nat /\ (Cardinality(at) = 0 <=> at = {})
  BY <1>4, FS_CardinalityType, FS_EmptySet
<1>6. \A i : at = {i} => Cardinality(at) = 1
  BY FS_Singleton
<1>7. Times(x, s) > 0 <=> Has(s, x)
  <2>1. Cardinality(at) > 0 <=> at # {}
    BY <1>5
  <2> QED
    BY <1>1, <1>2, <2>1, Zenon
<1> QED
  BY <1>1, <1>3, <1>5, <1>6, <1>7

(* The sequence r is s with x at its end.                                  *)
OneLonger(r, s, x) ==
  /\ Len(s) \in Nat /\ Len(r) = Len(s) + 1
  /\ \A i \in 1..Len(s) : i \in 1..Len(r) /\ r[i] = s[i]
  /\ Len(s) + 1 \in 1..Len(r) /\ r[Len(s) + 1] = x
  /\ \A i \in 1..Len(r) : i \in 1..Len(s) \/ i = Len(s) + 1
  /\ \A y : Has(r, y) <=> (Has(s, y) \/ y = x)

LEMMA AppendedIs ==
  ASSUME NEW T, NEW s \in Seq(T), NEW x \in T, NEW r, r = Append(s, x) \/ r = s \o <<x>>
  PROVE  r \in Seq(T) /\ OneLonger(r, s, x)
<1>1. Len(s) \in Nat
  BY LenProperties
<1>2. /\ r \in Seq(T) /\ Len(r) = Len(s) + 1 /\ r[Len(s) + 1] = x
      /\ \A i \in 1..Len(s) : r[i] = s[i]
  OBVIOUS
<1>3. \A i \in 1..(Len(s) + 1) : i \in 1..Len(s) \/ i = Len(s) + 1
  BY <1>1
<1>4. Len(s) + 1 \in 1..(Len(s) + 1) /\ \A i \in 1..Len(s) : i \in 1..(Len(s) + 1)
  BY <1>1
<1>5. \A y : Has(r, y) <=> (Has(s, y) \/ y = x)
  BY <1>2, <1>3, <1>4, Zenon DEF Has
<1>6. OneLonger(r, s, x)
  BY <1>1, <1>2, <1>3, <1>4, <1>5, Zenon DEF OneLonger
<1> QED
  BY <1>2, <1>6

(* Two numbers of two digits are equal if their digits are.                *)
LEMMA DigitsAreEqual ==
  ASSUME NEW B \in Nat, NEW s \in Nat, NEW t \in Nat, NEW i \in 0..B - 1, NEW j \in 0..B - 1,
         s * B + i = t * B + j
  PROVE  s = t /\ i = j
<1>1. ASSUME NEW u \in Nat, NEW v \in Nat, u < v PROVE v * B >= u * B + B
  <2>1. PICK d \in Nat : v = u + 1 + d
    <3>1. v - u - 1 \in Nat /\ v = u + 1 + (v - u - 1)
      BY <1>1
    <3> QED
      BY <3>1
  <2>2. v * B = u * B + B + d * B
    BY <2>1
  <2>3. d * B \in Nat
    OBVIOUS
  <2>4. u * B \in Nat
    OBVIOUS
  <2> QED
    BY <2>2, <2>3, <2>4
<1>2. s * B \in Nat /\ t * B \in Nat
  OBVIOUS
<1>3. ~(s < t) /\ ~(t < s)
  BY <1>1, <1>2
<1>4. s = t
  BY <1>3
<1> QED
  BY <1>2, <1>4

------------------------------------------------------------------------------
(* What is in the tracks.  When the array is full no track is counted any  *)
(* more; the slot beyond them is then named by the container and by the    *)
(* index, and before that it is not.                                       *)
OnFull == full => nGlobalTracks = MaxTracks - 2

Beyond(n) == n = nGlobalTracks => full

Container ==
  \A a \in Area : \A i \in 1..Len(trackContainer[a]) :
    trackContainer[a][i] <= nGlobalTracks /\ Beyond(trackContainer[a][i])

IndexPlaces == 0..NSectors * MaxTracksSector - 1

Indexed ==
  /\ HitProcessing = 0 => globalTrackIndex = NoIndex
  /\ \A n \in IndexPlaces :
       globalTrackIndex[n] - 1 <= nGlobalTracks /\ Beyond(globalTrackIndex[n] - 1)

(* The index names the holder, also that of the tracks of number 0.        *)
Held0(n, x) == n - 1 \in Kept => Has(globalTrack[n - 1].pieces, x)

IndexHolds ==
  \A s \in 1..NSectors, id \in 0..MaxTracksSector - 1 :
    Held0(globalTrackIndex[(s - 1) * MaxTracksSector + id], <<s, id>>)

(* No two tracks have a piece in common nor a track one twice; a piece in  *)
(* a track was read, and what was read is in one unless the array was full.*)
Distinct(g, I) ==
  \A k, l \in I : \A i \in 1..Len(g[k].pieces), j \in 1..Len(g[l].pieces) :
    g[k].pieces[i] = g[l].pieces[j] => k = l /\ i = j

WereRead == \A k \in Kept : \A i \in 1..Len(globalTrack[k].pieces) : Has(read, globalTrack[k].pieces[i])

AllKept ==
  ~full => /\ \A j \in 1..Len(read) : \E k \in Kept : Has(globalTrack[k].pieces, read[j])
           /\ nGlobalTracks + nMergedTracks = Len(read)

PiecesInv == Distinct(globalTrack, Kept) /\ WereRead /\ AllKept

(* The tracks that are left of the sector have not been read.              *)
IdsOf(q) == \A i, j \in 1..Len(q) : Abs(q[i].id) = Abs(q[j].id) => i = j

Fresh ==
  /\ \A j \in 1..Len(read) : read[j][1] <= sector
  /\ IdsOf(todo)
  /\ stage = "tracks" => \A i \in 1..Len(todo) : ~Has(read, <<sector, Abs(todo[i].id)>>)

MInv == OnFull /\ Container /\ Indexed /\ IndexHolds /\ PiecesInv /\ Fresh

LEMMA KeptIs ==
  ASSUME IInv
  PROVE  /\ nGlobalTracks \in Nat /\ nGlobalTracks \notin Kept
         /\ \A k \in Kept : k \in Nat /\ k \in Slot /\ k < nGlobalTracks
         /\ \A k \in Slot : k \in Kept <=> k < nGlobalTracks
BY Sizes DEF IInv, Counters, Kept, Slot

LEMMA PiecesAre ==
  ASSUME IInv
  PROVE  \A k \in Slot : globalTrack[k].pieces \in Seq(Piece) /\ globalTrack[k] \in Track
<1>1. globalTrack \in [Slot -> Track]
  BY DEF IInv, Tracks
<1> QED
  BY <1>1 DEF Track

LEMMA MInit == Init => MInv
<1> SUFFICES ASSUME Init PROVE MInv
  OBVIOUS
<1>1. Kept = {} /\ read = << >> /\ todo = << >> /\ nGlobalTracks = 0 /\ full = FALSE /\ nMergedTracks = 0
      /\ stage = "idle" /\ globalTrackIndex = NoIndex
  BY DEF Init, Kept
<1>2. \A n \in IndexPlaces : NoIndex[n] = 0
  BY DEF NoIndex, IndexPlaces
<1>3. 1..0 = {} /\ Len(<< >>) = 0
  OBVIOUS
<1>4. \A a \in Area : trackContainer[a] = << >>
  BY DEF Init
<1>5. Container
  BY <1>3, <1>4 DEF Container
<1>6. Indexed
  BY <1>1, <1>2 DEF Indexed, Beyond
<1>7. IndexHolds
  BY <1>1 DEF IndexHolds, Held0
<1>8. PiecesInv
  BY <1>1, <1>3 DEF PiecesInv, Distinct, WereRead, AllKept
<1>9. Fresh /\ OnFull
  BY <1>1, <1>3 DEF Fresh, OnFull, IdsOf
<1> QED
  BY <1>5, <1>6, <1>7, <1>8, <1>9 DEF MInv

------------------------------------------------------------------------------
(* The index.                                                              *)
LEMMA IndexPlace ==
  ASSUME NEW s \in 1..NSectors, NEW i \in 0..MaxTracksSector - 1
  PROVE  (s - 1) * MaxTracksSector + i \in IndexPlaces
<1>1. MaxTracksSector \in Nat /\ NSectors \in Nat /\ NSectors - s \in Nat /\ s - 1 \in Nat
  BY Sizes
<1>2. (NSectors - s) * MaxTracksSector \in Nat /\ (s - 1) * MaxTracksSector \in Nat
  BY <1>1
<1>3. NSectors * MaxTracksSector
        = (s - 1) * MaxTracksSector + MaxTracksSector + (NSectors - s) * MaxTracksSector
  BY <1>1
<1> DEFINE a == (s - 1) * MaxTracksSector
           b == (NSectors - s) * MaxTracksSector
           c == NSectors * MaxTracksSector
<1>4. c = a + MaxTracksSector + b /\ a \in Nat /\ b \in Nat
  BY <1>2, <1>3
<1> HIDE DEF a, b, c
<1>5. a + i \in 0..c - 1
  BY <1>1, <1>4
<1> QED
  BY <1>5 DEF a, c, IndexPlaces

LEMMA IndexIs ==
  ASSUME IInv, sector \in 1..NSectors, NEW t, t.id \in Int, NEW k, NEW r, r = Index(t, k)
  PROVE  /\ HitProcessing = 0 => r = globalTrackIndex
         /\ \A n \in IndexPlaces : \/ r[n] = globalTrackIndex[n]
                                   \/ /\ r[n] = k + 1 /\ Abs(t.id) \in 0..MaxTracksSector - 1
                                      /\ n = (sector - 1) * MaxTracksSector + Abs(t.id)
<1>1. DOMAIN globalTrackIndex = IndexPlaces
  BY DEF IInv, Places, IndexPlaces
<1>2. CASE IndexStore(t) > 0
  <2>1. HitProcessing > 0 /\ Abs(t.id) < MaxTracksSector
    BY <1>2 DEF IndexStore
  <2>2. Abs(t.id) \in 0..MaxTracksSector - 1
    BY <2>1, Sizes DEF Abs
  <2>3. IndexStore(t) = (sector - 1) * MaxTracksSector + Abs(t.id)
    BY <2>1 DEF IndexStore
  <2>4. r = [globalTrackIndex EXCEPT ![IndexStore(t)] = k + 1]
    BY <1>2 DEF Index
  <2> DEFINE p == IndexStore(t)
  <2>5. r = [globalTrackIndex EXCEPT ![p] = k + 1]
    BY <2>4
  <2> HIDE DEF p
  <2>6. \A n \in IndexPlaces : r[n] = IF n = p THEN k + 1 ELSE globalTrackIndex[n]
    BY <1>1, <2>5
  <2>7. ~(HitProcessing = 0)
    BY <2>1, Sizes
  <2> QED
    BY <2>2, <2>3, <2>6, <2>7 DEF p
<1>3. CASE ~(IndexStore(t) > 0)
  BY <1>3 DEF Index
<1> QED
  BY <1>2, <1>3

(* A track is put in slot k and indexed; the entries of others still name  *)
(* what they named.                                                        *)
LEMMA IndexStep ==
  ASSUME IInv, Indexed, IndexHolds, sector \in 1..NSectors, NEW t, t.id \in Int, NEW k \in Slot,
         globalTrackIndex' = Index(t, k),
         k <= nGlobalTracks', Beyond(k)',
         \A l \in Int : l <= nGlobalTracks /\ Beyond(l) => l <= nGlobalTracks' /\ Beyond(l)',
         k \in Kept' => Has(globalTrack'[k].pieces, <<sector, Abs(t.id)>>),
         \A l \in Kept' : l <= nGlobalTracks /\ Beyond(l) =>
           l \in Kept /\ \A x : Has(globalTrack[l].pieces, x) => Has(globalTrack'[l].pieces, x)
  PROVE  Indexed' /\ IndexHolds'
<1> DEFINE r == Index(t, k)
           Mine(n) == /\ r[n] = k + 1 /\ Abs(t.id) \in 0..MaxTracksSector - 1
                      /\ n = (sector - 1) * MaxTracksSector + Abs(t.id)
<1>1. /\ HitProcessing = 0 => r = globalTrackIndex
      /\ \A n \in IndexPlaces : r[n] = globalTrackIndex[n] \/ Mine(n)
  BY IndexIs
<1>2. k \in Int /\ k + 1 - 1 = k
  BY Sizes DEF Slot
<1>3. \A n \in IndexPlaces :
        /\ globalTrackIndex[n] - 1 \in Int
        /\ globalTrackIndex[n] - 1 <= nGlobalTracks /\ Beyond(globalTrackIndex[n] - 1)
  BY DEF Indexed, IInv, Places, IndexPlaces
<1>4. ASSUME NEW n \in IndexPlaces
      PROVE  r[n] - 1 <= nGlobalTracks' /\ (r[n] - 1 = nGlobalTracks' => full')
  <2>1. CASE r[n] = globalTrackIndex[n]
    <3>1. \A l \in Int : l <= nGlobalTracks /\ Beyond(l) => l <= nGlobalTracks' /\ Beyond(l)'
      OBVIOUS
    <3> DEFINE l == globalTrackIndex[n] - 1
    <3>2. l <= nGlobalTracks' /\ (l = nGlobalTracks' => full')
      BY <1>3, <3>1 DEF Beyond
    <3> QED
      BY <2>1, <3>2
  <2>2. CASE Mine(n)
    <3>1. r[n] - 1 = k
      BY <1>2, <2>2
    <3>2. k <= nGlobalTracks' /\ (k = nGlobalTracks' => full')
      BY DEF Beyond
    <3> QED
      BY <3>1, <3>2
  <2> QED
    BY <1>1, <2>1, <2>2
<1>5. Indexed'
  <2>1. NoIndex' = NoIndex /\ globalTrackIndex' = r
    BY DEF NoIndex
  <2> HIDE DEF r
  <2> QED
    BY <1>1, <1>4, <2>1 DEF Indexed, Beyond
<1>6. ASSUME NEW s \in 1..NSectors, NEW id \in 0..MaxTracksSector - 1,
             r[(s - 1) * MaxTracksSector + id] - 1 \in Kept'
      PROVE  Has(globalTrack'[r[(s - 1) * MaxTracksSector + id] - 1].pieces, <<s, id>>)
  <2> DEFINE n == (s - 1) * MaxTracksSector + id
  <2>1. n \in IndexPlaces
    BY IndexPlace
  <2>2. CASE r[n] = globalTrackIndex[n]
    <3> DEFINE l == globalTrackIndex[n] - 1
    <3>1. l \in Kept' /\ l <= nGlobalTracks /\ Beyond(l)
      BY <1>3, <1>6, <2>1, <2>2
    <3>2. l \in Kept => Has(globalTrack[l].pieces, <<s, id>>)
      BY DEF IndexHolds, Held0
    <3> HIDE DEF l, n
    <3>3. Has(globalTrack'[l].pieces, <<s, id>>)
      BY <3>1, <3>2
    <3> QED
      BY <2>2, <3>3 DEF l, n
  <2>3. CASE Mine(n)
    <3>1. r[n] - 1 = k
      BY <1>2, <2>3
    <3>2. s = sector /\ id = Abs(t.id)
      <4>1. s - 1 \in Nat /\ sector - 1 \in Nat /\ MaxTracksSector \in Nat
        BY Sizes
      <4>2. /\ Abs(t.id) \in 0..MaxTracksSector - 1
            /\ (s - 1) * MaxTracksSector + id = (sector - 1) * MaxTracksSector + Abs(t.id)
        BY <2>3
      <4>3. s - 1 = sector - 1 /\ id = Abs(t.id)
        BY <4>1, <4>2, DigitsAreEqual
      <4> QED
        BY <4>3
    <3>3. k \in Kept'
      BY <1>6, <3>1
    <3> HIDE DEF n
    <3> QED
      BY <3>1, <3>2, <3>3 DEF n
  <2> QED
    BY <1>1, <2>1, <2>2, <2>3
<1>7. IndexHolds'
  <2>1. globalTrackIndex' = r
    OBVIOUS
  <2> HIDE DEF r
  <2> QED
    BY <1>6, <2>1 DEF IndexHolds, Held0
<1> QED
  BY <1>5, <1>7

------------------------------------------------------------------------------
(* The tracks.  A piece that was not read before is put in a new track, or *)
(* at the end of one.                                                      *)
LEMMA OneMore ==
  ASSUME IInv, IInv', PiecesInv, NEW x \in Piece, ~Has(read, x), read' = Append(read, x), NEW k \in Kept',
         \A l \in Kept : l \in Kept', \A l \in Kept' : l # k => l \in Kept,
         \A l \in Kept : l # k => globalTrack'[l].pieces = globalTrack[l].pieces,
         globalTrack'[k].pieces = (IF k \in Kept THEN globalTrack[k].pieces ELSE << >>) \o <<x>>,
         full' = full, nGlobalTracks' + nMergedTracks' = nGlobalTracks + nMergedTracks + 1
  PROVE  PiecesInv'
<1> DEFINE old(l) == globalTrack[l].pieces
           new(l) == globalTrack'[l].pieces
           q == IF k \in Kept THEN old(k) ELSE << >>
<1>1. \A l \in Kept : old(l) \in Seq(Piece)
  BY KeptIs, PiecesAre
<1>2. /\ \A i \in 1..Len(read) : Has(read, read[i])
      /\ \A y : Has(read', y) <=> Has(read, y) \/ y = x
      /\ Len(read') = Len(read) + 1 /\ Len(read) \in Nat
      /\ \A i \in 1..Len(read) : read'[i] = read[i]
      /\ read'[Len(read) + 1] = x
      /\ \A i \in 1..Len(read') : i \in 1..Len(read) \/ i = Len(read) + 1
  <2>1. read \in Seq(Piece)
    BY DEF IInv, Lists
  <2>2. \A i \in 1..Len(read) : Has(read, read[i])
    BY Zenon DEF Has
  <2> DEFINE r == read'
  <2>3. r = Append(read, x)
    OBVIOUS
  <2> HIDE DEF r
  <2>4. OneLonger(r, read, x)
    BY <2>1, <2>3, AppendedIs
  <2> QED
    BY <2>2, <2>4 DEF r, OneLonger
<1>3. q \in Seq(Piece)
  BY <1>1, EmptySeq
<1>4. new(k) = q \o <<x>>
  OBVIOUS
<1>5. /\ Len(q) \in Nat /\ Len(new(k)) = Len(q) + 1
      /\ \A i \in 1..Len(q) : new(k)[i] = q[i]
      /\ new(k)[Len(q) + 1] = x
      /\ \A i \in 1..Len(new(k)) : i \in 1..Len(q) \/ i = Len(q) + 1
      /\ \A y : Has(new(k), y) <=> Has(q, y) \/ y = x
  <2> DEFINE r == new(k)
  <2>1. r = q \o <<x>>
    BY <1>4
  <2> HIDE DEF q, new, r
  <2>2. OneLonger(r, q, x)
    BY <1>3, <2>1, AppendedIs
  <2> QED
    BY <2>2 DEF r, OneLonger
<1>6. \A i \in 1..Len(q) : k \in Kept /\ i \in 1..Len(old(k)) /\ q[i] = old(k)[i]
  <2>1. 1..Len(<< >>) = {}
    OBVIOUS
  <2> QED
    BY <2>1
<1>7. \A l \in Kept' : l # k => l \in Kept /\ new(l) = old(l)
  OBVIOUS
<1>8. \A l \in Kept : \A y : Has(old(l), y) => Has(new(l), y)
  <2> SUFFICES ASSUME NEW l \in Kept, NEW y, Has(old(l), y) PROVE Has(new(l), y)
    OBVIOUS
  <2>1. CASE l = k
    BY <1>5, <2>1
  <2>2. CASE l # k
    BY <2>2
  <2> QED
    BY <2>1, <2>2
<1> DEFINE Mine(l, i) == l = k /\ i = Len(q) + 1
           Old(l, i) == l \in Kept /\ i \in 1..Len(old(l)) /\ new(l)[i] = old(l)[i]
<1>9. ASSUME NEW l \in Kept', NEW i \in 1..Len(new(l))
      PROVE  (Mine(l, i) /\ new(l)[i] = x) \/ Old(l, i)
  <2>1. CASE l = k
    <3>1. i \in 1..Len(new(k))
      BY <2>1
    <3> HIDE DEF q, new, old
    <3> QED
      BY <1>5, <1>6, <2>1, <3>1
  <2>2. CASE l # k
    BY <1>7, <2>2
  <2> QED
    BY <2>1, <2>2
<1>10. ASSUME NEW l, NEW i, Old(l, i) PROVE Has(read, new(l)[i]) /\ new(l)[i] # x
  BY <1>10 DEF PiecesInv, WereRead
<1> HIDE DEF q
<1>11. Distinct(globalTrack', Kept')
  <2> SUFFICES ASSUME NEW l \in Kept', NEW m \in Kept', NEW i \in 1..Len(new(l)), NEW j \in 1..Len(new(m)),
                      new(l)[i] = new(m)[j]
               PROVE  l = m /\ i = j
    BY DEF Distinct
  <2>1. CASE Old(l, i) /\ Old(m, j)
    <3>1. /\ l \in Kept /\ m \in Kept /\ i \in 1..Len(old(l)) /\ j \in 1..Len(old(m))
          /\ old(l)[i] = old(m)[j]
      BY <2>1
    <3>2. Distinct(globalTrack, Kept)
      BY DEF PiecesInv
    <3> HIDE DEF new, Old
    <3> QED
      BY <3>1, <3>2 DEF Distinct
  <2> HIDE DEF new, Old
  <2>2. CASE ~Old(l, i)
    BY <1>9, <1>10, <2>2
  <2>3. CASE ~Old(m, j)
    BY <1>9, <1>10, <2>3
  <2> QED
    BY <2>1, <2>2, <2>3
<1>12. WereRead'
  <2> SUFFICES ASSUME NEW l \in Kept', NEW i \in 1..Len(new(l)) PROVE Has(read', new(l)[i])
    BY DEF WereRead
  <2> HIDE DEF new, Old
  <2> QED
    BY <1>2, <1>9, <1>10
<1>13. ASSUME ~full PROVE /\ \A j \in 1..Len(read') : \E l \in Kept' : Has(new(l), read'[j])
                          /\ nGlobalTracks' + nMergedTracks' = Len(read')
  <2>1. nGlobalTracks + nMergedTracks = Len(read)
    BY <1>13 DEF PiecesInv, AllKept
  <2>2. \A j \in 1..Len(read) : \E l \in Kept : Has(old(l), read[j])
    BY <1>13 DEF PiecesInv, AllKept
  <2>3. Has(new(k), x)
    BY <1>5
  <2> HIDE DEF new, old
  <2>4. ASSUME NEW j \in 1..Len(read') PROVE \E l \in Kept' : Has(new(l), read'[j])
    <3>1. CASE j \in 1..Len(read)
      BY <1>2, <1>8, <2>2, <3>1
    <3>2. CASE j = Len(read) + 1
      BY <1>2, <2>3, <3>2
    <3> QED
      BY <1>2, <3>1, <3>2
  <2> QED
    BY <1>2, <2>1, <2>4
<1>14. AllKept'
  BY <1>13 DEF AllKept
<1> QED
  BY <1>11, <1>12, <1>14 DEF PiecesInv

(* A piece that finds the array full.                                      *)
LEMMA Dropped ==
  ASSUME IInv, PiecesInv, NEW x \in Piece, read' = Append(read, x), Kept' = Kept, full',
         \A l \in Kept : globalTrack'[l].pieces = globalTrack[l].pieces
  PROVE  PiecesInv'
<1>1. \A y : Has(read, y) => Has(read', y)
  <2>1. read \in Seq(Piece)
    BY DEF IInv, Lists
  <2> QED
    BY <2>1, AppendedIs DEF OneLonger
<1>2. Distinct(globalTrack', Kept')
  BY DEF PiecesInv, Distinct
<1>3. WereRead'
  BY <1>1 DEF PiecesInv, WereRead
<1>4. AllKept'
  BY DEF AllKept
<1> QED
  BY <1>2, <1>3, <1>4 DEF PiecesInv

------------------------------------------------------------------------------
(* The piece of the track at the head: it has not been read.               *)
PieceOf(t) == <<sector, Abs(t.id)>>

LEMMA HeadIsFresh ==
  ASSUME IInv, Fresh, stage = "tracks", todo # <<>>
  PROVE  /\ sector \in 1..NSectors /\ Head(todo) \in LocalTrack /\ Head(todo).id \in Int
         /\ PieceOf(Head(todo)) \in Piece /\ ~Has(read, PieceOf(Head(todo)))
         /\ Set(Head(todo)) \in Track
         /\ Set(Head(todo)).pieces = <<PieceOf(Head(todo))>>
         /\ Set(Head(todo)).pieces[1] = PieceOf(Head(todo))
<1> DEFINE t == Head(todo)
<1>1. sector \in 1..NSectors /\ todo \in Seq(LocalTrack)
  BY DEF IInv, InSector, Lists
<1>2. t \in LocalTrack /\ 1 \in 1..Len(todo) /\ todo[1] = t
  BY <1>1
<1>3. ~Has(read, PieceOf(t))
  BY <1>2 DEF Fresh, PieceOf
<1> HIDE DEF t
<1>4. t.id \in Int
  BY <1>2 DEF LocalTrack
<1>5. Set(t) \in Track /\ Set(t).pieces = <<PieceOf(t)>> /\ PieceOf(t) \in Piece
  BY <1>1, <1>2, SetIsTrack DEF PieceOf
<1>6. Set(t).pieces[1] = PieceOf(t)
  BY <1>5
<1> QED
  BY <1>1, <1>2, <1>3, <1>4, <1>5, <1>6 DEF t

LEMMA FreshStep ==
  ASSUME IInv, Fresh, stage = "tracks", todo # <<>>, read' = Append(read, PieceOf(Head(todo))),
         todo' = Tail(todo) \/ todo' = << >>, sector' = sector, stage' = stage
  PROVE  Fresh'
<1> DEFINE x == PieceOf(Head(todo))
           r == read'
           q == todo'
<1>1. todo \in Seq(LocalTrack) /\ Len(todo) \in Nat /\ read \in Seq(Piece) /\ sector \in 0..NSectors
  BY DEF IInv, Lists, Counters
<1>2. x \in Piece /\ x[1] = sector /\ r = Append(read, x)
  BY HeadIsFresh DEF PieceOf
<1>3. \A i \in 1..Len(q) : i + 1 \in 1..Len(todo) /\ q[i] = todo[i + 1]
  <2>1. CASE todo' = Tail(todo)
    <3>1. Len(q) = Len(todo) - 1 /\ \A i \in 1..Len(q) : q[i] = todo[i + 1]
      BY <1>1, <2>1
    <3> HIDE DEF q
    <3> QED
      BY <1>1, <3>1
  <2>2. CASE todo' = << >>
    <3>1. 1..Len(q) = {}
      BY <2>2
    <3> QED
      BY <3>1
  <2> QED
    BY <2>1, <2>2
<1> HIDE DEF r, q
<1>4. OneLonger(r, read, x)
  <2> HIDE DEF x
  <2> QED
    BY <1>1, <1>2, AppendedIs
<1>5. \A j \in 1..Len(r) : r[j][1] <= sector
  <2> HIDE DEF x
  <2> QED
    BY <1>1, <1>2, <1>4 DEF OneLonger, Fresh
<1>6. IdsOf(q)
  <2> SUFFICES ASSUME NEW i \in 1..Len(q), NEW j \in 1..Len(q), Abs(q[i].id) = Abs(q[j].id) PROVE i = j
    BY DEF IdsOf
  <2>1. /\ i + 1 \in 1..Len(todo) /\ q[i] = todo[i + 1]
        /\ j + 1 \in 1..Len(todo) /\ q[j] = todo[j + 1]
    BY <1>3
  <2>2. i + 1 = j + 1
    BY <2>1 DEF Fresh, IdsOf
  <2> QED
    BY <2>2
<1>7. ASSUME NEW i \in 1..Len(q) PROVE ~Has(r, <<sector, Abs(q[i].id)>>)
  <2>1. i + 1 \in 1..Len(todo) /\ q[i] = todo[i + 1]
    BY <1>3
  <2>2. ~Has(read, <<sector, Abs(q[i].id)>>)
    BY <2>1 DEF Fresh
  <2>3. 1 \in 1..Len(todo) /\ Head(todo) = todo[1] /\ i + 1 # 1
    BY <1>1
  <2>4. Abs(q[i].id) # Abs(Head(todo).id)
    BY <2>1, <2>3 DEF Fresh, IdsOf
  <2>5. <<sector, Abs(q[i].id)>> # x
    BY <2>4 DEF PieceOf
  <2> HIDE DEF x
  <2> QED
    BY <1>4, <2>2, <2>5 DEF OneLonger
<1> QED
  BY <1>5, <1>6, <1>7 DEF Fresh, r, q

(* What the container lists after a track was appended to one area.        *)
LEMMA ListedBelow ==
  ASSUME IInv, Container, NEW t \in LocalTrack,
         trackContainer' = trackContainer
           \/ trackContainer' = [trackContainer EXCEPT ![<<t.phi, t.eta>>] = Append(@, nGlobalTracks)],
         NEW b \in Area, NEW i \in 1..Len(trackContainer'[b])
  PROVE  trackContainer'[b][i] \in Int /\ trackContainer'[b][i] <= nGlobalTracks
<1> DEFINE a == <<t.phi, t.eta>>
           s == trackContainer[b]
           r == trackContainer'[b]
<1>1. trackContainer \in [Area -> Seq(Slot)] /\ nGlobalTracks \in Slot /\ nGlobalTracks \in Nat
  BY SlotsBelow DEF IInv, Places, Counters
<1>2. \A k \in Slot : k \in Int
  BY Sizes DEF Slot
<1>3. s \in Seq(Slot) /\ \A j \in 1..Len(s) : s[j] \in Slot /\ s[j] <= nGlobalTracks
  BY <1>1, ElementOfSeq DEF Container
<1>4. r = s \/ r = Append(s, nGlobalTracks)
  BY <1>1
<1> HIDE DEF s, r
<1>5. CASE r = s
  BY <1>2, <1>3, <1>5 DEF r
<1>6. CASE r = Append(s, nGlobalTracks)
  <2>1. OneLonger(r, s, nGlobalTracks)
    BY <1>1, <1>3, <1>6, AppendedIs
  <2>2. i \in 1..Len(r)
    BY DEF r
  <2>3. r[i] = nGlobalTracks \/ (i \in 1..Len(s) /\ r[i] = s[i])
    BY <2>1, <2>2 DEF OneLonger
  <2>4. r[i] \in Int /\ r[i] <= nGlobalTracks
    <3>1. nGlobalTracks \in Int /\ nGlobalTracks <= nGlobalTracks
      BY <1>1
    <3>2. \A j \in 1..Len(s) : s[j] \in Int /\ s[j] <= nGlobalTracks
      BY <1>2, <1>3
    <3> QED
      BY <2>3, <3>1, <3>2
  <2> QED
    BY <2>4 DEF r
<1> QED
  BY <1>4, <1>5, <1>6

(* A track that is stored in a slot of its own.                            *)
LEMMA StoreStep ==
  ASSUME IInv, MInv, StoreTrack
  PROVE  MInv'
<1> DEFINE t == Head(todo)
           x == PieceOf(t)
           a == <<t.phi, t.eta>>
<1>0. PICK n \in Slot : n = nGlobalTracks
  BY SlotsBelow DEF IInv, Counters
<1>1. /\ stage = "tracks" /\ todo # << >> /\ stage' = stage /\ sector' = sector
      /\ nMergedTracks' = nMergedTracks
      /\ globalTrack' = [globalTrack EXCEPT ![n] = Set(t)]
      /\ trackContainer' = trackContainer
           \/ trackContainer' = [trackContainer EXCEPT ![a] = Append(@, n)]
      /\ globalTrackIndex' = Index(t, n)
      /\ read' = Append(read, Set(t).pieces[1])
      /\ nGlobalTracks' = IF Full(n + 1) THEN n ELSE n + 1
      /\ full' = (full \/ Full(n + 1))
      /\ todo' = IF Full(n + 1) THEN <<>> ELSE Tail(todo)
  BY <1>0 DEF StoreTrack
<1>2. /\ sector \in 1..NSectors /\ t \in LocalTrack /\ t.id \in Int /\ x \in Piece /\ ~Has(read, x)
      /\ Set(t) \in Track /\ Set(t).pieces = <<x>> /\ Set(t).pieces[1] = x
  BY <1>1, HeadIsFresh DEF MInv
<1>3. IInv'
  BY StoreInv
<1>4. n \in Slot /\ n \in Nat /\ n <= MaxTracks - 2 /\ n \notin Kept /\ MaxTracks \in Nat
  BY <1>0, Sizes DEF IInv, Counters, Kept
<1>5. globalTrack \in [Slot -> Track]
  BY DEF IInv, Tracks
<1>6. globalTrack'[n] = Set(t) /\ \A l \in Slot : l # n => globalTrack'[l] = globalTrack[l]
  BY <1>1, <1>4, <1>5
<1>7. \A l \in Kept : l \in Slot /\ l # n /\ globalTrack'[l].pieces = globalTrack[l].pieces
  BY <1>4, <1>6, KeptIs
<1>8. Fresh'
  <2>1. Fresh
    BY DEF MInv
  <2> QED
    BY <1>1, <1>2, <2>1, FreshStep
<1>9. CASE ~Full(n + 1)
  <2>0. ~full
    BY <1>0, <1>4, <1>9 DEF MInv, OnFull, Full
  <2>10. full' = full
    <3>1. full \in BOOLEAN
      BY DEF IInv, Flag
    <3> QED
      BY <1>1, <1>9, <3>1, Zenon
  <2>1. nGlobalTracks' = n + 1 /\ full' = full /\ ~full
    BY <1>1, <1>9, <2>0, <2>10
  <2>2. \A l \in Int : l \in Kept' <=> l \in Kept \/ l = n
    BY <1>0, <1>4, <2>1 DEF Kept
  <2>3. n \in Kept' /\ \A l \in Kept' : l # n => l \in Kept
    BY <1>4, <2>2 DEF Kept
  <2>4. globalTrack'[n].pieces = << >> \o <<x>>
    BY <1>2, <1>6
  <2> HIDE DEF x
  <2>5. PiecesInv'
    <3>1. PiecesInv
      BY DEF MInv
    <3>2. globalTrack'[n].pieces = (IF n \in Kept THEN globalTrack[n].pieces ELSE << >>) \o <<x>>
      BY <1>4, <2>4
    <3>3. read' = Append(read, x)
      BY <1>1, <1>2
    <3>4. \A l \in Kept : l \in Kept'
      BY <2>2 DEF Kept
    <3>5. nGlobalTracks' + nMergedTracks' = nGlobalTracks + nMergedTracks + 1
      BY <1>0, <1>1, <1>4, <2>1 DEF IInv, Counters
    <3>6. \A l \in Kept : l # n => globalTrack'[l].pieces = globalTrack[l].pieces
      BY <1>7
    <3> QED
      BY <1>2, <1>3, <2>1, <2>3, <3>1, <3>2, <3>3, <3>4, <3>5, <3>6, OneMore
  <2>6. \A l \in Int : l <= nGlobalTracks => l <= nGlobalTracks' /\ Beyond(l)'
    BY <1>0, <1>4, <2>1 DEF Beyond
  <2>7. Indexed' /\ IndexHolds'
    <3>1. Has(globalTrack'[n].pieces, x)
      <4>1. Len(<<x>>) = 1 /\ <<x>>[1] = x
        OBVIOUS
      <4> QED
        BY <1>2, <1>6, <4>1 DEF Has
    <3>2. \A l \in Kept' : l <= n /\ Beyond(l) =>
            l \in Kept /\ \A y : Has(globalTrack[l].pieces, y) => Has(globalTrack'[l].pieces, y)
      BY <1>0, <1>7, <2>1, <2>3 DEF Beyond
    <3>3. n <= nGlobalTracks' /\ Beyond(n)'
      BY <1>0, <1>4, <2>6
    <3>4. globalTrackIndex' = Index(t, n)
      BY <1>1
    <3>5. Indexed /\ IndexHolds
      BY DEF MInv
    <3> QED
      BY <1>0, <1>2, <1>4, <2>6, <3>1, <3>2, <3>3, <3>4, <3>5, IndexStep DEF x, PieceOf
  <2>8. Container'
    <3> SUFFICES ASSUME NEW b \in Area, NEW i \in 1..Len(trackContainer'[b])
                 PROVE  trackContainer'[b][i] \in Int /\ trackContainer'[b][i] <= nGlobalTracks
      BY <2>6 DEF Container
    <3> QED
      BY <1>0, <1>1, <1>2, ListedBelow DEF MInv
  <2>9. OnFull'
    BY <2>1 DEF OnFull
  <2> QED
    BY <1>8, <2>5, <2>7, <2>8, <2>9 DEF MInv
<1>10. CASE Full(n + 1)
  <2>0. full'
    BY <1>1, <1>10, Zenon
  <2>10. n = MaxTracks - 2
    BY <1>4, <1>10 DEF Full
  <2>1. nGlobalTracks' = n /\ full' /\ Kept' = Kept /\ n = MaxTracks - 2
    BY <1>0, <1>1, <1>10, <2>0, <2>10 DEF Kept
  <2> HIDE DEF x
  <2>2. PiecesInv'
    BY <1>1, <1>2, <1>7, <2>1, Dropped DEF MInv
  <2>3. \A l \in Int : l <= nGlobalTracks => l <= nGlobalTracks' /\ Beyond(l)'
    BY <1>0, <2>1 DEF Beyond
  <2>4. Indexed' /\ IndexHolds'
    <3>1. n \notin Kept'
      BY <1>4, <2>1
    <3>2. \A l \in Kept' : l <= n /\ Beyond(l) =>
            l \in Kept /\ \A y : Has(globalTrack[l].pieces, y) => Has(globalTrack'[l].pieces, y)
      BY <1>7, <2>1
    <3>3. n <= nGlobalTracks' /\ Beyond(n)'
      BY <1>0, <1>4, <2>3
    <3>4. globalTrackIndex' = Index(t, n)
      BY <1>1
    <3>5. Indexed /\ IndexHolds
      BY DEF MInv
    <3> QED
      BY <1>0, <1>2, <1>4, <2>3, <3>1, <3>2, <3>3, <3>4, <3>5, IndexStep
  <2>5. Container'
    <3> SUFFICES ASSUME NEW b \in Area, NEW i \in 1..Len(trackContainer'[b])
                 PROVE  trackContainer'[b][i] \in Int /\ trackContainer'[b][i] <= nGlobalTracks
      BY <2>3 DEF Container
    <3> QED
      BY <1>0, <1>1, <1>2, ListedBelow DEF MInv
  <2>6. OnFull'
    BY <2>1 DEF OnFull
  <2> QED
    BY <1>8, <2>2, <2>4, <2>5, <2>6 DEF MInv
<1> QED
  BY <1>9, <1>10

(* A track that is merged with one that was there before, or with itself:  *)
(* then the array was full.                                                *)
LEMMA MergeStep ==
  ASSUME IInv, MInv, MergeTrack
  PROVE  MInv'
<1> DEFINE t == Head(todo)
           new == Set(t)
           x == PieceOf(t)
<1>0. stage = "tracks" /\ todo # << >> /\ Matches(new) # {}
  BY DEF MergeTrack
<1>1. /\ sector \in 1..NSectors /\ t.id \in Int /\ x \in Piece /\ ~Has(read, x)
      /\ new \in Track /\ new.pieces = <<x>> /\ new.pieces[1] = x
  BY <1>0, HeadIsFresh DEF MInv
<1>2. PICK k \in Slot : k = Fatter(new)
  BY <1>0, InvIsType, FatterIsSlot
<1>3. PICK n \in Slot : n = nGlobalTracks
  BY SlotsBelow DEF IInv, Counters
<1> DEFINE one == [globalTrack EXCEPT ![n] = new]
<1>4. /\ stage' = stage /\ sector' = sector
      /\ nMergedTracks' = nMergedTracks + 1 /\ nGlobalTracks' = nGlobalTracks /\ full' = full
      /\ trackContainer' = trackContainer
      /\ globalTrack' = [one EXCEPT ![k] = Joined(@, new)]
      /\ globalTrackIndex' = Index(t, k)
      /\ read' = Append(read, new.pieces[1])
      /\ todo' = Tail(todo)
  BY <1>2, <1>3 DEF MergeTrack, IndexOf
<1>5. Kept' = Kept
  BY <1>4 DEF Kept
<1>6. IInv'
  BY MergeInv
<1>7. globalTrack \in [Slot -> Track]
  BY DEF IInv, Tracks
<1>8. k <= nGlobalTracks /\ Beyond(k)
  <2>1. \E a \in Area : \E i \in 1..Len(trackContainer[a]) : Fatter(new) = trackContainer[a][i]
    <3> HIDE DEF new
    <3> QED
      BY <1>0, InvIsType, FatterIsListed
  <2>2. Container
    BY DEF MInv
  <2> HIDE DEF new
  <2> QED
    BY <1>2, <2>1, <2>2 DEF Container
<1>9. Fresh'
  <2>1. Fresh
    BY DEF MInv
  <2> QED
    BY <1>0, <1>1, <1>4, <2>1, FreshStep
<1> HIDE DEF new, x
<1>10. \A l \in Slot :
         globalTrack'[l].pieces = IF l = k THEN (IF k = n THEN new ELSE globalTrack[k]).pieces \o new.pieces
                                  ELSE IF l = n THEN new.pieces ELSE globalTrack[l].pieces
  <2> DEFINE put == globalTrack'
  <2>1. one = [globalTrack EXCEPT ![n] = new] /\ put = [one EXCEPT ![k] = Joined(@, new)]
    BY <1>4
  <2> HIDE DEF one, put
  <2>2. \A l \in Slot :
          put[l].pieces = IF l = k THEN (IF k = n THEN new ELSE globalTrack[k]).pieces \o new.pieces
                          ELSE IF l = n THEN new.pieces ELSE globalTrack[l].pieces
    <3>1. one \in [Slot -> Track] /\ \A l \in Slot : one[l] = IF l = n THEN new ELSE globalTrack[l]
      BY <1>1, <1>7, <2>1
    <3>2. Joined(one[k], new) \in Track /\ Joined(one[k], new).pieces = one[k].pieces \o new.pieces
      BY <1>1, <3>1, JoinedIsTrack
    <3>3. put[k] = Joined(one[k], new) /\ \A l \in Slot : l # k => put[l] = one[l]
      BY <2>1, <3>1
    <3> QED
      BY <3>1, <3>2, <3>3
  <2> QED
    BY <2>2 DEF put
<1>11. \A l \in Kept : l \in Slot /\ l # n
  BY <1>3, KeptIs
<1>12. \A l \in Kept : l # k => globalTrack'[l].pieces = globalTrack[l].pieces
  BY <1>10, <1>11
<1>13. k \in Kept \/ k = n
  <2>1. k \in Int /\ nGlobalTracks \in Int
    BY Sizes, KeptIs DEF Slot
  <2>2. k < nGlobalTracks => k \in Kept
    BY KeptIs
  <2> QED
    BY <1>3, <1>8, <2>1, <2>2
<1>14. k \in Kept => globalTrack'[k].pieces = globalTrack[k].pieces \o <<x>>
  BY <1>1, <1>10, <1>11
<1>15. read' = Append(read, x)
  BY <1>1, <1>4
<1>16. PiecesInv'
  <2>1. CASE k \in Kept
    <3>1. k \in Kept' /\ (\A l \in Kept : l \in Kept') /\ \A l \in Kept' : l # k => l \in Kept
      BY <1>5, <2>1
    <3>2. globalTrack'[k].pieces = (IF k \in Kept THEN globalTrack[k].pieces ELSE << >>) \o <<x>>
      BY <1>14, <2>1
    <3>3. nGlobalTracks' + nMergedTracks' = nGlobalTracks + nMergedTracks + 1
      BY <1>4 DEF IInv, Counters
    <3>4. PiecesInv /\ full' = full
      BY <1>4 DEF MInv
    <3> QED
      BY <1>1, <1>6, <1>12, <1>15, <3>1, <3>2, <3>3, <3>4, OneMore
  <2>2. CASE k = n
    <3>1. full'
      BY <1>3, <1>4, <1>8, <2>2 DEF Beyond
    <3>2. \A l \in Kept : globalTrack'[l].pieces = globalTrack[l].pieces
      BY <1>11, <1>12, <2>2
    <3>3. PiecesInv
      BY DEF MInv
    <3> QED
      BY <1>1, <1>5, <1>15, <3>1, <3>2, <3>3, Dropped
  <2> QED
    BY <1>13, <2>1, <2>2
<1>17. \A l \in Int : l <= nGlobalTracks /\ Beyond(l) => l <= nGlobalTracks' /\ Beyond(l)'
  BY <1>4 DEF Beyond
<1>18. Indexed' /\ IndexHolds'
  <2>1. ASSUME k \in Kept
        PROVE  /\ Has(globalTrack'[k].pieces, x)
               /\ \A y : Has(globalTrack[k].pieces, y) => Has(globalTrack'[k].pieces, y)
    <3> DEFINE s == globalTrack[k].pieces
               r == globalTrack'[k].pieces
    <3>1. s \in Seq(Piece) /\ r = s \o <<x>>
      BY <1>14, <2>1, PiecesAre
    <3> HIDE DEF s, r
    <3>2. OneLonger(r, s, x)
      BY <1>1, <3>1, AppendedIs
    <3>3. Has(r, x) /\ \A y : Has(s, y) => Has(r, y)
      BY <3>2 DEF OneLonger
    <3> QED
      BY <3>3 DEF s, r
  <2>2. k \in Kept' => Has(globalTrack'[k].pieces, PieceOf(t))
    BY <1>5, <2>1 DEF x
  <2>3. \A l \in Kept' : l <= nGlobalTracks /\ Beyond(l) =>
          l \in Kept /\ \A y : Has(globalTrack[l].pieces, y) => Has(globalTrack'[l].pieces, y)
    BY <1>5, <1>12, <2>1
  <2>4. k <= nGlobalTracks' /\ Beyond(k)'
    BY <1>4, <1>8 DEF Beyond
  <2>5. Indexed /\ IndexHolds /\ globalTrackIndex' = Index(t, k)
    BY <1>4 DEF MInv
  <2> HIDE DEF t
  <2> QED
    BY <1>1, <1>17, <2>2, <2>3, <2>4, <2>5, IndexStep DEF PieceOf
<1>19. Container'
  <2> QED
    BY <1>4 DEF MInv, Container, Beyond
<1>20. OnFull'
  BY <1>4 DEF MInv, OnFull
<1> QED
  BY <1>9, <1>16, <1>18, <1>19, <1>20 DEF MInv

(* A new event: no track is left, and with hits no place of the index.     *)
LEMMA ResetStep ==
  ASSUME IInv, MInv, ResetEvent
  PROVE  MInv'
<1>1. /\ nGlobalTracks' = 0 /\ nMergedTracks' = 0 /\ full' = FALSE /\ read' = << >> /\ todo' = todo
      /\ stage' = "sectors"
      /\ trackContainer' = [a \in Area |-> << >>]
      /\ globalTrackIndex' = IF HitProcessing > 0 THEN NoIndex ELSE globalTrackIndex
  BY DEF ResetEvent, ResetContainer, ResetIndex
<1>2. Kept' = {} /\ 1..Len(<< >>) = {} /\ Len(<< >>) = 0
  BY <1>1 DEF Kept
<1>3. \A a \in Area : trackContainer'[a] = << >>
  BY <1>1
<1>4. Container'
  BY <1>2, <1>3 DEF Container
<1>5. globalTrackIndex' = NoIndex
  <2>1. HitProcessing > 0 \/ HitProcessing = 0
    BY Sizes
  <2>2. HitProcessing = 0 => globalTrackIndex = NoIndex
    BY DEF MInv, Indexed
  <2> QED
    BY <1>1, <2>1, <2>2
<1>6. Indexed'
  <2>1. NoIndex' = NoIndex /\ \A n \in IndexPlaces : NoIndex[n] = 0
    BY DEF NoIndex, IndexPlaces
  <2> QED
    BY <1>1, <1>5, <2>1 DEF Indexed, Beyond
<1>7. IndexHolds'
  BY <1>2 DEF IndexHolds, Held0
<1>8. PiecesInv'
  BY <1>1, <1>2 DEF PiecesInv, Distinct, WereRead, AllKept
<1>9. Fresh' /\ OnFull'
  BY <1>1, <1>2 DEF MInv, Fresh, OnFull
<1> QED
  BY <1>4, <1>6, <1>7, <1>8, <1>9 DEF MInv

(* What leaves the tracks, their pieces and the index alone.               *)
LEMMA SameStep ==
  ASSUME IInv, MInv, UNCHANGED <<nGlobalTracks, nMergedTracks, full, read, trackContainer, globalTrackIndex>>,
         \A k \in Slot : globalTrack'[k].pieces = globalTrack[k].pieces,
         Fresh'
  PROVE  MInv'
<1>1. Kept' = Kept /\ \A k \in Kept : globalTrack'[k].pieces = globalTrack[k].pieces
  BY KeptIs DEF Kept
<1>2. Container' /\ Indexed' /\ OnFull'
  <2>1. NoIndex' = NoIndex
    BY DEF NoIndex
  <2> QED
    BY <2>1 DEF MInv, Container, Indexed, Beyond, OnFull
<1>3. IndexHolds'
  <2>1. \A n, x : Held0(n, x) => Held0(n, x)'
    BY <1>1 DEF Held0
  <2> QED
    BY <2>1 DEF MInv, IndexHolds
<1>4. PiecesInv'
  BY <1>1 DEF MInv, PiecesInv, Distinct, WereRead, AllKept
<1> QED
  BY <1>2, <1>3, <1>4 DEF MInv

(* A sector is read once in an event: what it brings is new.               *)
LEMMA ReadStep ==
  ASSUME IInv, MInv, NEW b \in Banks, ReadSectorTracks(b)
  PROVE  MInv'
<1>1. /\ sector < b.sector /\ sector' = b.sector /\ todo' = b.tracks /\ read' = read
      /\ UNCHANGED <<globalTrack, nGlobalTracks, nMergedTracks, full, read, trackContainer, globalTrackIndex>>
  BY DEF ReadSectorTracks, tracks
<1>2. sector \in Int /\ b.sector \in Int /\ read \in Seq(Piece)
  BY MergeAssumption DEF IInv, Counters, Lists, Bank
<1>3. \A j \in 1..Len(read) : read[j][1] <= sector /\ read[j][1] \in Int
  <2>1. \A j \in 1..Len(read) : read[j] \in Piece
    BY <1>2, ElementOfSeq
  <2> QED
    BY <2>1 DEF MInv, Fresh, Piece
<1>4. \A j \in 1..Len(read) : read[j][1] < b.sector
  BY <1>1, <1>2, <1>3
<1>5. \A y : ~Has(read, <<b.sector, y>>)
  <2> SUFFICES ASSUME NEW y, NEW j \in 1..Len(read), read[j] = <<b.sector, y>> PROVE FALSE
    BY DEF Has
  <2>1. read[j][1] = b.sector
    OBVIOUS
  <2> QED
    BY <1>2, <1>3, <1>4, <2>1
<1>6. IdsOf(b.tracks)
  BY MergeAssumption DEF IdsOf
<1>7. Fresh'
  <2>1. \A j \in 1..Len(read) : read[j][1] <= b.sector
    BY <1>2, <1>3, <1>4
  <2> QED
    BY <1>1, <1>5, <1>6, <2>1 DEF Fresh
<1> QED
  BY <1>1, <1>7, SameStep

(* The ends of an event, of the tracks and of the hits of a sector.        *)
LEMMA EndStep ==
  ASSUME IInv, MInv, EndOfEvent \/ EndOfTracks \/ EndOfHits \/ UNCHANGED vars
  PROVE  MInv'
<1>1. /\ UNCHANGED <<globalTrack, nGlobalTracks, nMergedTracks, full, read, trackContainer, globalTrackIndex>>
      /\ sector' = sector /\ todo' = todo
      /\ stage' = "tracks" => stage = "tracks"
  BY DEF EndOfEvent, EndOfTracks, EndOfHits, vars, tracks, bank
<1>2. Fresh'
  BY <1>1 DEF MInv, Fresh
<1> QED
  BY <1>1, <1>2, SameStep

LEMMA HitStep ==
  ASSUME IInv, MInv, ReadHit
  PROVE  MInv'
<1>1. /\ UNCHANGED <<nGlobalTracks, nMergedTracks, full, read, trackContainer, globalTrackIndex>>
      /\ sector' = sector /\ todo' = todo /\ stage' = stage
  BY DEF ReadHit
<1>2. Fresh'
  BY <1>1 DEF MInv, Fresh
<1> QED
  BY <1>1, <1>2, HitKeepsPieces, SameStep

LEMMA StepMInv == IInv /\ MInv /\ [Next]_vars => IInv' /\ MInv'
<1> SUFFICES ASSUME IInv, MInv, [Next]_vars PROVE MInv'
  BY StepInv
<1> QED
  BY ResetStep, ReadStep, EndStep, StoreStep, MergeStep, HitStep DEF Next

LEMMA AlwaysMInv == Spec => [](IInv /\ MInv)
BY InitInv, MInit, StepMInv, PTL DEF Spec

------------------------------------------------------------------------------
LEMMA NoneLostIs == IInv /\ MInv => NoneLost
<1> SUFFICES ASSUME IInv, MInv PROVE NoneLost
  OBVIOUS
<1>1. \A k \in Kept : globalTrack[k].pieces \in Seq(Piece)
  BY KeptIs, PiecesAre
<1>2. \A k \in Kept : \A x : /\ Times(x, globalTrack[k].pieces) > 0 <=> Has(globalTrack[k].pieces, x)
                             /\ Has(globalTrack[k].pieces, x) => Times(x, globalTrack[k].pieces) = 1
  <2> SUFFICES ASSUME NEW k \in Kept, NEW x
               PROVE  /\ Times(x, globalTrack[k].pieces) > 0 <=> Has(globalTrack[k].pieces, x)
                      /\ Has(globalTrack[k].pieces, x) => Times(x, globalTrack[k].pieces) = 1
    OBVIOUS
  <2> DEFINE s == globalTrack[k].pieces
  <2>1. \A i, j \in 1..Len(s) : s[i] = x /\ s[j] = x => i = j
    BY DEF MInv, PiecesInv, Distinct
  <2>2. s \in Seq(Piece)
    BY <1>1
  <2> HIDE DEF s
  <2>3. /\ Times(x, s) > 0 <=> Has(s, x)
        /\ Has(s, x) => Times(x, s) = 1
    BY <2>1, <2>2, TimesIs
  <2> QED
    BY <2>3 DEF s
<1>3. ASSUME NEW x, NEW H, H = {k \in Kept : Times(x, globalTrack[k].pieces) > 0}
      PROVE  Cardinality(H) <= 1 /\ \A k \in H : Times(x, globalTrack[k].pieces) = 1
  <2>1. \A k \in H : k \in Kept /\ Has(globalTrack[k].pieces, x)
    BY <1>2, <1>3
  <2>2. \A k, l \in H : k = l
    <3> SUFFICES ASSUME NEW k \in H, NEW l \in H PROVE k = l
      OBVIOUS
    <3>1. k \in Kept /\ l \in Kept
      BY <2>1
    <3>2. PICK i \in 1..Len(globalTrack[k].pieces) : globalTrack[k].pieces[i] = x
      BY <2>1 DEF Has
    <3>3. PICK j \in 1..Len(globalTrack[l].pieces) : globalTrack[l].pieces[j] = x
      BY <2>1 DEF Has
    <3> QED
      BY <3>1, <3>2, <3>3 DEF MInv, PiecesInv, Distinct
  <2>3. H = {} \/ \E k : H = {k}
    BY <2>2
  <2>4. Cardinality(H) = 0 \/ Cardinality(H) = 1
    BY <2>3, FS_EmptySet, FS_Singleton
  <2> QED
    BY <1>2, <2>1, <2>4
<1>4. ASSUME ~full, NEW i \in 1..Len(read)
      PROVE  {k \in Kept : Times(read[i], globalTrack[k].pieces) > 0} # {}
  <2>1. PICK k \in Kept : Has(globalTrack[k].pieces, read[i])
    BY <1>4 DEF MInv, PiecesInv, AllKept
  <2> QED
    BY <1>2, <2>1
<1>5. ~full => nGlobalTracks + nMergedTracks = Len(read)
  BY DEF MInv, PiecesInv, AllKept
<1> QED
  BY <1>3, <1>4, <1>5 DEF NoneLost

(* No piece is in two tracks or in one twice, whichever sectors brought it *)
(* and however they were merged, and as long as the array has room none is *)
(* lost (addTracks of gl3Event and of online_tracking_collector).          *)
THEOREM NoPieceIsLost == Spec => []NoneLost
BY AlwaysMInv, NoneLostIs, PTL

LEMMA IndexNames == IInv /\ MInv => IndexNamesHolder
<1> SUFFICES ASSUME IInv, MInv, NEW s \in 1..NSectors, NEW id \in 1..MaxTracksSector - 1,
                    globalTrackIndex[(s - 1) * MaxTracksSector + id] - 1 \in Kept
             PROVE  Times(<<s, id>>, globalTrack[globalTrackIndex[(s - 1) * MaxTracksSector + id] - 1].pieces) > 0
  BY DEF IndexNamesHolder
<1> DEFINE k == globalTrackIndex[(s - 1) * MaxTracksSector + id] - 1
<1>1. id \in 0..MaxTracksSector - 1
  BY Sizes
<1>2. Has(globalTrack[k].pieces, <<s, id>>)
  BY <1>1 DEF MInv, IndexHolds, Held0
<1>3. globalTrack[k].pieces \in Seq(Piece)
  BY KeptIs, PiecesAre
<1> HIDE DEF k
<1>4. Times(<<s, id>>, globalTrack[k].pieces) > 0
  BY <1>2, <1>3, TimesIs
<1> QED
  BY <1>4 DEF k

(* The final track that globalTrackIndex names for a track of a sector     *)
(* holds it, after whatever came later, merged or found the array full.    *)
THEOREM IndexNamesTheHolder == Spec => []IndexNamesHolder
BY AlwaysMInv, IndexNames, PTL

------------------------------------------------------------------------------
(* The hits of a track, and its id, which is sector * 1000 and the number  *)
(* of its first piece.                                                     *)
OwnHits(t, hs) ==
  \A i \in 1..Len(t.hits) :
    /\ t.hits[i] \in 1..Len(hs) /\ hs[t.hits[i]].trackId = t.id
    /\ \/ BehindIndex(hs[t.hits[i]])
       \/ Has(t.pieces, <<hs[t.hits[i]].sector, hs[t.hits[i]].local>>)
    /\ \A j \in 1..i - 1 : t.hits[j] < t.hits[i]

OwnId(t) ==
  /\ 1 \in 1..Len(t.pieces)
  /\ t.id = t.pieces[1][1] * IdBase + t.pieces[1][2]

OwnInv == \A k \in Kept : OwnHits(globalTrack[k], hit) /\ OwnId(globalTrack[k])

(* A track that has more pieces at its end than before.                    *)
Grown(t, u) ==
  /\ u.id = t.id /\ u.hits = t.hits
  /\ \A i \in 1..Len(t.pieces) : i \in 1..Len(u.pieces) /\ u.pieces[i] = t.pieces[i]

Longer(hs, ht) == \A h \in 1..Len(hs) : h \in 1..Len(ht) /\ ht[h] = hs[h]

LEMMA GrownKeeps ==
  ASSUME NEW t, NEW u, NEW hs, NEW ht, OwnHits(t, hs), OwnId(t), Grown(t, u), Longer(hs, ht)
  PROVE  OwnHits(u, ht) /\ OwnId(u)
<1>1. \A x : Has(t.pieces, x) => Has(u.pieces, x)
  BY Zenon DEF Grown, Has
<1>2. OwnId(u)
  BY DEF OwnId, Grown
<1>3. OwnHits(u, ht)
  BY <1>1 DEF OwnHits, Grown, Longer
<1> QED
  BY <1>2, <1>3

LEMMA NewIsOwn ==
  ASSUME sector \in 1..NSectors, NEW t \in LocalTrack, NEW hs
  PROVE  OwnHits(Set(t), hs) /\ OwnId(Set(t))
<1>1. Set(t).pieces = << <<sector, Abs(t.id)>> >> /\ Set(t).hits = << >>
      /\ Set(t).id = sector * IdBase + Abs(t.id)
  BY DEF Set
<1>2. 1..Len(<< >>) = {}
  OBVIOUS
<1>3. OwnHits(Set(t), hs)
  BY <1>1, <1>2 DEF OwnHits
<1> DEFINE s == << <<sector, Abs(t.id)>> >>
<1>4. 1 \in 1..Len(s) /\ s[1] = <<sector, Abs(t.id)>>
  OBVIOUS
<1>5. s[1][1] = sector /\ s[1][2] = Abs(t.id)
  BY <1>4
<1> HIDE DEF s
<1>6. OwnId(Set(t))
  BY <1>1, <1>4, <1>5 DEF OwnId, s
<1> QED
  BY <1>3, <1>6

(* What leaves the hits alone, and grows or stores the tracks.             *)
LEMMA GrownStep ==
  ASSUME OwnInv, hit' = hit,
         \A k \in Kept' : \/ k \in Kept /\ Grown(globalTrack[k], globalTrack'[k])
                          \/ OwnHits(globalTrack'[k], hit) /\ OwnId(globalTrack'[k])
  PROVE  OwnInv'
<1>1. Longer(hit, hit)
  BY DEF Longer
<1>2. \A k \in Kept' : OwnHits(globalTrack'[k], hit) /\ OwnId(globalTrack'[k])
  BY <1>1, GrownKeeps DEF OwnInv
<1> QED
  BY <1>2 DEF OwnInv

LEMMA StoreOwn ==
  ASSUME IInv, MInv, OwnInv, StoreTrack
  PROVE  OwnInv'
<1> DEFINE t == Head(todo)
<1>1. /\ stage = "tracks" /\ todo # << >> /\ hit' = hit
      /\ globalTrack' = [globalTrack EXCEPT ![nGlobalTracks] = Set(t)]
      /\ todo' = Tail(todo) \/ todo' = << >>
      /\ nGlobalTracks' = nGlobalTracks \/ nGlobalTracks' = nGlobalTracks + 1
  BY DEF StoreTrack
<1>2. globalTrack \in [Slot -> Track] /\ nGlobalTracks \in Slot /\ nGlobalTracks \in Nat
  BY SlotsBelow DEF IInv, Tracks, Counters
<1>3. sector \in 1..NSectors /\ t \in LocalTrack
  BY <1>1, HeadIsFresh DEF MInv
<1> HIDE DEF t
<1>5. OwnHits(Set(t), hit) /\ OwnId(Set(t))
  BY <1>3, NewIsOwn
<1>6. \A k \in Kept' : k \in Kept \/ k = nGlobalTracks
  BY <1>1, <1>2 DEF Kept
<1>7. \A k \in Kept : globalTrack'[k] = globalTrack[k]
  BY <1>1, <1>2, KeptIs
<1>8. \A k \in Kept : Grown(globalTrack[k], globalTrack'[k])
  BY <1>7 DEF Grown
<1>9. globalTrack'[nGlobalTracks] = Set(t)
  BY <1>1, <1>2
<1> QED
  BY <1>1, <1>5, <1>6, <1>8, <1>9, GrownStep

LEMMA MergeOwn ==
  ASSUME IInv, MInv, OwnInv, MergeTrack
  PROVE  OwnInv'
<1> DEFINE new == Set(Head(todo))
           k == Fatter(new)
           one == [globalTrack EXCEPT ![nGlobalTracks] = new]
<1>1. /\ stage = "tracks" /\ todo # << >> /\ hit' = hit
      /\ Matches(new) # {} /\ todo' = Tail(todo) /\ nGlobalTracks' = nGlobalTracks
      /\ globalTrack' = [one EXCEPT ![k] = Joined(@, new)]
  BY DEF MergeTrack
<1>2. globalTrack \in [Slot -> Track] /\ nGlobalTracks \in Slot
  BY SlotsBelow DEF IInv, Tracks, Counters
<1>3. new \in Track
  BY <1>1, HeadIsFresh DEF MInv
<1>4. k \in Slot
  BY <1>1, InvIsType, FatterIsSlot
<1> HIDE DEF new, k
<1>5. \A l \in Kept : l \in Slot /\ l # nGlobalTracks /\ one[l] = globalTrack[l]
  BY <1>2, KeptIs
<1>6. one \in [Slot -> Track]
  BY <1>2, <1>3
<1> HIDE DEF one
<1>7. ASSUME NEW l \in Kept PROVE Grown(globalTrack[l], globalTrack'[l])
  <2>1. CASE l # k
    <3>1. globalTrack'[l] = globalTrack[l]
      BY <1>1, <1>5, <1>6, <2>1
    <3> QED
      BY <3>1 DEF Grown
  <2>2. CASE l = k
    <3> DEFINE t == globalTrack[l]
               u == globalTrack'[l]
    <3>1. u = Joined(t, new)
      BY <1>1, <1>4, <1>5, <1>6, <2>2
    <3>2. t \in Track
      BY <1>2, <1>5
    <3> HIDE DEF t, u
    <3>3. u.id = t.id /\ u.hits = t.hits /\ u.pieces = t.pieces \o new.pieces
      BY <3>1, <3>2 DEF Joined, Track
    <3>4. t.pieces \in Seq(Piece) /\ new.pieces \in Seq(Piece)
      BY <1>3, <3>2 DEF Track
    <3>5. \A i \in 1..Len(t.pieces) : i \in 1..Len(u.pieces) /\ u.pieces[i] = t.pieces[i]
      <4> DEFINE p == t.pieces
                 q == new.pieces
                 r == u.pieces
      <4>1. p \in Seq(Piece) /\ q \in Seq(Piece) /\ r = p \o q
        BY <3>3, <3>4
      <4> HIDE DEF p, q, r
      <4>2. Len(p) \in Nat /\ Len(q) \in Nat /\ Len(r) = Len(p) + Len(q)
        BY <4>1
      <4>3. \A i \in 1..Len(p) : i \in 1..Len(r) /\ r[i] = p[i]
        BY <4>1, <4>2
      <4> QED
        BY <4>3 DEF p, r
    <3>6. Grown(t, u)
      BY <3>3, <3>5 DEF Grown
    <3> QED
      BY <3>6 DEF t, u
  <2> QED
    BY <2>1, <2>2
<1>8. Kept' = Kept
  BY <1>1 DEF Kept
<1> QED
  BY <1>1, <1>7, <1>8, GrownStep

(* Every place of the index is one of a sector,                            *)
LEMMA PlaceOfSector ==
  ASSUME NEW p \in IndexPlaces
  PROVE  \E s \in 1..NSectors, i \in 0..MaxTracksSector - 1 : p = (s - 1) * MaxTracksSector + i
<1>1. MaxTracksSector \in Nat /\ MaxTracksSector > 0 /\ NSectors \in Nat
  BY Sizes
<1>2. NSectors * MaxTracksSector \in Nat
  BY <1>1
<1>3. p \in Nat /\ p < NSectors * MaxTracksSector
  BY <1>2 DEF IndexPlaces
<1> DEFINE d == p \div MaxTracksSector
           i == p % MaxTracksSector
<1>4. d \in Nat /\ i \in 0..MaxTracksSector - 1 /\ p = d * MaxTracksSector + i
  BY <1>1, <1>3
<1> HIDE DEF d, i
<1>5. d < NSectors
  <2>1. ASSUME d >= NSectors PROVE FALSE
    <3>1. d - NSectors \in Nat
      BY <1>1, <1>4, <2>1
    <3>2. (d - NSectors) * MaxTracksSector \in Nat
      BY <1>1, <3>1
    <3>3. d * MaxTracksSector = NSectors * MaxTracksSector + (d - NSectors) * MaxTracksSector
      BY <1>1, <1>4
    <3> QED
      BY <1>2, <1>3, <1>4, <3>2, <3>3
  <2> QED
    BY <1>1, <1>4, <2>1
<1>6. d + 1 \in 1..NSectors /\ (d + 1) - 1 = d
  BY <1>1, <1>4, <1>5
<1> QED
  BY <1>4, <1>6

(* and of no sector before the one it is read for.                         *)
LEMMA SamePlace ==
  ASSUME NEW s \in 1..NSectors, NEW z \in 1..NSectors, NEW i \in 0..MaxTracksSector - 1, NEW n \in Nat,
         s <= z, (s - 1) * MaxTracksSector + i = (z - 1) * MaxTracksSector + n
  PROVE  s = z /\ i = n
<1>1. MaxTracksSector \in Nat /\ MaxTracksSector > 0 /\ NSectors \in Nat /\ s \in Nat /\ z \in Nat
  BY Sizes
<1>2. CASE s = z
  BY <1>1, <1>2
<1>3. CASE s < z
  <2>1. z - s - 1 \in Nat
    BY <1>1, <1>3
  <2>2. (z - s - 1) * MaxTracksSector \in Nat
    BY <1>1, <2>1
  <2>3. (z - 1) * MaxTracksSector
          = (s - 1) * MaxTracksSector + MaxTracksSector + (z - s - 1) * MaxTracksSector
    BY <1>1
  <2>4. (s - 1) * MaxTracksSector \in Int
    BY <1>1
  <2> QED
    BY <1>1, <2>2, <2>3, <2>4
<1> QED
  BY <1>1, <1>2, <1>3

(* A hit is put to the track that the index names, unless that is one that *)
(* was dropped.                                                            *)
LEMMA HitOwn ==
  ASSUME IInv, MInv, OwnInv, ReadHit
  PROVE  OwnInv'
<1> DEFINE id == Head(clusters)
           h == Len(hit) + 1
<1>1. PICK entry \in IF Known(id) THEN AtIndex(IndexRead(id)) ELSE {0} :
        IF entry - 1 \in 0..nGlobalTracks
        THEN /\ hit' = Append(hit, [sector |-> sector, local |-> id,
                                    trackId |-> globalTrack[entry - 1].id])
             /\ globalTrack' = IF HitProcessing > 1
                               THEN [globalTrack EXCEPT ![entry - 1].hits = Append(@, h)]
                               ELSE globalTrack
        ELSE /\ hit' = Append(hit, [sector |-> sector, local |-> id, trackId |-> id])
             /\ UNCHANGED globalTrack
  BY DEF ReadHit
<1>2. /\ stage = "hits" /\ clusters # <<>>
      /\ UNCHANGED <<todo, nSectorTracks, nGlobalTracks>>
  BY DEF ReadHit
<1>3. /\ hit \in Seq([sector : 1..NSectors, local : Int, trackId : Int]) /\ clusters \in Seq(Int)
      /\ globalTrack \in [Slot -> Track] /\ sector \in 1..NSectors
      /\ nGlobalTracks \in 0..MaxTracks - 2 /\ nSectorTracks \in Nat
  BY <1>2 DEF IInv, Lists, Tracks, Counters, InSector
<1>4. id \in Int /\ Len(hit) \in Nat /\ h = Len(hit) + 1
  BY <1>2, <1>3
<1> HIDE DEF id, h
<1>5. Kept' = Kept
  BY <1>2 DEF Kept
<1>6. ASSUME NEW k \in Kept, k = entry - 1
      PROVE  \/ IndexRead(id) = NSectors * MaxTracksSector
             \/ Has(globalTrack[k].pieces, <<sector, id>>)
  <2>1. Known(id)
    <3>1. k \in 0..nGlobalTracks - 1
      BY DEF Kept
    <3>2. entry # 0
      BY <1>6, <3>1
    <3> QED
      BY <1>1, <3>2
  <2> DEFINE p == IndexRead(id)
  <2>2. id \in Nat /\ p \in 0..NSectors * MaxTracksSector /\ p = (sector - 1) * MaxTracksSector + id
    BY <2>1 DEF Known, IndexRead
  <2> HIDE DEF p
  <2>3. CASE p = NSectors * MaxTracksSector
    BY <2>3 DEF p
  <2>4. CASE p # NSectors * MaxTracksSector
    <3>1. p \in IndexPlaces /\ p < NSectors * MaxTracksSector
      <4>1. NSectors * MaxTracksSector \in Nat
        BY Sizes
      <4> QED
        BY <2>2, <2>4, <4>1 DEF IndexPlaces
    <3>2. entry = globalTrackIndex[p]
      BY <1>1, <2>1, <3>1 DEF AtIndex, p
    <3>3. PICK s \in 1..NSectors, i \in 0..MaxTracksSector - 1 : p = (s - 1) * MaxTracksSector + i
      BY <3>1, PlaceOfSector
    <3>4. Held0(globalTrackIndex[p], <<s, i>>)
      BY <3>3 DEF MInv, IndexHolds
    <3>5. Has(globalTrack[k].pieces, <<s, i>>)
      BY <1>6, <3>2, <3>4 DEF Held0
    <3>6. s <= sector
      <4>1. PICK n \in 1..Len(globalTrack[k].pieces) : globalTrack[k].pieces[n] = <<s, i>>
        BY <3>5 DEF Has
      <4>2. Has(read, <<s, i>>)
        BY <4>1 DEF MInv, PiecesInv, WereRead
      <4> QED
        BY <4>2 DEF MInv, Fresh, Has
    <3>7. s = sector /\ i = id
      BY <1>3, <2>2, <3>3, <3>6, SamePlace
    <3> QED
      BY <3>5, <3>7
  <2> QED
    BY <2>3, <2>4
<1>7. PICK new : hit' = Append(hit, new) /\ new \in [sector : 1..NSectors, local : Int, trackId : Int]
                 /\ (entry - 1 \in 0..nGlobalTracks =>
                       new = [sector |-> sector, local |-> id, trackId |-> globalTrack[entry - 1].id])
  <2>1. CASE entry - 1 \in 0..nGlobalTracks
    <3>1. globalTrack[entry - 1].id \in Int
      BY <1>3, <2>1, SlotsBelow DEF Track
    <3> QED
      BY <1>1, <1>3, <1>4, <2>1, <3>1
  <2>2. CASE ~(entry - 1 \in 0..nGlobalTracks)
    BY <1>1, <1>3, <1>4, <2>2
  <2> QED
    BY <2>1, <2>2
<1> DEFINE ht == hit'
<1>8. OneLonger(ht, hit, new)
  <2>1. ht = Append(hit, new)
    BY <1>7
  <2> HIDE DEF ht
  <2> QED
    BY <1>3, <1>7, <2>1, AppendedIs
<1>9. Longer(hit, ht)
  <2> HIDE DEF ht
  <2> QED
    BY <1>8 DEF OneLonger, Longer
<1>10. ASSUME NEW k \in Kept, globalTrack'[k] = globalTrack[k]
       PROVE  OwnHits(globalTrack'[k], ht) /\ OwnId(globalTrack'[k])
  <2>1. Grown(globalTrack[k], globalTrack'[k])
    BY <1>10 DEF Grown
  <2> HIDE DEF ht
  <2> QED
    BY <1>9, <2>1, GrownKeeps DEF OwnInv
<1>11. ASSUME NEW k \in Kept, k = entry - 1,
              globalTrack'[k] = [globalTrack[k] EXCEPT !.hits = Append(@, h)]
       PROVE  OwnHits(globalTrack'[k], ht) /\ OwnId(globalTrack'[k])
  <2> DEFINE t == globalTrack[k]
             u == globalTrack'[k]
             s == t.hits
             r == u.hits
  <2>1. t \in Track /\ k \in 0..nGlobalTracks
    BY <1>3, KeptIs DEF Kept
  <2>2. OwnHits(t, hit) /\ OwnId(t)
        /\ (IndexRead(id) = NSectors * MaxTracksSector \/ Has(t.pieces, <<sector, id>>))
    BY <1>6, <1>11 DEF OwnInv
  <2>3. u = [t EXCEPT !.hits = Append(@, h)]
    BY <1>11
  <2>4. new.trackId = t.id /\ new.sector = sector /\ new.local = id
    BY <1>7, <1>11, <2>1
  <2> HIDE DEF t, u, ht
  <2>5. u.id = t.id /\ u.pieces = t.pieces /\ r = Append(s, h) /\ s \in Seq(Nat)
    BY <2>1, <2>3 DEF Track
  <2>6. OneLonger(r, s, h)
    <3>1. h \in Nat
      BY <1>4
    <3> HIDE DEF r, s
    <3> QED
      BY <2>5, <3>1, AppendedIs
  <2>7. \A i \in 1..Len(s) : /\ s[i] \in 1..Len(hit) /\ hit[s[i]].trackId = t.id
                             /\ \/ BehindIndex(hit[s[i]])
                                \/ Has(t.pieces, <<hit[s[i]].sector, hit[s[i]].local>>)
                             /\ \A j \in 1..i - 1 : s[j] < s[i]
    BY <2>2 DEF OwnHits
  <2>8. h \in 1..Len(ht) /\ ht[h] = new
    BY <1>4, <1>8 DEF OneLonger
  <2> HIDE DEF r, s
  <2>9. ASSUME NEW i \in 1..Len(r)
        PROVE  /\ r[i] \in 1..Len(ht) /\ ht[r[i]].trackId = t.id
               /\ \/ BehindIndex(ht[r[i]])
                  \/ Has(t.pieces, <<ht[r[i]].sector, ht[r[i]].local>>)
               /\ \A j \in 1..i - 1 : r[j] < r[i]
    <3>0. Len(s) \in Nat
      BY <2>6 DEF OneLonger
    <3>1. CASE i \in 1..Len(s)
      <4>1. r[i] = s[i] /\ s[i] \in 1..Len(ht) /\ ht[s[i]] = hit[s[i]]
        BY <1>9, <2>6, <2>7, <3>1 DEF OneLonger, Longer
      <4>2. \A j \in 1..i - 1 : j \in 1..Len(s)
        BY <3>0, <3>1
      <4>3. \A j \in 1..i - 1 : r[j] < r[i]
        BY <2>6, <2>7, <3>1, <4>1, <4>2 DEF OneLonger
      <4> QED
        BY <2>7, <3>1, <4>1, <4>3
    <3>2. CASE i = Len(s) + 1
      <4>1. r[i] = h
        BY <2>6, <3>2 DEF OneLonger
      <4>2. \A j \in 1..i - 1 : j \in 1..Len(s)
        BY <3>0, <3>2
      <4>3. \A j \in 1..i - 1 : r[j] = s[j] /\ s[j] \in 1..Len(hit)
        BY <2>6, <2>7, <4>2 DEF OneLonger
      <4>4. \A j \in 1..i - 1 : r[j] < r[i]
        BY <1>4, <4>1, <4>3
      <4>5. BehindIndex(new) \/ Has(t.pieces, <<new.sector, new.local>>)
        BY <2>2, <2>4 DEF BehindIndex, IndexRead
      <4> QED
        BY <2>4, <2>8, <4>1, <4>4, <4>5
    <3> QED
      BY <2>6, <3>1, <3>2 DEF OneLonger
  <2>10. OwnHits(u, ht)
    BY <2>5, <2>9 DEF OwnHits, r
  <2>11. OwnId(u)
    BY <2>2, <2>5 DEF OwnId
  <2> QED
    BY <2>10, <2>11 DEF u
<1>12. ASSUME NEW k \in Kept
       PROVE  \/ globalTrack'[k] = globalTrack[k]
              \/ k = entry - 1 /\ globalTrack'[k] = [globalTrack[k] EXCEPT !.hits = Append(@, h)]
  <2>1. k \in Slot
    BY KeptIs
  <2>2. CASE globalTrack' = globalTrack
    BY <2>2
  <2>3. CASE globalTrack' = [globalTrack EXCEPT ![entry - 1].hits = Append(@, h)]
    <3> DEFINE e == entry - 1
               longer == [globalTrack[e] EXCEPT !.hits = Append(@, h)]
    <3>1. globalTrack' = [globalTrack EXCEPT ![e] = longer]
      BY <2>3
    <3> HIDE DEF longer
    <3>2. globalTrack'[k] = IF k = e THEN longer ELSE globalTrack[k]
      BY <1>3, <2>1, <3>1
    <3> QED
      BY <3>2 DEF longer
  <2> QED
    BY <1>1, <2>2, <2>3
<1>13. \A k \in Kept : OwnHits(globalTrack'[k], ht) /\ OwnId(globalTrack'[k])
  BY <1>10, <1>11, <1>12
<1> QED
  BY <1>5, <1>13 DEF OwnInv

LEMMA OwnStep ==
  ASSUME IInv, MInv, OwnInv, [Next]_vars
  PROVE  OwnInv'
<1>1. CASE ResetEvent
  <2>1. Kept' = {}
    BY <1>1 DEF ResetEvent, Kept
  <2> QED
    BY <2>1 DEF OwnInv
<1>2. ASSUME NEW b \in Banks, ReadSectorTracks(b) PROVE OwnInv'
  <2>1. UNCHANGED <<globalTrack, nGlobalTracks, hit>>
    BY <1>2 DEF ReadSectorTracks, tracks
  <2> QED
    BY <2>1 DEF OwnInv, Kept
<1>3. CASE EndOfEvent \/ EndOfTracks \/ EndOfHits \/ UNCHANGED vars
  <2>1. UNCHANGED <<globalTrack, nGlobalTracks, hit>>
    BY <1>3 DEF EndOfEvent, EndOfTracks, EndOfHits, vars, tracks
  <2> QED
    BY <2>1 DEF OwnInv, Kept
<1> QED
  BY <1>1, <1>2, <1>3, StoreOwn, MergeOwn, HitOwn DEF Next

LEMMA OwnInit == Init => OwnInv
<1> SUFFICES ASSUME Init PROVE OwnInv
  OBVIOUS
<1>1. Kept = {}
  BY DEF Init, Kept
<1> QED
  BY <1>1 DEF OwnInv

(* Two tracks of one id would begin with the same piece, if both are low.  *)
LEMMA OwnIs == IInv /\ MInv /\ OwnInv => HitsOnOwnTrack
<1> SUFFICES ASSUME IInv, MInv, OwnInv, NEW k \in Kept
             PROVE  LET t == globalTrack[k]
                    IN /\ \A i \in 1..Len(t.hits) :
                            LET h == t.hits[i]
                            IN /\ h <= Len(hit) /\ hit[h].trackId = t.id
                               /\ \/ BehindIndex(hit[h])
                                  \/ Times(<<hit[h].sector, hit[h].local>>, t.pieces) > 0
                               /\ \A j \in 1..i - 1 : t.hits[j] < h
                       /\ \A l \in Kept \ {k} :
                            Low(t) /\ Low(globalTrack[l]) => globalTrack[l].id # t.id
  BY DEF HitsOnOwnTrack
<1> DEFINE t == globalTrack[k]
<1>1. \A l \in Kept : globalTrack[l].pieces \in Seq(Piece)
  BY KeptIs, PiecesAre
<1>2. \A x : Has(t.pieces, x) => Times(x, t.pieces) > 0
  <2> SUFFICES ASSUME NEW x, Has(t.pieces, x) PROVE Times(x, t.pieces) > 0
    OBVIOUS
  <2> DEFINE s == t.pieces
  <2>1. s \in Seq(Piece) /\ Has(s, x)
    BY <1>1
  <2> HIDE DEF s
  <2>2. Times(x, s) > 0
    BY <2>1, TimesIs
  <2> QED
    BY <2>2 DEF s
<1>3. Len(hit) \in Nat
  BY DEF IInv, Lists
<1>4. ASSUME NEW i \in 1..Len(t.hits)
      PROVE  /\ t.hits[i] <= Len(hit) /\ hit[t.hits[i]].trackId = t.id
             /\ \/ BehindIndex(hit[t.hits[i]])
                \/ Times(<<hit[t.hits[i]].sector, hit[t.hits[i]].local>>, t.pieces) > 0
             /\ \A j \in 1..i - 1 : t.hits[j] < t.hits[i]
  <2>1. OwnHits(t, hit)
    BY DEF OwnInv
  <2> HIDE DEF t
  <2> QED
    BY <1>2, <1>3, <2>1 DEF OwnHits
<1>5. ASSUME NEW l \in Kept \ {k}, Low(t), Low(globalTrack[l]), globalTrack[l].id = t.id
      PROVE  FALSE
  <2> DEFINE p == t.pieces[1]
             q == globalTrack[l].pieces[1]
  <2>1. /\ 1 \in 1..Len(t.pieces) /\ 1 \in 1..Len(globalTrack[l].pieces)
        /\ p[2] < IdBase /\ q[2] < IdBase
        /\ t.id = p[1] * IdBase + p[2] /\ globalTrack[l].id = q[1] * IdBase + q[2]
    BY <1>5 DEF OwnInv, OwnId, Low
  <2>2. p \in Piece /\ q \in Piece
    BY <1>1, <2>1, ElementOfSeq
  <2>3. p # q
    BY <1>5, <2>1 DEF MInv, PiecesInv, Distinct
  <2> HIDE DEF p, q
  <2>4. /\ p = <<p[1], p[2]>> /\ p[1] \in Nat /\ p[2] \in Nat
        /\ q = <<q[1], q[2]>> /\ q[1] \in Nat /\ q[2] \in Nat
    BY <2>2 DEF Piece
  <2>5. p[2] \in 0..IdBase - 1 /\ q[2] \in 0..IdBase - 1 /\ IdBase \in Nat
    <3>1. IdBase \in Nat
      BY Sizes
    <3> QED
      BY <2>1, <2>4, <3>1
  <2>6. p[1] * IdBase + p[2] = q[1] * IdBase + q[2]
    BY <1>5, <2>1
  <2>7. p[1] = q[1] /\ p[2] = q[2]
    BY <2>4, <2>5, <2>6, DigitsAreEqual
  <2> QED
    BY <2>3, <2>4, <2>7
<1> QED
  BY <1>4, <1>5

(* The hits of a track are those of its pieces, each once and under its id *)
(* (readSectorHits), besides what the two theorems above say: whatever the *)
(* headers state and however tracks are numbered.  A hit read at the place *)
(* behind the index may be with any track.  No two tracks have one id,     *)
(* unless a tracker numbered the first piece of one by 1000 or more.       *)
THEOREM TracksAreSound == Spec => []TracksSound
<1>1. Init => IInv /\ MInv /\ OwnInv
  BY InitInv, MInit, OwnInit
<1>2. IInv /\ MInv /\ OwnInv /\ [Next]_vars => (IInv /\ MInv /\ OwnInv)'
  BY StepMInv, OwnStep
<1>3. IInv /\ MInv /\ OwnInv => TracksSound
  BY NoneLostIs, IndexNames, OwnIs DEF TracksSound
<1> QED
  BY <1>1, <1>2, <1>3, PTL DEF Spec
=============================================================================
