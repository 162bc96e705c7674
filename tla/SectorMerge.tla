------------------------------ MODULE SectorMerge ------------------------------
(***************************************************************************)
(* How an event puts the tracks of the sectors together: readL3Data reads  *)
(* sector after sector, addTracks stores a track or merges it with one     *)
(* that another sector has left at the same place, and readSectorHits      *)
(* hands the hits of the sector to the tracks that came out of it.         *)
(*                                                                         *)
(* Two classes do this in the same way: gl3Event, where a sector brings    *)
(* single tracks, and online_tracking_collector, where it brings pairs of  *)
(* a global and a primary track.  A track is known by the pieces it was    *)
(* made of; two pieces are close (merge compares r0, psi, eta, ...) if     *)
(* they belong to the same helix.  An area of trackContainer is a cell in  *)
(* phi and eta, and its list, threaded through nextTrack, a sequence.      *)
(***************************************************************************)
EXTENDS Integers, Sequences, FiniteSets

CONSTANTS
  NSectors,
  MaxTracks, MaxTracksSector, MaxHits,   \* sizes of the arrays
  IdBase,                    \* 1000
  MaxSectorNForTrackMerging,
  HitProcessing,             \* 0, 1 or 2
  NPhi, NEta,                \* cells of trackContainer
  Helix,
  Banks,                     \* what the sectors bring
  Readers,                   \* which of "gl3Event" and "collector"
  MaxEvents                  \* bound: events

(* A track of a sector.  A negative id says that it may be merged.         *)
LocalTrack == [id : Int, phi : 1..NPhi, eta : 1..NEta,
               rows : {r \in (1..45) \X (1..45) : r[1] <= r[2]}, helix : Helix]

Abs(i) == IF i < 0 THEN -i ELSE i

(* What a sector brings: its tracks, which its tracker numbers, the number *)
(* of tracks that the header states, and the trackId of its hits.          *)
Bank == [sector : 1..NSectors, tracks : Seq(LocalTrack), nTracks : Nat, hits : Seq(Int)]

ASSUME MergeAssumption ==
  /\ NSectors \in Nat \ {0} /\ NPhi \in Nat /\ NEta \in Nat
  /\ MaxTracks \in Nat /\ MaxTracks >= 3
  /\ MaxTracksSector \in Nat \ {0} /\ MaxHits \in Nat /\ IdBase \in Nat
  /\ MaxSectorNForTrackMerging \in Nat /\ HitProcessing \in 0..2 /\ MaxEvents \in Nat
  /\ Banks \subseteq Bank
  /\ \A b \in Banks : \A i, j \in 1..Len(b.tracks) :
       Abs(b.tracks[i].id) = Abs(b.tracks[j].id) => i = j
  /\ Readers \subseteq {"gl3Event", "collector"}

VARIABLES
  reader,       \* the class
  nEvents, stage,
  sector,       \* of the bank that is being read, or of the last one
  todo,         \* the local tracks of the sector that are left
  nTrk, nSectorTracks,
  clusters,     \* the hits of the sector that are left
  globalTrack, primaryTrack, nGlobalTracks,
  trackContainer, globalTrackIndex,
  hit,          \* the hits so far: sector, trackId read and trackId set
  nMergedTracks, nMergableTracks,
  full,         \* "max number of tracks reached" in this event
  read          \* the pieces read in this event, in order

bank   == <<sector, todo, nTrk, nSectorTracks, clusters>>
tracks == <<globalTrack, primaryTrack, nGlobalTracks, trackContainer, nMergedTracks, nMergableTracks, full, read>>
vars   == <<reader, nEvents, stage, bank, tracks, globalTrackIndex, hit>>

Slot    == 0..MaxTracks - 1
Area    == (1..NPhi) \X (1..NEta)
Nothing == [id |-> 0, phi |-> 0, eta |-> 0, rows |-> <<0, 0>>, helix |-> "", pieces |-> <<>>, hits |-> <<>>]
Kept    == 0..nGlobalTracks - 1
NoIndex == [k \in 0..NSectors * MaxTracksSector - 1 |-> 0]

(* setup()                                                                 *)
Init ==
  /\ reader \in Readers
  /\ nEvents = 0 /\ stage = "idle"
  /\ sector = NSectors /\ todo = <<>> /\ nTrk = 0 /\ nSectorTracks = 0 /\ clusters = <<>>
  /\ globalTrack = [k \in Slot |-> Nothing] /\ primaryTrack = [k \in Slot |-> Nothing]
  /\ nGlobalTracks = 0
  /\ trackContainer = [a \in Area |-> <<>>]
  /\ globalTrackIndex = NoIndex
  /\ hit = <<>> /\ nMergedTracks = 0 /\ nMergableTracks = 0 /\ full = FALSE /\ read = <<>>

------------------------------------------------------------------------------
(* resetEvent() empties the counters, the container and, if hits are used, *)
(* the index; the tracks stay in their slots.                              *)
ResetContainer_Keeps == trackContainer' = trackContainer

ResetContainer == trackContainer' = [a \in Area |-> <<>>]

ResetIndex_Keeps == globalTrackIndex' = globalTrackIndex

ResetIndex == globalTrackIndex' = IF HitProcessing > 0 THEN NoIndex ELSE globalTrackIndex

ResetEvent ==
  /\ stage = "idle" /\ nEvents < MaxEvents
  /\ nEvents' = nEvents + 1 /\ stage' = "sectors" /\ sector' = 0
  /\ nGlobalTracks' = 0 /\ nMergedTracks' = 0 /\ nMergableTracks' = 0
  /\ ResetContainer /\ ResetIndex
  /\ hit' = <<>> /\ full' = FALSE /\ read' = <<>>
  /\ UNCHANGED <<reader, todo, nTrk, nSectorTracks, clusters, globalTrack, primaryTrack>>

(* readL3Data goes through the sectors that have data.                     *)
ReadSectorTracks(b) ==
  /\ stage = "sectors" /\ sector < b.sector
  /\ sector' = b.sector
  /\ todo' = b.tracks
  /\ nTrk' = IF reader = "collector" THEN 2 * Len(b.tracks) ELSE Len(b.tracks)
  /\ nSectorTracks' = b.nTracks
  /\ clusters' = IF HitProcessing > 0 THEN b.hits ELSE <<>>
  /\ stage' = "tracks"
  /\ UNCHANGED <<reader, nEvents, tracks, globalTrackIndex, hit>>

(* The sectors left have no data, or the bank of one is no L3_SECTP, which *)
(* is an error that ends the event.                                        *)
EndOfEvent ==
  /\ stage = "sectors"
  /\ stage' = "idle"
  /\ UNCHANGED <<reader, nEvents, bank, tracks, globalTrackIndex, hit>>

------------------------------------------------------------------------------
(* merge() passes by a track whose rows overlap.  Equal rows do not.       *)
Overlap(p, t) ==
  \/ p[1] < t[1] /\ t[1] < p[2]
  \/ p[1] < t[2] /\ t[2] < p[2]
  \/ t[1] < p[1] /\ p[1] < t[2]
  \/ t[1] < p[2] /\ p[2] < t[2]

Around(t) == {a \in Area : a[1] - t.phi \in -1..1 /\ a[2] - t.eta \in -1..1}

(* Where a track is in the container: area by area, and along the list.    *)
Earlier(c, d) ==
  \/ c[1][1] < d[1][1]
  \/ c[1][1] = d[1][1] /\ (c[1][2] < d[1][2] \/ (c[1][2] = d[1][2] /\ c[2] < d[2]))

(* What a slot holds, when that of the new track has been set.             *)
Held(k, new) == IF k = nGlobalTracks THEN new ELSE globalTrack[k]

Matches(new) ==
  {c \in {<<a, i>> : a \in Around(new), i \in 1..MaxTracks * MaxTracks} :
     /\ c[2] <= Len(trackContainer[c[1]])
     /\ LET p == Held(trackContainer[c[1]][c[2]], new)
        IN p.helix = new.helix /\ ~Overlap(p.rows, new.rows)}

First(cs) == CHOOSE c \in cs : \A d \in cs \ {c} : Earlier(c, d)

Fatter(new) == LET c == First(Matches(new)) IN trackContainer[c[1]][c[2]]

Least(a, b) == IF a < b THEN a ELSE b
Most(a, b)  == IF a > b THEN a ELSE b

(* addTrack() of gl3Track                                                  *)
Joined(t, piece) ==
  [t EXCEPT !.rows = <<Least(@[1], piece.rows[1]), Most(@[2], piece.rows[2])>>,
            !.pieces = @ \o piece.pieces]

(* set(): a track of one piece, with no hits yet.                          *)
Set(t) == [id |-> sector * IdBase + Abs(t.id), phi |-> t.phi, eta |-> t.eta, rows |-> t.rows,
           helix |-> t.helix, pieces |-> << <<sector, Abs(t.id)>> >>, hits |-> <<>>]

------------------------------------------------------------------------------
Mergeable(t) == MaxSectorNForTrackMerging > nTrk /\ t.id < 0

(* The place in globalTrackIndex, none if the id is too large.             *)
IndexStore(t) ==
  IF HitProcessing > 0 /\ Abs(t.id) < MaxTracksSector
  THEN (sector - 1) * MaxTracksSector + Abs(t.id) ELSE -1

(* Only places beyond the first are written.                               *)
Index(t, k) ==
  IF IndexStore(t) > 0 THEN [globalTrackIndex EXCEPT ![IndexStore(t)] = k + 1] ELSE globalTrackIndex

(* A merged track leaves its slot to the next one.  The primary track goes *)
(* to that of the same slot as the global one.                             *)
PrimaryOf_New(k) == nGlobalTracks
PrimaryOf(k) == k

IndexOf_Slot(k) == nGlobalTracks
IndexOf(k) == k

MergeTrack ==
  /\ stage = "tracks" /\ todo # <<>>
  /\ LET t == Head(todo)
         new == Set(t)
     IN /\ Mergeable(t) /\ Matches(new) # {}
        /\ LET k == Fatter(new)
               add(array) == [array EXCEPT ![nGlobalTracks] = new]
               put(array, p) == [add(array) EXCEPT ![p] = Joined(@, new)]
           IN /\ globalTrack' = put(globalTrack, k)
              /\ primaryTrack' = IF reader = "collector" THEN put(primaryTrack, PrimaryOf(k))
                                 ELSE primaryTrack
              /\ globalTrackIndex' = Index(t, IndexOf(k))
        /\ read' = Append(read, new.pieces[1])
  /\ nMergedTracks' = nMergedTracks + 1
  /\ todo' = Tail(todo)
  /\ UNCHANGED <<reader, nEvents, stage, sector, nTrk, nSectorTracks, clusters, nGlobalTracks,
                 trackContainer, nMergableTracks, full, hit>>

(* One that is not merged stays in its slot and, if it is mergeable, in    *)
(* its area.  Once the array is full the slot is given to the next sector, *)
(* although the container and the index name it, and the rest of this      *)
(* sector is dropped.                                                      *)
Full_Late(n) == n >= MaxTracks

Full(n) == n + 1 >= MaxTracks

StoreTrack ==
  /\ stage = "tracks" /\ todo # <<>>
  /\ LET t == Head(todo)
         new == Set(t)
         m == Mergeable(t)
         a == <<t.phi, t.eta>>
         n == nGlobalTracks + 1
     IN /\ ~(m /\ Matches(new) # {})
        /\ globalTrack' = [globalTrack EXCEPT ![nGlobalTracks] = new]
        /\ primaryTrack' = IF reader = "collector" THEN [primaryTrack EXCEPT ![nGlobalTracks] = new]
                           ELSE primaryTrack
        /\ trackContainer' = IF m THEN [trackContainer EXCEPT ![a] = Append(@, nGlobalTracks)]
                             ELSE trackContainer
        /\ nMergableTracks' = IF m THEN nMergableTracks + 1 ELSE nMergableTracks
        /\ globalTrackIndex' = Index(t, nGlobalTracks)
        /\ read' = Append(read, new.pieces[1])
        /\ nGlobalTracks' = IF Full(n) THEN nGlobalTracks ELSE n
        /\ full' = (full \/ Full(n))
        /\ todo' = IF Full(n) THEN <<>> ELSE Tail(todo)
  /\ UNCHANGED <<reader, nEvents, stage, sector, nTrk, nSectorTracks, clusters, nMergedTracks, hit>>

(* readSectorHits takes all hits of a sector, or none.                     *)
EndOfTracks ==
  /\ stage = "tracks" /\ todo = <<>>
  /\ IF Len(hit) + Len(clusters) > MaxHits
     THEN stage' = "sectors" /\ clusters' = <<>>
     ELSE stage' = "hits" /\ UNCHANGED clusters
  /\ UNCHANGED <<reader, nEvents, sector, todo, nTrk, nSectorTracks, tracks, globalTrackIndex, hit>>

------------------------------------------------------------------------------
(* The tests let one value too many pass: behind the index there may be    *)
(* anything, behind the tracks is the slot of the next one.                *)
AtIndex(k) == IF k < NSectors * MaxTracksSector THEN {globalTrackIndex[k]} ELSE 0..MaxTracks

IndexRead(id) == (sector - 1) * MaxTracksSector + id

Known(id) == id \in 0..nSectorTracks /\ IndexRead(id) \in 0..NSectors * MaxTracksSector

ReadHit ==
  /\ stage = "hits" /\ clusters # <<>>
  /\ LET id == Head(clusters)
         h == Len(hit) + 1
     IN \E entry \in IF Known(id) THEN AtIndex(IndexRead(id)) ELSE {0} :
          IF entry - 1 \in 0..nGlobalTracks
          THEN /\ hit' = Append(hit, [sector |-> sector, local |-> id,
                                      trackId |-> globalTrack[entry - 1].id])
               /\ globalTrack' = IF HitProcessing > 1
                                 THEN [globalTrack EXCEPT ![entry - 1].hits = Append(@, h)]
                                 ELSE globalTrack
          ELSE /\ hit' = Append(hit, [sector |-> sector, local |-> id, trackId |-> id])
               /\ UNCHANGED globalTrack
  /\ clusters' = Tail(clusters)
  /\ UNCHANGED <<reader, nEvents, stage, sector, todo, nTrk, nSectorTracks, primaryTrack,
                 nGlobalTracks, trackContainer, nMergedTracks, nMergableTracks, full, read,
                 globalTrackIndex>>

EndOfHits ==
  /\ stage = "hits" /\ clusters = <<>>
  /\ stage' = "sectors"
  /\ UNCHANGED <<reader, nEvents, bank, tracks, globalTrackIndex, hit>>

Next ==
  \/ ResetEvent \/ EndOfEvent
  \/ \E b \in Banks : ReadSectorTracks(b)
  \/ MergeTrack \/ StoreTrack \/ EndOfTracks
  \/ ReadHit \/ EndOfHits

Spec == Init /\ [][Next]_vars

------------------------------------------------------------------------------
Piece == (1..NSectors) \X Nat
Track == [id : Int, phi : 0..NPhi, eta : 0..NEta, rows : Nat \X Nat, helix : Helix \cup {""},
          pieces : Seq(Piece), hits : Seq(Nat)]

(* The tracks stay within their arrays, also when they are full, and the   *)
(* getters, which let the number of tracks pass as an index, with them.    *)
TypeOK ==
  /\ reader \in Readers /\ nEvents \in Nat
  /\ stage \in {"idle", "sectors", "tracks", "hits"}
  /\ sector \in 0..NSectors /\ todo \in Seq(LocalTrack) /\ clusters \in Seq(Int)
  /\ nTrk \in Nat /\ nSectorTracks \in Nat
  /\ globalTrack \in [Slot -> Track] /\ primaryTrack \in [Slot -> Track]
  /\ nGlobalTracks \in 0..MaxTracks - 2
  /\ trackContainer \in [Area -> Seq(Slot)]
  /\ globalTrackIndex \in [0..NSectors * MaxTracksSector - 1 -> 0..MaxTracks]
  /\ hit \in Seq([sector : 1..NSectors, local : Int, trackId : Int])
  /\ Len(hit) + (IF stage = "hits" THEN Len(clusters) ELSE 0) <= MaxHits
  /\ nMergedTracks \in Nat /\ nMergableTracks \in Nat
  /\ full \in BOOLEAN /\ read \in Seq(Piece)

Times(x, s) == Cardinality({i \in 1..Len(s) : s[i] = x})

(* Every piece is in one track, once: none is counted twice, and none is   *)
(* lost unless the array was full.  A dropped track stays in the container *)
(* and the next mergeable track at its place finds itself there.           *)
NoneLost ==
  /\ \A i \in 1..Len(read) :
       LET holders == {k \in Kept : Times(read[i], globalTrack[k].pieces) > 0}
       IN /\ Cardinality(holders) <= 1 /\ (~full => holders # {})
          /\ \A k \in holders : Times(read[i], globalTrack[k].pieces) = 1
  /\ ~full => nGlobalTracks + nMergedTracks = Len(read)

(* A global and a primary track of one number are made of the same pieces. *)
PairsTogether ==
  reader = "collector" => \A k \in Kept : primaryTrack[k].pieces = globalTrack[k].pieces

(* globalTrackIndex is there "to keep track of relationship between orig.  *)
(* tracks and final tracks" (online_tracking_collector.h): the final track *)
(* it names holds the piece, whatever came after, merged or was dropped.   *)
IndexNamesHolder ==
  stage # "idle" =>
    \A s \in 1..NSectors, id \in 1..MaxTracksSector - 1 :
      LET k == globalTrackIndex[(s - 1) * MaxTracksSector + id] - 1
      IN k \in Kept => Times(<<s, id>>, globalTrack[k].pieces) > 0

(* Two tracks get one id only if a tracker has numbered one by IdBase or   *)
(* more, so that its id is that of a track of a later sector; and a hit    *)
(* can be given to any track by the one entry that the test of the index   *)
(* lets pass too many.                                                     *)
Low(t)         == t.pieces[1][2] < IdBase
BehindIndex(h) == (h.sector - 1) * MaxTracksSector + h.local = NSectors * MaxTracksSector

(* Otherwise the list of hits of a track has hits of its pieces only, each *)
(* once and under the id of the track, which is that of no other track:    *)
(* also if a header states more tracks than a sector has places, so that   *)
(* the index is read at the places of a later sector.                      *)
HitsOnOwnTrack ==
  \A k \in Kept :
    LET t == globalTrack[k]
    IN /\ \A i \in 1..Len(t.hits) :
            LET h == t.hits[i]
            IN /\ h <= Len(hit) /\ hit[h].trackId = t.id
               /\ BehindIndex(hit[h]) \/ Times(<<hit[h].sector, hit[h].local>>, t.pieces) > 0
               /\ \A j \in 1..i - 1 : t.hits[j] < h
       /\ \A l \in Kept \ {k} : Low(t) /\ Low(globalTrack[l]) => globalTrack[l].id # t.id

(* The containers, the index and the lists of hits name the same tracks.   *)
TracksSound == NoneLost /\ IndexNamesHolder /\ HitsOnOwnTrack
=============================================================================
