------------------------------ MODULE CaTracker ------------------------------
(***************************************************************************)
(* The tracking of the TPC of an event task: the clusters of the sectors   *)
(* become hits, the cellular automaton finds tracks in them, and each      *)
(* track is converted to one of the old tracker, with its hits linked from *)
(* the outermost in, and fitted again to the beam line.  What a task sends *)
(* on is pairs of a track and its second fit.                              *)
(*                                                                         *)
(* The cellular automaton is a library: it may find any of the tracks of   *)
(* `Patterns' in the hits that there are, and it shares hits among them.   *)
(* Of the energy loss the charge and the gain of a row are kept, not the   *)
(* length of its track; positions and the helix are left out.              *)
(***************************************************************************)
EXTENDS Integers, Sequences, FiniteSets, SequencesExt

CONSTANTS
  Sectors, SectorData,          \* what a sector may send: sequences of rows
  Patterns,                     \* sets of tracks to find: sequences of sequences of hits
  maxHits, MaxClusters, NTRACKSMAX, MinNHits, \* limits of the code (200005, 20000, 4000, 5)
  minTimeBin, maxTimeBin, minClusterCharge, maxClusterCharge,
  MinHitsForDedx, CutLow, CutHigh,            \* in percent
  innerSectorGain, outerSectorGain,
  MaxEvents                     \* bound

Cluster == [tb : Nat, charge : Nat, flags : BOOLEAN]

(* A row of a sector: its number, the version of its format, its clusters. *)
Row == [row : Nat, version : Nat, clusters : Seq(Cluster)]

ASSUME CaAssumption ==
  /\ SectorData \subseteq Seq(Row) /\ Patterns \subseteq Seq(Seq(Nat))
  /\ maxHits \in Nat /\ maxHits > 5
  /\ {MaxClusters, NTRACKSMAX, MinHitsForDedx, MaxEvents} \subseteq Nat /\ MinNHits \in Nat \ {0}
  /\ {minTimeBin, maxTimeBin, minClusterCharge, maxClusterCharge} \subseteq Nat
  /\ CutLow \in 0..100 /\ CutHigh \in CutLow..100
  /\ {innerSectorGain, outerSectorGain} \subseteq Nat

VARIABLES
  caStage,                      \* "between" events, "reading", "converting"
  nEvents,
  unread,                       \* the sectors that have not sent yet
  nHits, fHits,                 \* the array, of which nHits are of the event
  CATracks, iTrk,               \* the tracks found, and those converted
  trackPairs

caVars == <<caStage, nEvents, unread, nHits, fHits, CATracks, iTrk, trackPairs>>

NoHit   == -1
NoTrack == 0
Empty   == [sector |-> 0, row |-> 0, q |-> 0, flags |-> FALSE, track |-> NoTrack, next |-> NoHit]

CaInit ==
  /\ caStage = "between" /\ nEvents = 0 /\ unread = {}
  /\ nHits = 0 /\ fHits = [h \in 0..maxHits - 1 |-> Empty]
  /\ CATracks = <<>> /\ iTrk = 0 /\ trackPairs = <<>>

(* The array itself is not cleared.                                        *)
EventStart ==
  /\ caStage = "between" /\ nEvents < MaxEvents
  /\ caStage' = "reading" /\ nEvents' = nEvents + 1
  /\ unread' = Sectors
  /\ nHits' = 0 /\ CATracks' = <<>> /\ iTrk' = 0 /\ trackPairs' = <<>>
  /\ UNCHANGED fHits

------------------------------------------------------------------------------
Accepted(c) ==
  c.tb \in minTimeBin..maxTimeBin /\ c.charge \in minClusterCharge..maxClusterCharge

Kept(r) == {i \in DOMAIN r.clusters : Accepted(r.clusters[i])}

(* Whether there is room for all clusters of a row, cut or not.            *)
Room_Any(r, n) == TRUE

Room(r, n) == n + Len(r.clusters) < maxHits - 5

Readable(r, n) ==
  /\ r.row \in 1..45 /\ r.version = 1
  /\ Room(r, n)
  /\ Len(r.clusters) <= MaxClusters

(* A hit as a cluster makes it; whatever the place in the array linked in  *)
(* an earlier event is forgotten.                                          *)
NewHit_KeepsTrack(sector, row, c, old) ==
  [old EXCEPT !.sector = sector, !.row = row, !.q = c.charge, !.flags = c.flags]

NewHit(sector, row, c, old) ==
  [sector |-> sector, row |-> row, q |-> c.charge, flags |-> c.flags, track |-> NoTrack, next |-> NoHit]

(* Where the hit of a cluster goes, counted from the first of its row.     *)
Place(r, i) == Cardinality({j \in Kept(r) : j < i})

(* A row is added to what was read before it; one that cannot be read      *)
(* ends the reading, and the hits of the rows before it stay.              *)
AddRow(read, sector, r) ==
  IF ~(read.ok /\ Readable(r, read.nHits)) THEN [read EXCEPT !.ok = FALSE]
  ELSE LET At(h) == {i \in Kept(r) : read.nHits + Place(r, i) = h}
       IN [nHits |-> read.nHits + Cardinality(Kept(r)),
           fHits |-> [h \in DOMAIN read.fHits |->
                        IF At(h) = {} THEN read.fHits[h]
                        ELSE LET c == r.clusters[CHOOSE i \in At(h) : TRUE]
                             IN NewHit(sector, r.row, c, read.fHits[h])],
           ok |-> TRUE]

(* readSectorFromESB.                                                      *)
ReadRows(sector, rows) ==
  LET read[k \in 0..Len(rows)] ==
        IF k = 0 THEN [nHits |-> nHits, fHits |-> fHits, ok |-> TRUE]
        ELSE AddRow(read[k - 1], sector, rows[k])
  IN read[Len(rows)]

EventData(sector, rows) ==
  /\ caStage = "reading" /\ sector \in unread
  /\ unread' = unread \ {sector}
  /\ nHits' = ReadRows(sector, rows).nHits
  /\ fHits' = ReadRows(sector, rows).fHits
  /\ UNCHANGED <<caStage, nEvents, CATracks, iTrk, trackPairs>>

------------------------------------------------------------------------------
(* TruncatedMean: the mean of the charges of the hits that are of one      *)
(* cluster, without the lowest and the highest, as a sum of nDedx of them. *)
Scaled(h) == fHits[h].q * (IF fHits[h].row < 14 THEN innerSectorGain ELSE outerSectorGain)

TruncatedMean(hits) ==
  LET clean == SelectSeq(hits, LAMBDA h : ~fHits[h].flags)
      used  == SubSeq(clean, 1, IF Len(clean) < 45 THEN Len(clean) ELSE 45)
      array == SortSeq([i \in 1..Len(used) |-> Scaled(used[i])], <)
      mean  == SubSeq(array, (Len(used) * CutLow) \div 100 + 1, (Len(used) * CutHigh) \div 100)
  IN [nDedx |-> Len(mean), dedx |-> FoldLeft(+, 0, mean)]

NoDedx == [nDedx |-> 0, dedx |-> -1]

(* FindTracks of the library: tracks of hits of the event, each from the   *)
(* innermost out.                                                          *)
Found == {p \in Patterns : \A i \in 1..Len(p) : \A k \in 1..Len(p[i]) : p[i][k] < nHits}

(* runCATracker and makeDedx.  With too many tracks none is kept.          *)
RunCATracker ==
  /\ caStage = "reading" /\ unread = {}
  /\ \E found \in Found :
       /\ CATracks' = [i \in 1..Len(found) |->
                         [hits |-> found[i],
                          mean |-> IF Len(found[i]) < MinHitsForDedx THEN NoDedx
                                   ELSE TruncatedMean(found[i])]]
       /\ caStage' = IF Len(found) > NTRACKSMAX THEN "between" ELSE "converting"
  /\ UNCHANGED <<nEvents, unread, nHits, fHits, iTrk, trackPairs>>

(* Convert2 takes the hits that no track before this one has taken, each   *)
(* once, from the outermost in, and links them.                            *)
Free_Any(h) == TRUE

Free(h) == fHits[h].track = NoTrack

FreeAt(hits) ==
  {k \in DOMAIN hits : Free(hits[k]) /\ \A j \in DOMAIN hits : j > k => hits[j] # hits[k]}

(* The n-th of some numbers.                                               *)
Nth(I, n) == CHOOSE k \in I : Cardinality({j \in I : j <= k}) = n

Taken(t) ==
  LET hits == CATracks[t].hits
      at   == FreeAt(hits)
      n    == Cardinality(at)
  IN [k \in 1..n |-> hits[Nth(at, n - k + 1)]]

Linked(t) ==
  LET own == Taken(t)
  IN [h \in DOMAIN fHits |->
        IF \E k \in 1..Len(own) : own[k] = h
        THEN LET k == CHOOSE k \in 1..Len(own) : own[k] = h
             IN [fHits[h] EXCEPT !.track = t, !.next = IF k = Len(own) THEN NoHit ELSE own[k + 1]]
        ELSE fHits[h]]

(* The hits that the second fit goes through, from the first of a track.   *)
Chain(links, first) ==
  LET at[k \in 0..maxHits] == IF k = 0 THEN first
                              ELSE IF at[k - 1] = NoHit THEN NoHit ELSE links[at[k - 1]].next
      length == Cardinality({k \in 0..maxHits : at[k] # NoHit})
  IN [k \in 1..length |-> at[k - 1]]

(* gl3Track::set of a track that has hits left, and of its second fit.     *)
Pair(t, own, links) ==
  [id |-> t, nHits |-> Len(own), mean |-> CATracks[t].mean,
   outerMostRow |-> fHits[own[1]].row, innerMostRow |-> fHits[own[Len(own)]].row,
   fitted |-> Chain(links, own[1])]

(* fillTracks: a track that is left with too few hits is deleted; its hits *)
(* stay taken.                                                             *)
Convert ==
  /\ caStage = "converting" /\ iTrk < Len(CATracks)
  /\ LET t == iTrk + 1
         own == Taken(t)
     IN /\ iTrk' = t
        /\ fHits' = Linked(t)
        /\ trackPairs' = IF Len(own) < MinNHits THEN trackPairs
                         ELSE Append(trackPairs, Pair(t, own, Linked(t)))
  /\ UNCHANGED <<caStage, nEvents, unread, nHits, CATracks>>

EventDone ==
  /\ caStage = "converting" /\ iTrk = Len(CATracks)
  /\ caStage' = "between"
  /\ UNCHANGED <<nEvents, unread, nHits, fHits, CATracks, iTrk, trackPairs>>

CaNext ==
  \/ EventStart \/ RunCATracker \/ Convert \/ EventDone
  \/ \E sector \in Sectors, rows \in SectorData : EventData(sector, rows)

CaSpec == CaInit /\ [][CaNext]_caVars

------------------------------------------------------------------------------
CaHit == [sector : Sectors \cup {0}, row : 0..45, q : Nat, flags : BOOLEAN, track : Nat,
        next : -1..maxHits - 1]

(* The array holds the hits of every event, with the places to spare that  *)
(* the code leaves (`(nHits+cou) >= (maxHits-5)').                         *)
CaTypeOK ==
  /\ caStage \in {"between", "reading", "converting"} /\ nEvents \in 0..MaxEvents
  /\ unread \subseteq Sectors
  /\ nHits \in 0..maxHits - 6
  /\ fHits \in [0..maxHits - 1 -> CaHit]
  /\ iTrk \in 0..Len(CATracks) /\ Len(trackPairs) <= iTrk

Span(t) == {CATracks[t].hits[k] : k \in 1..Len(CATracks[t].hits)}

(* A hit is fitted in one track only, and each track is fitted again with  *)
(* the hits that it counts, no matter which hits the tracks found share,   *)
(* or what was linked in the event before: fillTracks reports nHits of a   *)
(* track of one walk along the links, and fitHelix makes another.          *)
FittedOnce ==
  /\ \A i \in 1..Len(trackPairs) :
       LET p == trackPairs[i]
       IN Len(p.fitted) = p.nHits /\ ToSet(p.fitted) \subseteq Span(p.id)
  /\ \A i, j \in 1..Len(trackPairs) :
       i # j => ToSet(trackPairs[i].fitted) \cap ToSet(trackPairs[j].fitted) = {}

(* A track that shares no hit with an earlier one is given with all its    *)
(* hits: neither the event before nor a short track elsewhere costs it any *)
(* of them.                                                                *)
OwnHitsKept ==
  \A t \in 1..iTrk :
    (/\ Cardinality(Span(t)) >= MinNHits
     /\ \A s \in 1..t - 1 : Span(s) \cap Span(t) = {})
    => \E i \in 1..Len(trackPairs) :
         trackPairs[i].id = t /\ ToSet(trackPairs[i].fitted) = Span(t)
=============================================================================
