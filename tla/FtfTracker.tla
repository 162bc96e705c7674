------------------------------ MODULE FtfTracker ------------------------------
(***************************************************************************)
(* The sector tracker: FtfSl3 reads the clusters of the two sectors of a   *)
(* hypersector into one array of hits, FtfFinder and FtfTrack join hits    *)
(* into tracks, and fillTracks and fillHits write both out.                *)
(*                                                                         *)
(* A track is a list threaded through the hits: firstHit and lastHit of    *)
(* FtfTrack, nextTrackHit and track of FtfHit.  The array of hits outlives *)
(* a hypersector, and so do the links in it.  Where a hit lies is its row  *)
(* and its cell in phi and eta, as setPointers finds it.  Which of the     *)
(* hits in reach the fits like best, and whether they like the track, is   *)
(* left open: that is the choice of \E.                                    *)
(***************************************************************************)
EXTENDS Integers, Sequences, FiniteSets

CONSTANTS
  RowOuter,         \* rowOuterMost; rowInnerMost and modRow are 1
  NPhi, NEta,       \* cells
  PhiClosed,        \* whether the last cell in phi borders on the first
  MinHitsPerTrack, HitsForSegment, SegmentRange, TrackRange, GoBackwards,
  NPrimary, NSecondary,    \* passes
  MaxTracks, MaxHits,      \* sizes of the arrays
  BankTracks,       \* tracks the bank that fillTracks writes has room for
  SectorBanks,          \* what a sector can bring: a set of sequences of boards
  MaxHyper          \* bound: hypersectors

(* A hit is out of range if phi or eta is 0; wanted: it passes the cuts on  *)
(* time and charge of the readers.                                          *)
Hit == [row : 1..RowOuter, phi : 0..NPhi, eta : 0..NEta, wanted : BOOLEAN]

ASSUME TrackerAssumption ==
  /\ RowOuter \in Nat /\ NPhi \in Nat /\ NEta \in Nat
  /\ PhiClosed \in BOOLEAN /\ GoBackwards \in BOOLEAN
  /\ MinHitsPerTrack \in Nat /\ SegmentRange \in Nat /\ TrackRange \in Nat
  /\ NPrimary \in Nat /\ NSecondary \in Nat
  /\ MaxTracks \in Nat /\ MaxHits \in Nat /\ BankTracks \in Nat /\ MaxHyper \in Nat
  /\ SectorBanks \subseteq Seq(Seq(Hit))

(* Segments are short enough to end before the innermost row (setParameters *)
(* has 2, 5 and 2).                                                         *)
ASSUME SegmentAssumption ==
  HitsForSegment \in 1..3 /\ MinHitsPerTrack > SegmentRange + 1

VARIABLES
  nHyper, nRead, \* hypersectors so far, and sectors of this one
  hit,           \* FtfSl3::hit, the nHits in use
  nextTrackHit,  \* of every hit of the array, in use or not; 0 is NULL
  track,         \* of every hit: the id of its track, or 0
  tracks,        \* FtfFinder::track, the nTracks in use
  nHitsForSegment, nHitsSegment,   \* of para, and what getTracks puts back
  pass,          \* primaries, and passes left of that kind
  at,            \* the hit getTracks has come to, or 0
  ftfStage,         \* what is being done
  bank           \* L3_SECTP: the tracks and how many hits they have

array == <<nHyper, nRead, hit, nextTrackHit, track>>
finder == <<tracks, nHitsForSegment, nHitsSegment, pass, at>>
ftfVars == <<array, finder, ftfStage, bank>>

Index == 1..MaxHits
InUse == 1..Len(hit)
Least(a, b) == IF a < b THEN a ELSE b
Most(a, b)  == IF a > b THEN a ELSE b

FtfInit ==
  /\ nHyper = 1 /\ nRead = 0 /\ hit = <<>> /\ tracks = <<>>
  /\ nextTrackHit = [h \in Index |-> 0] /\ track = [h \in Index |-> 0]
  /\ nHitsForSegment = HitsForSegment /\ nHitsSegment = HitsForSegment
  /\ pass = [primaries |-> TRUE, left |-> 0] /\ at = 0
  /\ ftfStage = "reading"
  /\ bank = <<>>

------------------------------------------------------------------------------
Wanted(h) == h.wanted

(* readMezzanine appends what passes the cuts, until the array overflows.  *)
ReadMezzanine(h, board) ==
  LET read[i \in 0..Len(board)] ==
        IF i = 0 THEN h
        ELSE IF Wanted(board[i]) THEN Append(read[i - 1], board[i]) ELSE read[i - 1]
  IN read[Len(board)]

(* readSector goes through the boards of a bank.  A board that does not    *)
(* fit is an error: its hits are not counted, the rest is not read.        *)
AddBoard(read, board) ==
  LET more == ReadMezzanine(read.hits, board)
  IN IF read.ok /\ Len(more) <= MaxHits THEN [hits |-> more, ok |-> TRUE]
     ELSE [read EXCEPT !.ok = FALSE]

ReadBoards(h, boards) ==
  LET read[i \in 0..Len(boards)] ==
        IF i = 0 THEN [hits |-> h, ok |-> TRUE] ELSE AddBoard(read[i - 1], boards[i])
  IN read[Len(boards)].hits

(* The first sector of a hypersector, or none where it has no data.        *)
StartHypersector ==
  /\ ftfStage \in {"reading", "written"} /\ nHyper < MaxHyper
  /\ nHyper' = nHyper + 1 /\ nRead' = 0 /\ hit' = <<>>
  /\ ftfStage' = "reading"
  /\ UNCHANGED <<nextTrackHit, track, finder, bank>>

(* A sector is read after what there is.  readSectorFromEvpReader tests    *)
(* nothing: it is given no more clusters than the array holds.             *)
ReadSector ==
  /\ ftfStage = "reading" /\ nRead < 2
  /\ nRead' = nRead + 1
  /\ \E boards \in SectorBanks : hit' = ReadBoards(hit, boards)
  /\ UNCHANGED <<nHyper, nextTrackHit, track, finder, ftfStage, bank>>

------------------------------------------------------------------------------
InRange(h) == hit[h].phi # 0 /\ hit[h].eta # 0

(* setPointers takes hits off the tracks they were on, and forgets the     *)
(* links of those that it puts in a cell.                                  *)
SetPointers_KeepsLinks == nextTrackHit

SetPointers == [h \in Index |-> IF h \in InUse /\ InRange(h) THEN 0 ELSE nextTrackHit[h]]

(* The length of a segment in the passes for primaries or secondaries.     *)
SegmentLength(primaries, n) == Most(IF primaries THEN 2 ELSE 3, n)

(* Begin the pass, or what follows passes of its kind.                     *)
BeginPass(primaries, n) ==
  LET kind == primaries /\ NPrimary > 0
      more == kind \/ NSecondary > 0
  IN /\ pass' = [primaries |-> kind, left |-> IF kind THEN NPrimary ELSE NSecondary]
     /\ nHitsSegment' = n
     /\ nHitsForSegment' = IF more THEN SegmentLength(kind, n) ELSE n
     /\ ftfStage' = IF more THEN "scanning" ELSE "tracked"
     /\ at' = 0

(* processSector, which process() leaves at once if there are no hits.     *)
ProcessSector ==
  /\ ftfStage = "reading"
  /\ track' = [h \in Index |-> IF h \in InUse THEN 0 ELSE track[h]]
  /\ tracks' = <<>>
  /\ IF hit = <<>>
     THEN /\ ftfStage' = "tracked"
          /\ UNCHANGED <<nextTrackHit, nHitsForSegment, nHitsSegment, pass, at>>
     ELSE /\ nextTrackHit' = SetPointers
          /\ BeginPass(TRUE, nHitsForSegment)
  /\ UNCHANGED <<nHyper, nRead, hit, bank>>

------------------------------------------------------------------------------
(* getTracks goes through the rows from the outermost in, and through the  *)
(* hits of a row as they came.                                             *)
Before(g, h) == hit[g].row > hit[h].row \/ (hit[g].row = hit[h].row /\ g < h)

Starts_Again == {h \in InUse : InRange(h) /\ track[h] = 0 /\ hit[h].row >= MinHitsPerTrack}

Starts == {h \in InUse : /\ InRange(h) /\ track[h] = 0
                         /\ hit[h].row >= MinHitsPerTrack
                         /\ (at = 0 \/ Before(at, h))}

IsNext(h) == h \in Starts /\ \A g \in Starts \ {h} : Before(h, g)

Full_OffByOne == Len(tracks) > MaxTracks

Full == Len(tracks) = MaxTracks

(* A track of one hit.                                                     *)
NewTrack(h) ==
  /\ ftfStage = "scanning" /\ IsNext(h) /\ ~Full
  /\ tracks' = Append(tracks, [firstHit |-> h, lastHit |-> h, nHits |-> 1,
                               innerMostRow |-> hit[h].row, outerMostRow |-> hit[h].row])
  /\ track' = [track EXCEPT ![h] = Len(tracks) + 1]
  /\ at' = h
  /\ ftfStage' = "segment"
  /\ UNCHANGED <<nHyper, nRead, hit, nextTrackHit, nHitsForSegment, nHitsSegment, pass, bank>>

(* A pass is over: what is left of its kind, then the other kind.          *)
EndPass(left, n) ==
  IF left > 0
  THEN /\ pass' = [pass EXCEPT !.left = left]
       /\ nHitsSegment' = n /\ nHitsForSegment' = SegmentLength(pass.primaries, n)
       /\ at' = 0
       /\ UNCHANGED ftfStage
  ELSE IF pass.primaries THEN BeginPass(FALSE, n)
  ELSE /\ ftfStage' = "tracked" /\ nHitsForSegment' = n
       /\ at' = 0
       /\ UNCHANGED <<pass, nHitsSegment>>

EndOfRows ==
  /\ ftfStage = "scanning" /\ Starts = {}
  /\ EndPass(pass.left - 1, nHitsSegment)
  /\ UNCHANGED <<array, tracks, bank>>

(* getTracks returns 1 without putting nHitsForSegment back, and no pass   *)
(* of its kind follows.                                                    *)
TooManyTracks ==
  /\ ftfStage = "scanning" /\ Starts # {} /\ Full
  /\ EndPass(0, nHitsForSegment)
  /\ UNCHANGED <<array, tracks, bank>>

------------------------------------------------------------------------------
id == Len(tracks)
this == tracks[id]

(* The rows seekNextHit looks in, from a row that counts from 1.           *)
RowsDown(row, range) ==
  LET first == Most(1, row - 1) IN first - Least(first, range) + 1 .. first
RowsUp(row, range) ==
  LET first == Most(1, row + 1) IN first .. first + Least(RowOuter - first + 1, range) - 1

NearPhi(p, q) == q - p \in -1..1 \/ (PhiClosed /\ {p, q} = {1, NPhi})

(* The unused hits in the cells around b, in some rows.                    *)
Candidates(b, rows) ==
  {h \in InUse : /\ track[h] = 0 /\ InRange(h) /\ hit[h].row \in rows
                 /\ NearPhi(hit[b].phi, hit[h].phi) /\ hit[h].eta - hit[b].eta \in -1..1}

(* add(), GO_DOWN: at the end of the list.                                 *)
AddLast(h) ==
  /\ nextTrackHit' = [nextTrackHit EXCEPT ![this.lastHit] = h]
  /\ tracks' = [tracks EXCEPT ![id].lastHit = h, ![id].innerMostRow = hit[h].row, ![id].nHits = @ + 1]
  /\ track' = [track EXCEPT ![h] = id]

(* add(), GO_UP: before the list.                                          *)
AddFirst(h) ==
  /\ nextTrackHit' = [nextTrackHit EXCEPT ![h] = this.firstHit]
  /\ tracks' = [tracks EXCEPT ![id].firstHit = h, ![id].outerMostRow = hit[h].row, ![id].nHits = @ + 1]
  /\ track' = [track EXCEPT ![h] = id]

(* The hits of a list, in order; the walk is cut off if it goes on.        *)
Walk(first) ==
  LET hop[k \in 0..MaxHits] ==
        IF k = 0 THEN first ELSE IF hop[k - 1] = 0 THEN 0 ELSE nextTrackHit[hop[k - 1]]
      length == Cardinality({k \in 0..MaxHits : hop[k] # 0})
  IN [k \in 1..length |-> hop[k - 1]]

OnList(first) == {Walk(first)[k] : k \in 1..Len(Walk(first))}

(* deleteCandidate frees the hits of the list, and the number of the track *)
(* is free too.                                                            *)
DeleteCandidate ==
  LET freed == OnList(this.firstHit)
  IN /\ nextTrackHit' = [h \in Index |-> IF h \in freed THEN 0 ELSE nextTrackHit[h]]
     /\ track' = [h \in Index |-> IF h \in freed THEN 0 ELSE track[h]]
     /\ tracks' = SubSeq(tracks, 1, id - 1)
     /\ ftfStage' = "scanning"

building == <<nHyper, nRead, hit, nHitsForSegment, nHitsSegment, pass, bank>>

(* segment(): hits are added until there are enough or none is found.      *)
SegmentHit ==
  /\ ftfStage = "segment" /\ this.nHits < nHitsForSegment
  /\ \E h \in Candidates(this.lastHit, RowsDown(hit[this.lastHit].row, SegmentRange)) : AddLast(h)
  /\ UNCHANGED <<building, at, ftfStage>>

NoSegment ==
  /\ ftfStage = "segment" /\ this.nHits < nHitsForSegment
  /\ DeleteCandidate
  /\ UNCHANGED <<building, at>>

Segment ==
  /\ ftfStage = "segment" /\ this.nHits >= nHitsForSegment
  /\ ftfStage' = "down"
  /\ UNCHANGED <<building, nextTrackHit, track, tracks, at>>

(* follow(), down to the innermost row.                                    *)
Above_OrAt(row, stop) == row >= stop

Above(row, stop) == row > stop

FollowDown ==
  /\ ftfStage = "down" /\ Above(hit[this.lastHit].row, 1)
  /\ \E h \in Candidates(this.lastHit, RowsDown(hit[this.lastHit].row, TrackRange)) : AddLast(h)
  /\ UNCHANGED <<building, at, ftfStage>>

(* It ends when nothing fits.  A track that is too short, or whose chi2    *)
(* is too large, is given up ...                                           *)
GiveUp ==
  /\ ftfStage = "down"
  /\ DeleteCandidate
  /\ UNCHANGED <<building, at>>

(* ... another goes on outwards, if it is to.                              *)
Keep ==
  /\ ftfStage = "down" /\ this.nHits >= MinHitsPerTrack
  /\ ftfStage' = IF GoBackwards THEN "up" ELSE "scanning"
  /\ UNCHANGED <<building, nextTrackHit, track, tracks, at>>

FollowUp ==
  /\ ftfStage = "up" /\ hit[this.firstHit].row < RowOuter
  /\ \E h \in Candidates(this.firstHit, RowsUp(hit[this.firstHit].row, TrackRange)) : AddFirst(h)
  /\ UNCHANGED <<building, at, ftfStage>>

(* What the second follow() returns is not looked at.                      *)
Built ==
  /\ ftfStage = "up"
  /\ ftfStage' = "scanning"
  /\ UNCHANGED <<building, nextTrackHit, track, tracks, at>>

------------------------------------------------------------------------------
(* fillTracks writes the tracks if the bank has room for all of them, and  *)
(* otherwise leaves in it what was there, which its caller reads.          *)
FillTracks == IF id > BankTracks THEN bank
              ELSE [t \in 1..id |-> tracks[t].nHits]

(* fillHits writes the hits of the tracks, list by list, and then those on *)
(* no track.                                                               *)
Written(list, t) == [k \in 1..Len(list) |-> [hit |-> list[k], trackId |-> t]]

FillHits ==
  LET lists[t \in 0..id] ==
        IF t = 0 THEN <<>> ELSE lists[t - 1] \o Written(Walk(tracks[t].firstHit), t)
      all[h \in 0..Len(hit)] ==
        IF h = 0 THEN lists[id]
        ELSE IF track[h] = 0 THEN Append(all[h - 1], [hit |-> h, trackId |-> 0]) ELSE all[h - 1]
  IN all[Len(hit)]

Write ==
  /\ ftfStage = "tracked"
  /\ bank' = FillTracks
  /\ ftfStage' = "written"
  /\ UNCHANGED <<array, finder>>

------------------------------------------------------------------------------
(* process(), once the hits are read.                                      *)
ProcessStep ==
  \/ \E h \in InUse : NewTrack(h)
  \/ EndOfRows \/ TooManyTracks
  \/ SegmentHit \/ NoSegment \/ Segment
  \/ FollowDown \/ GiveUp \/ Keep \/ FollowUp \/ Built

FtfNext == StartHypersector \/ ReadSector \/ ProcessSector \/ ProcessStep \/ Write

(* The thread that runs the tracker goes on.                               *)
FtfSpec     == FtfInit /\ [][FtfNext]_ftfVars
FtfLiveSpec == FtfSpec /\ WF_ftfVars(ProcessStep)

------------------------------------------------------------------------------
Track == [firstHit : Index, lastHit : Index, nHits : Nat,
          innerMostRow : 1..RowOuter, outerMostRow : 1..RowOuter]

(* The arrays hold what is put into them: hits up to maxHits, tracks up to *)
(* maxTracks (getTracks: "Max nr tracks reached").                         *)
FtfTypeOK ==
  /\ nHyper \in Nat /\ nRead \in 0..2 /\ hit \in Seq(Hit) /\ Len(hit) <= MaxHits
  /\ nextTrackHit \in [Index -> 0..MaxHits]
  /\ track \in [Index -> 0..MaxTracks]
  /\ tracks \in Seq(Track) /\ Len(tracks) <= MaxTracks
  /\ nHitsForSegment \in 1..3 /\ nHitsSegment \in 1..3
  /\ pass \in [primaries : BOOLEAN, left : Nat]
  /\ at \in 0..Len(hit)
  /\ ftfStage \in {"reading", "scanning", "segment", "down", "up", "tracked", "written"}

(* fillHits, which follows the lists, writes every hit exactly once, under *)
(* the track it is on (it warns "Actual number of hits written" otherwise),*)
(* although candidates that were given up and earlier hypersectors leave   *)
(* links in the array.                                                     *)
WrittenOnce ==
  ftfStage = "tracked" =>
    /\ Len(FillHits) = Len(hit)
    /\ \A h \in InUse : \E k \in 1..Len(FillHits) : FillHits[k] = [hit |-> h, trackId |-> track[h]]

(* A track has at most one hit in a row, so never more hits than the 45    *)
(* rows for which TruncatedMean has room (fDedxArray of FtfDedx), although *)
(* seekNextHit searches the first row again from the first row.            *)
OneHitPerRow ==
  ftfStage \notin {"reading", "written"} =>
    \A g, h \in InUse : g # h /\ track[g] = track[h] /\ track[g] # 0 => hit[g].row # hit[h].row

(* Tracking ends, whatever candidates are built and given up: every hit    *)
(* starts at most one candidate in a pass.                                 *)
TrackingEnds == ftfStage = "scanning" ~> ftfStage = "tracked"

(* The bookkeeping of the hits that the banks and the merging rest on.     *)
HitsAccounted == WrittenOnce /\ OneHitPerRow
=============================================================================
