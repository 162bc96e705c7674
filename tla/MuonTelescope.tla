----------------------------- MODULE MuonTelescope -----------------------------
(***************************************************************************)
(* The muon telescope.  mtd_hlt_reader decodes the words of two readout    *)
(* boards into the edges of strips, pairs the two ends of a strip into a   *)
(* hit, finds from the QT boards of the trigger which modules fired, and   *)
(* names the TPC sectors in front of them; matchMTD of the collector gives *)
(* the hits their tracks.                                                  *)
(*                                                                         *)
(* Angles are in hundredths of a degree and lengths in mm.  A module is a  *)
(* backleg and a tray.  The words of a QT board are known by the sum of    *)
(* the two times of each position, 0 if it does not pass the cuts; hits    *)
(* of the same distance are taken in any order.                            *)
(***************************************************************************)
EXTENDS Integers, Sequences, FiniteSets

CONSTANTS
  Run16,       \* whether the run is of 2016, with eight QT boards, not four
  Rdos,        \* what a readout board can send: sequences of words
  Triggers,    \* what the trigger can send
  Tracks,      \* global tracks, where they reach the telescope
  MaxEvents    \* bound: events

(* Word types 12, 4 and 5, and others.  Each of the four boards that a     *)
(* tdcid names has three chips.                                            *)
Word == [type : {"geo", "lead", "trail", "other"}, half : 0..1, backleg : 0..127,
         tdcid : {i \in 0..15 : i % 4 # 3}, chan : 0..7, tdc : Nat]

Boards == IF Run16 THEN 1..8 ELSE 1..4
Pos    == 1..8
Bit    == Boards \X (1..2)      \* of mtdTF201 and mtdTF201_2
Sums   == [Boards -> [Pos -> Nat]]

(* What a readout board sends, and the trigger, and where a track comes.   *)
RdoData     == Seq(Word)
TriggerData == [hasQT : BOOLEAN, sums : Sums, bits : SUBSET Bit]
TrackData   == [phi : 0..36000, z : Int]

ASSUME TelescopeAssumption ==
  /\ Run16 \in BOOLEAN /\ MaxEvents \in Nat
  /\ Rdos \subseteq RdoData /\ Triggers \subseteq TriggerData
  /\ Tracks \subseteq TrackData

VARIABLES
  stage, nEvents,
  rdoRead,                           \* the readout boards read in this event
  mtdLeadingHits, mtdTrailingHits,
  mtdQT,                             \* mtdQTtac and mtdQTadc, as sums
  mtdTF201, mTrigQTpos,
  mtd_send,                          \* of the last event
  hlt_trackId                        \* of the hits: a set of <<hit, track>>

raw  == <<rdoRead, mtdLeadingHits, mtdTrailingHits>>
trig == <<mtdQT, mtdTF201, mTrigQTpos>>
vars == <<stage, nEvents, raw, trig, mtd_send, hlt_trackId>>

NoSend == [hits |-> {}, isDimuon |-> FALSE, tpcMask |-> {}]
NoQT   == [b \in Boards |-> [p \in Pos |-> 0]]

Init ==
  /\ stage = "stopped" /\ nEvents = 0 /\ rdoRead = {}
  /\ mtdLeadingHits = <<>> /\ mtdTrailingHits = <<>>
  /\ mtdQT = NoQT /\ mtdTF201 = {} /\ mTrigQTpos = [b \in Bit |-> 0]
  /\ mtd_send = NoSend /\ hlt_trackId = {}

(* run_start makes a new reader: nothing is left of the run before.        *)
RunStart ==
  /\ stage \in {"stopped", "done"}
  /\ stage' = "done"
  /\ mtdLeadingHits' = <<>> /\ mtdTrailingHits' = <<>>
  /\ mtdQT' = NoQT /\ mtdTF201' = {} /\ mTrigQTpos' = [b \in Bit |-> 0]
  /\ UNCHANGED <<nEvents, rdoRead, mtd_send, hlt_trackId>>

(* event_start; clear() leaves what came from the trigger.                 *)
EventStart ==
  /\ stage = "done" /\ nEvents < MaxEvents
  /\ stage' = "rdo" /\ nEvents' = nEvents + 1 /\ rdoRead' = {}
  /\ mtdLeadingHits' = <<>> /\ mtdTrailingHits' = <<>>
  /\ mtd_send' = NoSend /\ hlt_trackId' = {}
  /\ UNCHANGED trig

------------------------------------------------------------------------------
(* MTD_TRAY2DIG_MAP: the board of a module.                                *)
Tray2Tdig(backleg) ==
  IF backleg \in {9, 23} THEN <<-1, -1, -1, -1, -1>>
  ELSE IF backleg \in 12..20 THEN <<-1, 0, 1, 4, -1>>
  ELSE <<0, 1, 2, 5, 4>>

(* MTD_STRIP_MAP: the chip (from 1) and channel of each strip.             *)
MtdStrip == <<21, 12, 32, 20, 14, 35, 25, 13, 30, 24, 11, 31,
              34, 22, 10, 37, 27, 17, 33, 23, 16, 36, 26, 15>>

(* The index in a table, or what the code has if it is not there.          *)
Find(table, x, none) ==
  IF \E i \in 1..Len(table) : table[i] = x
  THEN CHOOSE i \in 1..Len(table) : table[i] = x ELSE none

(* Modules 4 and 5 are mounted the other way round.                        *)
Flip(strip) == IF strip > 12 THEN strip - 12 ELSE strip + 12

(* The edge that a word stands for.  It remembers where it came from.      *)
RawHit(w, half, backleg) ==
  LET board == w.tdcid \div 4 + half * 4
      chan  == ((w.tdcid % 4) + 1) * 10 + w.chan
      tray  == Find(Tray2Tdig(backleg), board, 0)
      strip == Find(MtdStrip, chan, -1)
  IN [tdc |-> w.tdc, backleg |-> backleg,
      globaltdcchan |-> (IF board > 3 THEN Flip(strip) ELSE strip) + (tray - 1) * 24,
      board |-> board, chan |-> chan]

(* Data words count once a word has told the half backleg and if the       *)
(* backleg exists.                                                         *)
DecodeWord(s, w) ==
  IF w.type = "geo" THEN [s EXCEPT !.half = w.half, !.backleg = w.backleg]
  ELSE IF s.half < 0 \/ s.backleg \notin 1..30 THEN s
  ELSE IF w.type = "lead" THEN [s EXCEPT !.lead = Append(@, RawHit(w, s.half, s.backleg))]
  ELSE IF w.type = "trail" THEN [s EXCEPT !.trail = Append(@, RawHit(w, s.half, s.backleg))]
  ELSE s

NoWord == [half |-> -99, backleg |-> -99, lead |-> <<>>, trail |-> <<>>]

Decode(words) ==
  LET after[i \in 0..Len(words)] == IF i = 0 THEN NoWord ELSE DecodeWord(after[i - 1], words[i])
  IN after[Len(words)]

ReadRdoEvent(rdo, words) ==
  /\ stage = "rdo" /\ rdo \in 1..2 \ rdoRead
  /\ rdoRead' = rdoRead \cup {rdo}
  /\ mtdLeadingHits' = mtdLeadingHits \o Decode(words).lead
  /\ mtdTrailingHits' = mtdTrailingHits \o Decode(words).trail
  /\ UNCHANGED <<stage, nEvents, trig, mtd_send, hlt_trackId>>

------------------------------------------------------------------------------
(* The positions of the largest sum on a board and of the one after it.    *)
NewTop_Forgets(s, sum, p) == [s EXCEPT !.sum[1] = sum, !.pos[1] = p]

NewTop(s, sum, p) == [sum |-> <<sum, s.sum[1]>>, pos |-> <<p, s.pos[1]>>]

NoTop == [sum |-> <<0, 0>>, pos |-> <<-1, -1>>]

LookAt(s, sum, p) ==
  IF s.sum[1] < sum THEN NewTop(s, sum, p)
  ELSE IF s.sum[2] < sum THEN [sum |-> <<s.sum[1], sum>>, pos |-> <<s.pos[1], p>>]
  ELSE s

TopTwo(sums) ==
  LET scan[p \in 0..8] == IF p = 0 THEN NoTop ELSE LookAt(scan[p - 1], sums[p], p)
  IN scan[8].pos

(* A trigger without words of the QT boards leaves those that there are.   *)
ReadMtdTrigger(t) ==
  /\ stage = "rdo"
  /\ mtdQT' = IF t.hasQT THEN t.sums ELSE mtdQT
  /\ mtdTF201' = t.bits
  /\ mTrigQTpos' = [b \in Bit |-> IF b \in t.bits THEN TopTwo(mtdQT'[b[1]])[b[2]] ELSE -1]
  /\ stage' = "trigger"
  /\ UNCHANGED <<nEvents, raw, mtd_send, hlt_trackId>>

------------------------------------------------------------------------------
(* itray and ichan; / and % of C round to zero.                            *)
Tray(r) == IF r.globaltdcchan >= 1 THEN (r.globaltdcchan - 1) \div 24 + 1
           ELSE 1 - (1 - r.globaltdcchan) \div 24
Chan(r) == IF r.globaltdcchan >= 1 THEN (r.globaltdcchan - 1) % 24
           ELSE -((1 - r.globaltdcchan) % 24)

(* What fillMtdSingleHits lets pass.  A word of a board that is on no      *)
(* module has tray 1, as often as not, and a channel below 0.              *)
Real_AnyChannel(r) == r.backleg # 9 /\ Tray(r) \in 1..5

Real(r) == r.backleg # 9 /\ r.backleg \in 1..30 /\ Tray(r) \in 1..5 /\ Chan(r) \in 0..23

EndOf(r) == <<r.backleg, Tray(r), Chan(r)>>

(* The edges of an end of a strip, by their places, and the first of them. *)
Edges(edges, end) == {i \in 1..Len(edges) : Real(edges[i]) /\ EndOf(edges[i]) = end}
First(edges, end) ==
  edges[CHOOSE i \in Edges(edges, end) : \A j \in Edges(edges, end) : i <= j]

Ends == {e \in {EndOf(mtdLeadingHits[i]) : i \in 1..Len(mtdLeadingHits)} :
           Edges(mtdLeadingHits, e) # {} /\ Edges(mtdTrailingHits, e) # {}}

(* MODULE2QT and MODULE2CHAN, the latter as positions on the board.        *)
Qt16 == {<<1..2 \cup 28..30, <<2, 4, 2, 4, 2>>, <<6, 6, 4, 8, 8>> >>,
         <<3..7, <<3, 3, 4, 3, 3>>, <<2, 6, 2, 8, 4>> >>,
         <<{8, 10, 11}, <<5, 5, 6, 5, 5>>, <<2, 6, 2, 8, 4>> >>,
         <<{12}, <<-1, 5, 6, 5, -1>>, <<-1, 6, 2, 8, -1>> >>,
         <<13..17, <<-1, 8, 6, 8, -1>>, <<-1, 6, 4, 8, -1>> >>,
         <<18..20, <<-1, 7, 8, 7, -1>>, <<-1, 6, 2, 8, -1>> >>,
         <<21..22, <<7, 7, 8, 7, 7>>, <<2, 6, 2, 8, 4>> >>,
         <<24..27, <<1, 1, 2, 1, 1>>, <<2, 6, 2, 8, 4>> >>,
         <<{9, 23}, <<-1, -1, -1, -1, -1>>, <<-1, -1, -1, -1, -1>> >>}
Qt17 == {<<1..2 \cup 28..30, <<1, 2, 1, 2, 1>>, <<7, 7, 6, 8, 8>> >>,
         <<3..7, <<2, 2, 2, 2, 2>>, <<1, 3, 5, 4, 2>> >>,
         <<{8, 10, 11}, <<3, 3, 3, 3, 3>>, <<1, 3, 5, 4, 2>> >>,
         <<{12}, <<-1, 3, 3, 3, -1>>, <<-1, 3, 5, 4, -1>> >>,
         <<13..17, <<-1, 4, 3, 4, -1>>, <<-1, 7, 6, 8, -1>> >>,
         <<18..20, <<-1, 4, 4, 4, -1>>, <<-1, 3, 5, 4, -1>> >>,
         <<21..22, <<4, 4, 4, 4, 4>>, <<1, 3, 5, 4, 2>> >>,
         <<24..27, <<1, 1, 1, 1, 1>>, <<1, 3, 5, 4, 2>> >>,
         <<{9, 23}, <<-1, -1, -1, -1, -1>>, <<-1, -1, -1, -1, -1>> >>}

Row(backleg) ==
  CHOOSE row \in (IF Run16 THEN Qt16 ELSE Qt17) : backleg \in row[1]
ModuleToQT(backleg, tray)    == Row(backleg)[2][tray]
ModuleToQTPos(backleg, tray) == Row(backleg)[3][tray]

(* For a module without a QT board (-1) two words before mTrigQTpos are    *)
(* read; `before' says whether one of them is the -1 of its position.      *)
IsMtdHitFiredTrigger(backleg, tray, before) ==
  LET qt == ModuleToQT(backleg, tray)
  IN IF qt \in Boards THEN \E j \in 1..2 : mTrigQTpos[<<qt, j>>] = ModuleToQTPos(backleg, tray)
     ELSE before

Other(e) == <<e[1], e[2], e[3] + 12>>

(* fillMtdHits: channels that are twelve apart are the ends of a strip.    *)
FillMtdHits(before) ==
  {[backleg |-> e[1], tray |-> e[2], channel |-> e[3],
    lead  |-> <<First(mtdLeadingHits, e), First(mtdLeadingHits, Other(e))>>,
    trail |-> <<First(mtdTrailingHits, e), First(mtdTrailingHits, Other(e))>>,
    isTrigger |-> IsMtdHitFiredTrigger(e[1], e[2], before)]
   : e \in {d \in Ends : Other(d) \in Ends}}

------------------------------------------------------------------------------
RotatePhi(angle) == angle % 36000

(* Where a hit is in phi: a backleg has 12 degrees, a cell 0.6.            *)
HitPhi(h) ==
  LET centre == RotatePhi(9000 + (h.backleg - 1) * 1200)
      cell   == (11 - 2 * h.channel) * 30
  IN RotatePhi(IF h.tray \in 1..3 THEN centre - cell ELSE centre + cell)

(* Sectors 1..12 are in the west, clockwise, 13..24 in the east.           *)
West(phi) ==
  LET first  == 3 - phi \div 3000
      s == IF first < 1 THEN first + 12 ELSE first
  IN {s, IF s - 1 < 1 THEN s + 11 ELSE s - 1}

East_NoWrap(phi) ==
  LET first == phi \div 3000 + 21
      s == IF first > 24 THEN first - 12 ELSE first
  IN {s, s + 1}

East(phi) ==
  LET first == phi \div 3000 + 21
      s == IF first > 24 THEN first - 12 ELSE first
  IN {s, IF s + 1 > 24 THEN s - 11 ELSE s + 1}

Sectors(h) ==
  (IF h.tray < 5 THEN East(HitPhi(h)) ELSE {}) \cup (IF h.tray > 1 THEN West(HitPhi(h)) ELSE {})

(* Without a hit that fired, all sectors are tracked.                      *)
TpcMask(hits) ==
  LET fired == UNION {Sectors(h) : h \in {g \in hits : g.isTrigger}}
  IN IF fired = {} THEN 1..24 ELSE fired

DoEvent ==
  /\ stage \in {"rdo", "trigger"} /\ rdoRead # {}
  /\ \E before \in BOOLEAN :
       mtd_send' = [hits |-> FillMtdHits(before), tpcMask |-> TpcMask(FillMtdHits(before)),
                    isDimuon |-> Cardinality(mtdTF201) > 1]
  /\ stage' = "hits"
  /\ UNCHANGED <<nEvents, raw, trig, hlt_trackId>>

(* No data of the telescope.                                               *)
NoEvent ==
  /\ stage \in {"rdo", "trigger"} /\ rdoRead = {}
  /\ stage' = "done"
  /\ UNCHANGED <<nEvents, raw, trig, mtd_send, hlt_trackId>>

------------------------------------------------------------------------------
Sq(x) == x * x

(* The difference in phi is taken as it is, not around the circle.  One    *)
(* degree is 70 mm, a bin of the time difference 2 mm.                     *)
DeltaY(h, t) == ((HitPhi(h) - t.phi) * 7) \div 10
DeltaZ(h, t) == (h.tray - 3) * 870 - 2 * (h.lead[1].tdc - h.lead[2].tdc) - t.z
Distance(h, t) == Sq(DeltaY(h, t)) + Sq(DeltaZ(h, t))

InWindow(t) ==
  {h \in mtd_send.hits : DeltaY(h, t) \in -500..500 /\ DeltaZ(h, t) \in -500..500}

(* findMatchedMtdHit: the hits that may be the one of a track.             *)
Nearest_Any(t) == InWindow(t)

Nearest(t) == {h \in InWindow(t) : \A g \in InWindow(t) : Distance(h, t) <= Distance(g, t)}

(* matchMTD: each track chooses a hit, then each hit one of the tracks     *)
(* that chose it.                                                          *)
MatchMTD ==
  /\ stage = "hits"
  /\ \E tracks \in SUBSET Tracks :
       LET near == {t \in tracks : InWindow(t) # {}}
       IN \E choice \in [near -> mtd_send.hits] :
            LET chosen == {choice[t] : t \in near}
                Rivals(h) == {t \in near : choice[t] = h}
            IN /\ \A t \in near : choice[t] \in Nearest(t)
               /\ \E winner \in [chosen -> near] :
                    /\ \A h \in chosen :
                         /\ winner[h] \in Rivals(h)
                         /\ \A t \in Rivals(h) : Distance(h, winner[h]) <= Distance(h, t)
                    /\ hlt_trackId' = {<<h, winner[h]>> : h \in chosen}
  /\ stage' = "done"
  /\ UNCHANGED <<nEvents, raw, trig, mtd_send>>

Next ==
  \/ RunStart \/ EventStart
  \/ \E rdo \in 1..2, words \in Rdos : ReadRdoEvent(rdo, words)
  \/ \E t \in Triggers : ReadMtdTrigger(t)
  \/ DoEvent \/ NoEvent \/ MatchMTD

Spec == Init /\ [][Next]_vars

------------------------------------------------------------------------------
Raw == [tdc : Nat, backleg : 1..30, globaltdcchan : -23..120, board : 0..7, chan : 10..37]
Hit == [backleg : 1..30, tray : 1..5, channel : 0..11, lead : Raw \X Raw, trail : Raw \X Raw,
        isTrigger : BOOLEAN]

TypeOK ==
  /\ stage \in {"stopped", "done", "rdo", "trigger", "hits"}
  /\ nEvents \in Nat /\ rdoRead \subseteq 1..2
  /\ mtdLeadingHits \in Seq(Raw) /\ mtdTrailingHits \in Seq(Raw)
  /\ mtdQT \in Sums /\ mtdTF201 \subseteq Bit
  /\ mTrigQTpos \in [Bit -> -1..8]
  /\ mtd_send.hits \subseteq Hit /\ mtd_send.isDimuon \in BOOLEAN
  /\ mtd_send.tpcMask \subseteq 1..24
  /\ hlt_trackId \subseteq mtd_send.hits \X Tracks

(* A hit has the edges of its own strip: those of the board that is on its *)
(* module, each end from one channel.  Words of a board that is on no      *)
(* module, which fillMtdSingleHits calls "wrong raw hit", make none, and   *)
(* so no hit is ever asked for the QT board that its module does not have: *)
(* what lies before mTrigQTpos decides nothing.                            *)
OwnChannel ==
  \A h \in mtd_send.hits :
    /\ ModuleToQT(h.backleg, h.tray) \in Boards
    /\ \A k \in 1..2 :
         /\ h.lead[k].board = Tray2Tdig(h.backleg)[h.tray]
         /\ h.trail[k].board = h.lead[k].board /\ h.trail[k].chan = h.lead[k].chan
    /\ h.lead[1].chan # h.lead[2].chan

(* The positions that fired are those of the largest sums of their board,  *)
(* the largest and the one after it ("find the QT channel that fired the   *)
(* trigger"): no position is passed by for a smaller one, or is there      *)
(* twice.                                                                  *)
LargestFired ==
  \A b \in mtdTF201 :
    LET p == mTrigQTpos[b]
        above(s) == {q \in Pos : mtdQT[b[1]][q] > s}
    IN /\ IF p = -1 THEN Cardinality(above(0)) < b[2]
          ELSE /\ mtdQT[b[1]][p] > 0
               /\ Cardinality(above(mtdQT[b[1]][p])) < b[2]
       /\ <<b[1], 3 - b[2]>> \in mtdTF201 /\ p # -1 => mTrigQTpos[<<b[1], 3 - b[2]>>] # p

(* The angle between a hit and the middle of a sector.                     *)
Middle(s) == (IF s <= 12 THEN 3 - s ELSE s - 21) * 3000
Apart(a, b) == LET d == RotatePhi(a - b) IN IF d > 18000 THEN 36000 - d ELSE d

(* The sectors that are tracked are exactly the two "spatially closest"    *)
(* ones to a hit that fired, on each side that its module is on, also      *)
(* where the numbers wrap around; without such a hit they are all.         *)
MaskNearest ==
  stage = "hits" =>
    LET fired == {h \in mtd_send.hits : h.isTrigger}
        near(s) == {h \in fired : /\ Apart(HitPhi(h), Middle(s)) < 3000
                                  /\ IF s <= 12 THEN h.tray > 1 ELSE h.tray < 5}
    IN mtd_send.tpcMask = IF fired = {} THEN 1..24 ELSE {s \in 1..24 : near(s) # {}}

(* A track is given to one hit of this event, the nearest one of those     *)
(* near enough, and a hit has one track.                                   *)
MatchesDistinct ==
  \A m \in hlt_trackId :
    /\ m[1] \in InWindow(m[2])
    /\ \A h \in InWindow(m[2]) : Distance(m[1], m[2]) <= Distance(h, m[2])
    /\ \A n \in hlt_trackId \ {m} : n[1] # m[1] /\ n[2] # m[2]

(* From strips and sums to hits that fired and the sectors they call for.  *)
HitsSound == OwnChannel /\ LargestFired /\ MaskNearest
=============================================================================
