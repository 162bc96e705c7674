------------------------- MODULE MuonTelescope_proofs -------------------------
(***************************************************************************)
(* Theorems about MuonTelescope, for all words, sums and tracks.           *)
(*                                                                         *)
(* MatchesAreDistinct: the two choices of matchMTD, of a hit by each track *)
(* and of a track by each hit, leave pairs in which nobody occurs twice.   *)
(* HitsAreSound goes the way of the data: Recursion gives the functions    *)
(* that the decoder and the scan of the QT sums define, TopTwoIs what the  *)
(* scan finds; an edge of Wired remembers the word it came from, so that   *)
(* RealEdge can read the maps of strips and modules backwards; PhiOfHit    *)
(* says that no cell is in front of the middle of a sector, from which     *)
(* SectorsAre finds two sectors on each side.  HInv is inductive.          *)
(***************************************************************************)
EXTENDS MuonTelescope, TLAPS, FiniteSetTheorems, SequenceTheorems, WellFoundedInduction

(* Matches are of the hits in mtd_send, which are replaced only when the   *)
(* matches have been given up.                                             *)
MatchInv ==
  /\ stage \in {"stopped", "done", "rdo", "trigger", "hits"}
  /\ stage \in {"rdo", "trigger", "hits"} => hlt_trackId = {}
  /\ MatchesDistinct

(* The hits near a track are those of mtd_send.                            *)
LEMMA Windows ==
  ASSUME mtd_send' = mtd_send
  PROVE  \A t : InWindow(t)' = InWindow(t)
BY DEF InWindow

LEMMA MatchesKept ==
  ASSUME UNCHANGED <<mtd_send, hlt_trackId>>, MatchesDistinct
  PROVE  MatchesDistinct'
BY Windows DEF MatchesDistinct

(* A track that has chosen one of its nearest hits and a hit that has      *)
(* chosen one of the tracks that chose it make a sound pair.               *)
LEMMA MatchStep ==
  ASSUME MatchMTD
  PROVE  MatchesDistinct'
<1>1. mtd_send' = mtd_send
  BY DEF MatchMTD
<1>2. PICK tr \in SUBSET Tracks :
        LET near == {t \in tr : InWindow(t) # {}}
        IN \E choice \in [near -> mtd_send.hits] :
             LET chosen == {choice[t] : t \in near}
                 Rivals(h) == {t \in near : choice[t] = h}
             IN /\ \A t \in near : choice[t] \in Nearest(t)
                /\ \E winner \in [chosen -> near] :
                     /\ \A h \in chosen :
                          /\ winner[h] \in Rivals(h)
                          /\ \A t \in Rivals(h) : Distance(h, winner[h]) <= Distance(h, t)
                     /\ hlt_trackId' = {<<h, winner[h]>> : h \in chosen}
  BY DEF MatchMTD
<1> DEFINE near == {t \in tr : InWindow(t) # {}}
<1>3. PICK choice \in [near -> mtd_send.hits] :
        /\ \A t \in near : choice[t] \in Nearest(t)
        /\ \E winner \in [{choice[t] : t \in near} -> near] :
             /\ \A h \in {choice[t] : t \in near} : winner[h] \in {t \in near : choice[t] = h}
             /\ hlt_trackId' = {<<h, winner[h]>> : h \in {choice[t] : t \in near}}
  BY <1>2, Zenon
<1> DEFINE chosen == {choice[t] : t \in near}
<1>4. PICK winner \in [chosen -> near] :
        /\ \A h \in chosen : winner[h] \in {t \in near : choice[t] = h}
        /\ hlt_trackId' = {<<h, winner[h]>> : h \in chosen}
  BY <1>3
<1>5. \A h \in chosen : winner[h] \in near /\ choice[winner[h]] = h
  BY <1>4
<1> HIDE DEF near, chosen
<1> SUFFICES ASSUME NEW m \in hlt_trackId'
             PROVE  /\ m[1] \in InWindow(m[2])
                    /\ \A h \in InWindow(m[2]) : Distance(m[1], m[2]) <= Distance(h, m[2])
                    /\ \A n \in hlt_trackId' \ {m} : n[1] # m[1] /\ n[2] # m[2]
  BY <1>1, Windows DEF MatchesDistinct
<1>6. PICK h \in chosen : m = <<h, winner[h]>>
  BY <1>4
<1>7. m[1] \in Nearest(m[2])
  BY <1>3, <1>5, <1>6
<1>8. ASSUME NEW n \in hlt_trackId' \ {m}
      PROVE  n[1] # m[1] /\ n[2] # m[2]
  <2>1. PICK g \in chosen : n = <<g, winner[g]>>
    BY <1>4
  <2>2. g # h
    BY <1>6, <2>1
  <2>3. winner[g] # winner[h]
    BY <1>5, <2>2
  <2> QED
    BY <1>6, <2>1, <2>2, <2>3
<1> QED
  BY <1>7, <1>8 DEF Nearest

LEMMA MatchInvStep ==
  ASSUME MatchInv, [Next]_vars
  PROVE  MatchInv'
<1>1. CASE RunStart
  BY <1>1, MatchesKept DEF RunStart, MatchInv
<1>2. CASE EventStart
  BY <1>2 DEF EventStart, MatchInv, MatchesDistinct
<1>3. ASSUME NEW rdo \in 1..2, NEW words \in Rdos, ReadRdoEvent(rdo, words)
      PROVE  MatchInv'
  BY <1>3, MatchesKept DEF ReadRdoEvent, MatchInv
<1>4. ASSUME NEW t \in Triggers, ReadMtdTrigger(t)
      PROVE  MatchInv'
  BY <1>4, MatchesKept DEF ReadMtdTrigger, MatchInv
<1>5. CASE DoEvent
  BY <1>5 DEF DoEvent, MatchInv, MatchesDistinct
<1>6. CASE NoEvent
  BY <1>6, MatchesKept DEF NoEvent, MatchInv
<1>7. CASE MatchMTD
  <2>1. stage' = "done"
    BY <1>7 DEF MatchMTD
  <2> QED
    BY <1>7, <2>1, MatchStep DEF MatchInv
<1>8. CASE UNCHANGED vars
  BY <1>8, MatchesKept DEF vars, MatchInv
<1> QED
  BY <1>1, <1>2, <1>3, <1>4, <1>5, <1>6, <1>7, <1>8 DEF Next

(* No track has two hits of the telescope and no hit two tracks, and each  *)
(* pair is the track's nearest of this event (matchMTD,                    *)
(* findMatchedMtdHit).                                                     *)
THEOREM MatchesAreDistinct == Spec => []MatchesDistinct
<1>1. Init => MatchInv
  BY DEF Init, MatchInv, MatchesDistinct
<1>2. MatchInv => MatchesDistinct
  BY DEF MatchInv
<1> QED
  BY <1>1, <1>2, MatchInvStep, PTL DEF Spec

------------------------------------------------------------------------------
(* Numbers and recursion.                                                  *)
LEMMA LeastNumber ==
  ASSUME NEW S \in SUBSET Nat, S # {}
  PROVE  \E x \in S : \A y \in S : x <= y
<1> DEFINE Less == {ss \in Nat \X Nat : ss[1] < ss[2]}
<1>1. IsWellFoundedOn(Less, Nat)
  BY NatLessThanWellFounded, Zenon DEF OpToRel
<1> HIDE DEF Less
<1>2. PICK x \in S : \A y \in S : ~(<<y, x>> \in Less)
  BY <1>1, WFMin
<1>3. ASSUME NEW y \in S PROVE x <= y
  <2>1. x \in Nat /\ y \in Nat /\ <<y, x>> \notin Less
    BY <1>2
  <2>2. ~(y < x)
    <3>1. SUFFICES ASSUME y < x PROVE <<y, x>> \in Less
      BY <2>1
    <3>2. <<y, x>> \in Nat \X Nat /\ <<y, x>>[1] < <<y, x>>[2]
      BY <2>1, <3>1
    <3> QED
      BY <3>2 DEF Less
  <2> QED
    BY <2>1, <2>2
<1> QED
  BY <1>3

(* A property of 0 that every number hands on to the next one is one of    *)
(* all numbers up to n; P is the set of those that have it.                *)
LEMMA UpTo ==
  ASSUME NEW n \in Nat, NEW P, 0 \in P, \A i \in 1..n : i - 1 \in P => i \in P
  PROVE  0..n \subseteq P
<1> DEFINE bad == {i \in 0..n : i \notin P}
<1>1. ASSUME bad # {} PROVE FALSE
  <2>1. bad \in SUBSET Nat
    OBVIOUS
  <2>2. PICK i \in bad : \A j \in bad : i <= j
    BY <1>1, <2>1, LeastNumber
  <2>3. i \in 1..n /\ i - 1 \in 0..n /\ ~(i <= i - 1)
    OBVIOUS
  <2>4. i - 1 \in P
    BY <2>2, <2>3
  <2> QED
    BY <2>3, <2>4
<1> QED
  BY <1>1

(* A function that is defined from its value before exists.                *)
Steps(S, n) == [S \X (1..n) -> S]
Follows(f, start, n, step) == f[0] = start /\ \A i \in 1..n : f[i] = step[<<f[i - 1], i>>]

LEMMA Recursion ==
  ASSUME NEW S, NEW start \in S, NEW n \in Nat, NEW step \in Steps(S, n)
  PROVE  \E f \in [0..n -> S] : Follows(f, start, n, step)
<1> USE DEF Steps
<1> DEFINE Upto(k, f) == f[0] = start /\ \A i \in 1..k : f[i] = step[<<f[i - 1], i>>]
           P == {k \in 0..n : \E f \in [0..k -> S] : Upto(k, f)}
<1>1. 0 \in P
  <2> DEFINE f == [i \in 0..0 |-> start]
  <2>1. f \in [0..0 -> S] /\ Upto(0, f)
    OBVIOUS
  <2>2. 0 \in 0..n
    OBVIOUS
  <2> HIDE DEF f
  <2> QED
    BY <2>1, <2>2
<1>2. ASSUME NEW k \in 1..n, k - 1 \in P PROVE k \in P
  <2>1. PICK f \in [0..(k - 1) -> S] : Upto(k - 1, f)
    BY <1>2
  <2> DEFINE g == [i \in 0..k |-> IF i = k THEN step[<<f[k - 1], k>>] ELSE f[i]]
  <2>2. f[k - 1] \in S /\ step[<<f[k - 1], k>>] \in S
    <3>1. f[k - 1] \in S
      OBVIOUS
    <3>2. <<f[k - 1], k>> \in S \X (1..n)
      BY <3>1
    <3> QED
      BY <3>1, <3>2
  <2>3. g \in [0..k -> S]
    <3>1. \A i \in 0..k : i = k \/ i \in 0..(k - 1)
      OBVIOUS
    <3> QED
      BY <2>2, <3>1
  <2>4. g[0] = start
    BY <2>1
  <2>5. ASSUME NEW i \in 1..k PROVE g[i] = step[<<g[i - 1], i>>]
    <3>1. i - 1 \in 0..(k - 1) /\ i - 1 \in 0..k /\ i \in 0..k /\ i - 1 # k
      OBVIOUS
    <3>2. g[i - 1] = f[i - 1]
      BY <3>1
    <3>3. CASE i = k
      BY <3>1, <3>2, <3>3
    <3>4. CASE i # k
      <4>1. i \in 1..(k - 1)
        BY <3>4
      <4> QED
        BY <2>1, <3>1, <3>2, <3>4, <4>1
    <3> QED
      BY <3>3, <3>4
  <2> HIDE DEF g
  <2>6. k \in 0..n
    OBVIOUS
  <2> QED
    BY <2>3, <2>4, <2>5, <2>6
<1> HIDE DEF P
<1>3. 0..n \subseteq P
  BY <1>1, <1>2, UpTo
<1>4. n \in P
  BY <1>3
<1> QED
  BY <1>4 DEF P, Follows

------------------------------------------------------------------------------
(* The two largest sums of a board.                                        *)
Top == [sum : Nat \X Nat, pos : (-1..8) \X (-1..8)]

(* What the scan has found among the first p positions.                    *)
Largest(s, sums, p) ==
  /\ s \in Top /\ s.sum[2] <= s.sum[1]
  /\ \A k \in 1..2 : IF s.pos[k] = -1 THEN s.sum[k] = 0
                     ELSE s.pos[k] \in 1..p /\ s.sum[k] = sums[s.pos[k]] /\ s.sum[k] > 0
  /\ s.pos[1] = s.pos[2] => s.pos[1] = -1
  /\ \A q \in 1..p : sums[q] <= s.sum[1] /\ (q # s.pos[1] => sums[q] <= s.sum[2])

LEMMA TopIs ==
  ASSUME NEW s \in Top
  PROVE  /\ s = [sum |-> <<s.sum[1], s.sum[2]>>, pos |-> <<s.pos[1], s.pos[2]>>]
         /\ s.sum[1] \in Nat /\ s.sum[2] \in Nat /\ s.pos[1] \in -1..8 /\ s.pos[2] \in -1..8
BY DEF Top

(* What a look at one more position does.                                  *)
LEMMA LookIs ==
  ASSUME NEW s \in Top, NEW sum \in Nat, NEW p \in 1..8
  PROVE  LookAt(s, sum, p) =
           IF s.sum[1] < sum THEN [sum |-> <<sum, s.sum[1]>>, pos |-> <<p, s.pos[1]>>]
           ELSE IF s.sum[2] < sum THEN [sum |-> <<s.sum[1], sum>>, pos |-> <<s.pos[1], p>>]
           ELSE s
BY DEF LookAt, NewTop

LEMMA LookKeeps ==
  ASSUME NEW sums \in [Pos -> Nat], NEW p \in 1..8, NEW s, Largest(s, sums, p - 1)
  PROVE  Largest(LookAt(s, sums[p], p), sums, p)
<1> DEFINE t == LookAt(s, sums[p], p)
<1>1. s \in Top /\ sums[p] \in Nat /\ p - 1 \in 0..7
  BY DEF Largest, Pos
<1>2. /\ s.sum[1] \in Nat /\ s.sum[2] \in Nat /\ s.pos[1] \in -1..8 /\ s.pos[2] \in -1..8
      /\ s.sum[2] <= s.sum[1] /\ s.pos[1] # p /\ s.pos[2] # p
  BY <1>1, TopIs DEF Largest
<1>3. \A q \in 1..p : sums[q] \in Nat /\ (q = p \/ q \in 1..(p - 1))
  BY DEF Pos
<1>4. CASE s.sum[1] < sums[p]
  <2>1. t = [sum |-> <<sums[p], s.sum[1]>>, pos |-> <<p, s.pos[1]>>]
    BY <1>1, <1>4, LookIs
  <2>2. /\ t.sum[1] = sums[p] /\ t.sum[2] = s.sum[1] /\ t.pos[1] = p /\ t.pos[2] = s.pos[1]
        /\ t \in Top
    BY <1>1, <1>2, <2>1 DEF Top
  <2> HIDE DEF t
  <2> QED
    BY <1>2, <1>3, <1>4, <2>2 DEF Largest, t
<1>5. CASE ~(s.sum[1] < sums[p]) /\ s.sum[2] < sums[p]
  <2>1. t = [sum |-> <<s.sum[1], sums[p]>>, pos |-> <<s.pos[1], p>>]
    BY <1>1, <1>5, LookIs
  <2>2. /\ t.sum[1] = s.sum[1] /\ t.sum[2] = sums[p] /\ t.pos[1] = s.pos[1] /\ t.pos[2] = p
        /\ t \in Top
    BY <1>1, <1>2, <2>1 DEF Top
  <2> HIDE DEF t
  <2> QED
    BY <1>2, <1>3, <1>5, <2>2 DEF Largest, t
<1>6. CASE ~(s.sum[1] < sums[p]) /\ ~(s.sum[2] < sums[p])
  <2>1. t = s
    BY <1>1, <1>6, LookIs
  <2> HIDE DEF t
  <2> QED
    BY <1>1, <1>2, <1>3, <1>6, <2>1 DEF Largest, t
<1> QED
  BY <1>4, <1>5, <1>6

(* So read_mtd_trigger finds the two largest.                              *)
LEMMA TopTwoIs ==
  ASSUME NEW sums \in [Pos -> Nat]
  PROVE  \E s : Largest(s, sums, 8) /\ TopTwo(sums) = s.pos
<1> DEFINE Def(f) == f = [p \in 0..8 |-> IF p = 0 THEN NoTop ELSE LookAt(f[p - 1], sums[p], p)]
           scan == CHOOSE f : Def(f)
<1>1. \E f : Def(f)
  <2> DEFINE step == [x \in Top \X (1..8) |-> LookAt(x[1], sums[x[2]], x[2])]
  <2>1. NoTop \in Top
    BY DEF NoTop, Top
  <2>2. ASSUME NEW x \in Top \X (1..8) PROVE LookAt(x[1], sums[x[2]], x[2]) \in Top
    <3>1. x[1] \in Top /\ x[2] \in 1..8 /\ sums[x[2]] \in Nat
      BY DEF Pos
    <3> DEFINE s == x[1]
               sum == sums[x[2]]
               q == x[2]
    <3>2. /\ s.sum[1] \in Nat /\ s.sum[2] \in Nat /\ s.pos[1] \in -1..8 /\ s.pos[2] \in -1..8
          /\ sum \in Nat /\ q \in -1..8
      BY <3>1, TopIs
    <3>3. LookAt(s, sum, q) =
           IF s.sum[1] < sum THEN [sum |-> <<sum, s.sum[1]>>, pos |-> <<q, s.pos[1]>>]
           ELSE IF s.sum[2] < sum THEN [sum |-> <<s.sum[1], sum>>, pos |-> <<s.pos[1], q>>]
           ELSE s
      BY <3>1, LookIs
    <3> HIDE DEF s, sum, q
    <3>4. LookAt(s, sum, q) \in Top
      BY <3>1, <3>2, <3>3 DEF Top, s
    <3> QED
      BY <3>4 DEF s, sum, q
  <2>3. step \in [Top \X (1..8) -> Top]
    BY <2>2
  <2>4. PICK f \in [0..8 -> Top] : f[0] = NoTop /\ \A i \in 1..8 : f[i] = step[<<f[i - 1], i>>]
    <3>1. step \in Steps(Top, 8) /\ 8 \in Nat
      BY <2>3 DEF Steps
    <3> HIDE DEF step
    <3>2. \E f \in [0..8 -> Top] : Follows(f, NoTop, 8, step)
      BY <2>1, <3>1, Recursion
    <3> QED
      BY <3>2 DEF Follows
  <2>5. \A i \in 1..8 : f[i] = LookAt(f[i - 1], sums[i], i)
    <3>1. \A i \in 1..8 : <<f[i - 1], i>> \in Top \X (1..8)
      OBVIOUS
    <3> QED
      BY <2>4, <3>1
  <2>6. \A i \in 0..8 : f[i] = IF i = 0 THEN NoTop ELSE LookAt(f[i - 1], sums[i], i)
    BY <2>4, <2>5
  <2> QED
    BY <2>6
<1>2. Def(scan)
  BY <1>1
<1> HIDE DEF scan
<1> DEFINE P == {p \in 0..8 : Largest(scan[p], sums, p)}
<1>3. 0 \in P
  BY <1>2 DEF Largest, NoTop, Top
<1>4. ASSUME NEW p \in 1..8, p - 1 \in P PROVE p \in P
  <2>1. scan[p] = LookAt(scan[p - 1], sums[p], p)
    BY <1>2
  <2> QED
    BY <1>4, <2>1, LookKeeps
<1>5. 8 \in P
  <2> HIDE DEF P
  <2> QED
    BY <1>3, <1>4, UpTo
<1>6. TopTwo(sums) = scan[8].pos
  BY DEF TopTwo, scan
<1> QED
  BY <1>5, <1>6

------------------------------------------------------------------------------
(* Strips and modules.  An edge remembers the board and the channel of its *)
(* word, and its globaltdcchan is the one the maps give them.              *)
Chip == (10..17) \cup (20..27) \cup (30..37)

Place(board, chan, backleg) ==
  (IF board > 3 THEN Flip(Find(MtdStrip, chan, -1)) ELSE Find(MtdStrip, chan, -1))
    + (Find(Tray2Tdig(backleg), board, 0) - 1) * 24

Wired ==
  {r \in [tdc : Nat, backleg : 1..30, globaltdcchan : Int, board : 0..7, chan : Chip] :
     r.globaltdcchan = Place(r.board, r.chan, r.backleg)}

LEMMA StripOfChan ==
  ASSUME NEW c \in Chip
  PROVE  Find(MtdStrip, c, -1) \in 1..24 /\ MtdStrip[Find(MtdStrip, c, -1)] = c
<1>1. Len(MtdStrip) = 24
  BY DEF MtdStrip
<1>2. \E i \in 1..24 : MtdStrip[i] = c
  BY DEF MtdStrip, Chip
<1> QED
  BY <1>1, <1>2 DEF Find

LEMMA StripsDiffer ==
  ASSUME NEW i \in 1..24, NEW j \in 1..24, MtdStrip[i] = MtdStrip[j]
  PROVE  i = j
BY DEF MtdStrip

LEMMA TrayOfBoard ==
  ASSUME NEW backleg \in 1..30, NEW board \in 0..7
  PROVE  LET tray == Find(Tray2Tdig(backleg), board, 0)
         IN tray \in 0..5 /\ (tray # 0 => Tray2Tdig(backleg)[tray] = board)
<1>1. Len(Tray2Tdig(backleg)) = 5
  BY DEF Tray2Tdig
<1>2. CASE \E i \in 1..5 : Tray2Tdig(backleg)[i] = board
  BY <1>1, <1>2 DEF Find
<1>3. CASE ~\E i \in 1..5 : Tray2Tdig(backleg)[i] = board
  BY <1>1, <1>3 DEF Find
<1> QED
  BY <1>2, <1>3

LEMMA FlipIs ==
  ASSUME NEW strip \in 1..24
  PROVE  /\ Flip(strip) \in 1..24 /\ Flip(Flip(strip)) = strip
BY DEF Flip

LEMMA WiredIsRaw ==
  ASSUME NEW r \in Wired
  PROVE  r \in Raw
<1> DEFINE strip == Find(MtdStrip, r.chan, -1)
           tray == Find(Tray2Tdig(r.backleg), r.board, 0)
<1>1. /\ r = [tdc |-> r.tdc, backleg |-> r.backleg, globaltdcchan |-> r.globaltdcchan,
              board |-> r.board, chan |-> r.chan]
      /\ r.tdc \in Nat /\ r.backleg \in 1..30 /\ r.board \in 0..7 /\ r.chan \in Chip
  BY DEF Wired
<1>2. strip \in 1..24 /\ tray \in 0..5 /\ Flip(strip) \in 1..24
  BY <1>1, StripOfChan, TrayOfBoard, FlipIs
<1>3. r.globaltdcchan = (IF r.board > 3 THEN Flip(strip) ELSE strip) + (tray - 1) * 24
  BY DEF Wired, Place
<1> HIDE DEF strip, tray
<1>4. r.globaltdcchan \in -23..120
  BY <1>2, <1>3
<1>5. r.chan \in 10..37
  BY <1>1 DEF Chip
<1> QED
  BY <1>1, <1>4, <1>5 DEF Raw

(* The edge that a word gives.                                             *)
LEMMA WordIsWired ==
  ASSUME NEW w \in Word, NEW half \in 0..1, NEW backleg \in 1..30
  PROVE  RawHit(w, half, backleg) \in Wired
<1> DEFINE board == w.tdcid \div 4 + half * 4
           chan == ((w.tdcid % 4) + 1) * 10 + w.chan
           r == RawHit(w, half, backleg)
<1>1. w.tdcid \in 0..15 /\ w.tdcid % 4 # 3 /\ w.chan \in 0..7 /\ w.tdc \in Nat
  BY DEF Word
<1>2. board \in 0..7
  BY <1>1
<1>3. chan \in Chip
  <2>1. w.tdcid % 4 \in 0..2
    BY <1>1
  <2> QED
    BY <1>1, <2>1 DEF Chip
<1> HIDE DEF board, chan
<1>4. r = [tdc |-> w.tdc, backleg |-> backleg, globaltdcchan |-> Place(board, chan, backleg),
           board |-> board, chan |-> chan]
  BY DEF RawHit, Place, board, chan
<1>5. Place(board, chan, backleg) \in Int
  <2>1. /\ Find(MtdStrip, chan, -1) \in 1..24 /\ Find(Tray2Tdig(backleg), board, 0) \in 0..5
        /\ Flip(Find(MtdStrip, chan, -1)) \in 1..24
    BY <1>2, <1>3, StripOfChan, TrayOfBoard, FlipIs
  <2> QED
    BY <2>1 DEF Place
<1> QED
  BY <1>1, <1>2, <1>3, <1>4, <1>5 DEF Wired

(* The decoder.                                                            *)
Decoder == [half : {-99, 0, 1}, backleg : {-99} \cup (0..127), lead : Seq(Wired), trail : Seq(Wired)]

LEMMA DecodeWordIs ==
  ASSUME NEW s \in Decoder, NEW w \in Word
  PROVE  DecodeWord(s, w) \in Decoder
<1>1. w.half \in 0..1 /\ w.backleg \in 0..127
  BY DEF Word
<1>2. /\ s.half \in {-99, 0, 1} /\ s.backleg \in {-99} \cup (0..127)
      /\ s.lead \in Seq(Wired) /\ s.trail \in Seq(Wired)
      /\ s = [half |-> s.half, backleg |-> s.backleg, lead |-> s.lead, trail |-> s.trail]
  BY DEF Decoder
<1>3. CASE w.type = "geo"
  <2>1. DecodeWord(s, w) = [half |-> w.half, backleg |-> w.backleg, lead |-> s.lead, trail |-> s.trail]
    BY <1>2, <1>3 DEF DecodeWord
  <2> QED
    BY <1>1, <1>2, <2>1 DEF Decoder
<1>4. CASE w.type # "geo" /\ (s.half < 0 \/ s.backleg \notin 1..30)
  BY <1>4 DEF DecodeWord
<1>5. CASE w.type # "geo" /\ ~(s.half < 0 \/ s.backleg \notin 1..30)
  <2> DEFINE r == RawHit(w, s.half, s.backleg)
  <2>1. r \in Wired
    <3>1. s.half \in 0..1 /\ s.backleg \in 1..30
      BY <1>2, <1>5
    <3> QED
      BY <3>1, WordIsWired
  <2>2. Append(s.lead, r) \in Seq(Wired) /\ Append(s.trail, r) \in Seq(Wired)
    BY <1>2, <2>1, AppendProperties
  <2> HIDE DEF r
  <2>3. \/ DecodeWord(s, w) = [s EXCEPT !.lead = Append(s.lead, r)]
        \/ DecodeWord(s, w) = [s EXCEPT !.trail = Append(s.trail, r)]
        \/ DecodeWord(s, w) = s
    BY <1>5 DEF DecodeWord, r
  <2>4. \A x : /\ [s EXCEPT !.lead = x] = [half |-> s.half, backleg |-> s.backleg, lead |-> x, trail |-> s.trail]
              /\ [s EXCEPT !.trail = x] = [half |-> s.half, backleg |-> s.backleg, lead |-> s.lead, trail |-> x]
    BY <1>2
  <2> QED
    BY <1>2, <2>2, <2>3, <2>4 DEF Decoder
<1> QED
  BY <1>3, <1>4, <1>5

LEMMA DecodeIs ==
  ASSUME NEW words \in Seq(Word)
  PROVE  Decode(words).lead \in Seq(Wired) /\ Decode(words).trail \in Seq(Wired)
<1> DEFINE n == Len(words)
           Def(f) == f = [i \in 0..n |-> IF i = 0 THEN NoWord ELSE DecodeWord(f[i - 1], words[i])]
           after == CHOOSE f : Def(f)
<1>1. n \in Nat /\ \A i \in 1..n : words[i] \in Word
  BY LenProperties, ElementOfSeq
<1>2. Decode(words) = after[n]
  BY DEF Decode
<1> HIDE DEF n
<1>3. NoWord \in Decoder
  BY EmptySeq DEF NoWord, Decoder
<1>4. \E f : Def(f)
  <2> DEFINE step == [x \in Decoder \X (1..n) |-> DecodeWord(x[1], words[x[2]])]
  <2>1. step \in Steps(Decoder, n)
    BY <1>1, DecodeWordIs DEF Steps
  <2>2. PICK f \in [0..n -> Decoder] : Follows(f, NoWord, n, step)
    <3> HIDE DEF step
    <3> QED
      BY <1>1, <1>3, <2>1, Recursion
  <2>3. \A i \in 1..n : f[i] = DecodeWord(f[i - 1], words[i])
    <3>1. \A i \in 1..n : <<f[i - 1], i>> \in Decoder \X (1..n)
      BY <1>1
    <3> QED
      BY <2>2, <3>1 DEF Follows
  <2>4. \A i \in 0..n : f[i] = IF i = 0 THEN NoWord ELSE DecodeWord(f[i - 1], words[i])
    BY <1>1, <2>2, <2>3 DEF Follows
  <2> QED
    BY <2>4
<1>5. Def(after)
  BY <1>4
<1> HIDE DEF after
<1> DEFINE P == {i \in 0..n : after[i] \in Decoder}
<1>6. 0 \in P
  BY <1>1, <1>3, <1>5
<1>7. ASSUME NEW i \in 1..n, i - 1 \in P PROVE i \in P
  <2>1. after[i] = DecodeWord(after[i - 1], words[i])
    BY <1>1, <1>5
  <2> QED
    BY <1>1, <1>7, <2>1, DecodeWordIs
<1>8. n \in P
  <2> HIDE DEF P
  <2>1. 0..n \subseteq P
    BY <1>1, <1>6, <1>7, UpTo
  <2> QED
    BY <1>1, <2>1
<1> QED
  BY <1>2, <1>8 DEF Decoder

------------------------------------------------------------------------------
(* The hits.  An end of a strip tells the board and the channel of all the *)
(* edges that fillMtdSingleHits keeps for it.                              *)
End == {e \in (1..30) \X (1..5) \X (0..23) : Tray2Tdig(e[1])[e[2]] \in 0..7}

ChanOf(e) ==
  MtdStrip[IF Tray2Tdig(e[1])[e[2]] > 3 THEN Flip(e[3] + 1) ELSE e[3] + 1]

LEMMA PlaceDivides ==
  ASSUME NEW strip \in 1..24, NEW tray \in 1..5, NEW g, g = strip + (tray - 1) * 24
  PROVE  g >= 1 /\ (g - 1) \div 24 + 1 = tray /\ (g - 1) % 24 = strip - 1
<1>1. tray = 1 \/ tray = 2 \/ tray = 3 \/ tray = 4 \/ tray = 5
  OBVIOUS
<1> QED
  BY <1>1

LEMMA RealEdge ==
  ASSUME NEW r \in Wired, Real(r)
  PROVE  /\ EndOf(r) \in End
         /\ r.board = Tray2Tdig(EndOf(r)[1])[EndOf(r)[2]] /\ r.chan = ChanOf(EndOf(r))
<1> DEFINE strip == Find(MtdStrip, r.chan, -1)
           tray == Find(Tray2Tdig(r.backleg), r.board, 0)
           turned == IF r.board > 3 THEN Flip(strip) ELSE strip
           g == r.globaltdcchan
<1>1. r.backleg \in 1..30 /\ r.board \in 0..7 /\ r.chan \in Chip
  BY DEF Wired
<1>2. /\ strip \in 1..24 /\ MtdStrip[strip] = r.chan
      /\ tray \in 0..5 /\ (tray # 0 => Tray2Tdig(r.backleg)[tray] = r.board)
      /\ Flip(strip) \in 1..24 /\ Flip(Flip(strip)) = strip
  BY <1>1, StripOfChan, TrayOfBoard, FlipIs
<1>3. g = turned + (tray - 1) * 24 /\ turned \in 1..24
  BY <1>2 DEF Wired, Place
<1>4. EndOf(r) = <<r.backleg, Tray(r), Chan(r)>> /\ Tray(r) \in 1..5 /\ Chan(r) \in 0..23
  BY DEF EndOf, Real
<1> HIDE DEF strip, tray, turned, g
<1>5. tray # 0
  <2>1. SUFFICES ASSUME tray = 0 PROVE FALSE
    OBVIOUS
  <2>2. g \in -23..0
    BY <1>3, <2>1
  <2>3. Tray(r) = 1 - (1 - g) \div 24 /\ Chan(r) = -((1 - g) % 24)
    BY <2>2 DEF Tray, Chan, g
  <2>4. g = -23 => Tray(r) = 0
    BY <2>3
  <2>5. g # -23 => (1 - g) % 24 > 0
    BY <2>2
  <2> QED
    BY <1>4, <2>2, <2>3, <2>4, <2>5
<1>6. Tray(r) = tray /\ Chan(r) = turned - 1
  <2>1. g >= 1 /\ (g - 1) \div 24 + 1 = tray /\ (g - 1) % 24 = turned - 1
    BY <1>2, <1>3, <1>5, PlaceDivides
  <2> QED
    BY <2>1 DEF Tray, Chan, g
<1>7. Tray2Tdig(r.backleg)[Tray(r)] = r.board
  BY <1>2, <1>5, <1>6
<1>8. MtdStrip[IF r.board > 3 THEN Flip(Chan(r) + 1) ELSE Chan(r) + 1] = r.chan
  <2>1. Chan(r) + 1 = turned
    BY <1>3, <1>6
  <2> QED
    BY <1>2, <2>1 DEF turned
<1> QED
  BY <1>1, <1>4, <1>7, <1>8 DEF End, ChanOf

LEMMA FirstEdge ==
  ASSUME NEW edges \in Seq(Wired), NEW e, Edges(edges, e) # {}
  PROVE  First(edges, e) \in Wired /\ Real(First(edges, e)) /\ EndOf(First(edges, e)) = e
<1>1. Edges(edges, e) \in SUBSET Nat
  BY LenProperties DEF Edges
<1>2. \E i \in Edges(edges, e) : \A j \in Edges(edges, e) : i <= j
  BY <1>1, LeastNumber
<1>3. \E i \in Edges(edges, e) : First(edges, e) = edges[i]
  BY <1>2 DEF First
<1> QED
  BY <1>3, ElementOfSeq DEF Edges

(* Every module that has a board of the readout has one of the trigger.    *)
LEMMA RowOfBackleg ==
  ASSUME NEW backleg \in 1..30
  PROVE  /\ backleg \in Row(backleg)[1]
         /\ Row(backleg) \in (IF Run16 THEN Qt16 ELSE Qt17)
<1>1. \E row \in Qt16 : backleg \in row[1]
  BY DEF Qt16
<1>2. \E row \in Qt17 : backleg \in row[1]
  BY DEF Qt17
<1> QED
  BY <1>1, <1>2 DEF Row

LEMMA QtOfModule ==
  ASSUME NEW backleg \in 1..30, NEW tray \in 1..5, Tray2Tdig(backleg)[tray] \in 0..7
  PROVE  ModuleToQT(backleg, tray) \in Boards
<1>1. ASSUME NEW row \in Qt16, backleg \in row[1] PROVE row[2][tray] \in 1..8
  BY <1>1 DEF Qt16, Tray2Tdig
<1>2. ASSUME NEW row \in Qt17, backleg \in row[1] PROVE row[2][tray] \in 1..4
  BY <1>2 DEF Qt17, Tray2Tdig
<1>3. CASE Run16
  BY <1>1, <1>3, RowOfBackleg DEF ModuleToQT, Boards
<1>4. CASE ~Run16
  BY <1>2, <1>4, RowOfBackleg DEF ModuleToQT, Boards
<1> QED
  BY <1>3, <1>4

LEMMA OtherEnd ==
  ASSUME NEW e \in End, Other(e) \in End
  PROVE  /\ e[3] \in 0..11 /\ ChanOf(e) # ChanOf(Other(e))
         /\ Tray2Tdig(Other(e)[1])[Other(e)[2]] = Tray2Tdig(e[1])[e[2]]
<1> DEFINE board == Tray2Tdig(e[1])[e[2]]
           i == IF board > 3 THEN Flip(e[3] + 1) ELSE e[3] + 1
           j == IF board > 3 THEN Flip(e[3] + 13) ELSE e[3] + 13
<1>1. e[3] \in 0..11
  BY DEF End, Other
<1>2. i \in 1..24 /\ j \in 1..24 /\ i # j
  BY <1>1 DEF Flip
<1>3. Other(e)[1] = e[1] /\ Other(e)[2] = e[2] /\ Other(e)[3] + 1 = e[3] + 13
  BY <1>1 DEF Other
<1>4. ChanOf(e) = MtdStrip[i] /\ ChanOf(Other(e)) = MtdStrip[j]
  BY <1>3 DEF ChanOf
<1> HIDE DEF i, j
<1> QED
  BY <1>1, <1>2, <1>3, <1>4, StripsDiffer

------------------------------------------------------------------------------
(* Angles on the circle.                                                   *)
LEMMA Circle0 ==
  ASSUME NEW x \in Int, NEW r \in Int, 0 <= r, r < 36000, x = r
  PROVE  RotatePhi(x) = r
BY DEF RotatePhi

LEMMA Circle1 ==
  ASSUME NEW x \in Int, NEW r \in Int, 0 <= r, r < 36000, x = r + 36000
  PROVE  RotatePhi(x) = r
BY DEF RotatePhi

LEMMA Circle2 ==
  ASSUME NEW x \in Int, NEW r \in Int, 0 <= r, r < 36000, x = r - 36000
  PROVE  RotatePhi(x) = r
BY DEF RotatePhi

LEMMA Circle3 ==
  ASSUME NEW x \in Int, NEW r \in Int, 0 <= r, r < 36000, x = r + 72000
  PROVE  RotatePhi(x) = r
BY DEF RotatePhi

LEMMA Circle4 ==
  ASSUME NEW x \in Int, NEW r \in Int, 0 <= r, r < 36000, x = r - 72000
  PROVE  RotatePhi(x) = r
BY DEF RotatePhi

LEMMA Circle ==
  ASSUME NEW x \in Int, NEW r \in Int, 0 <= r, r < 36000,
         x = r \/ x = r + 36000 \/ x = r - 36000 \/ x = r + 72000 \/ x = r - 72000
  PROVE  RotatePhi(x) = r
<1>1. CASE x = r
  BY <1>1, Circle0
<1>2. CASE x = r + 36000
  BY <1>2, Circle1
<1>3. CASE x = r - 36000
  BY <1>3, Circle2
<1>4. CASE x = r + 72000
  BY <1>4, Circle3
<1>5. CASE x = r - 72000
  BY <1>5, Circle4
<1> QED
  BY <1>1, <1>2, <1>3, <1>4, <1>5

(* From hours of 30 degrees to angles.                                     *)
LEMMA Hours ==
  ASSUME NEW x \in -20..31
  PROVE  /\ x % 12 \in 0..11
         /\ \/ x = x % 12
            \/ x = (x % 12) + 12
            \/ x = (x % 12) - 12
            \/ x = (x % 12) + 24
            \/ x = (x % 12) - 24
OBVIOUS

LEMMA Away ==
  ASSUME NEW n \in Int, NEW k \in Int, NEW d \in Int, NEW rest \in Int,
         NEW x \in Int, NEW r \in Int, x = (n * 3000 + rest) - k * 3000, r = d * 3000 + rest
  PROVE  /\ n - k = d => x = r
         /\ n - k = d + 12 => x = r + 36000
         /\ n - k = d + 24 => x = r + 72000
         /\ n - k = d - 12 => x = r - 36000
         /\ n - k = d - 24 => x = r - 72000
OBVIOUS

LEMMA ApartIs ==
  ASSUME NEW a, NEW b, NEW x, NEW r, a - b = x, RotatePhi(x) = r
  PROVE  Apart(a, b) = IF r > 18000 THEN 36000 - r ELSE r
BY DEF Apart

(* The middles of the modules and of the cells, in steps of 0.6 degrees.   *)
ModuleAt(phi) == \E u \in 0..599 : phi = u * 60
CellAt(phi)   == \E u \in 0..599 : phi = u * 60 + 30

LEMMA Turn ==
  ASSUME NEW w \in -6..606, NEW x, x = w * 60 + 30
  PROVE  CellAt(RotatePhi(x))
<1>1. PICK u \in 0..599 : u = w \/ u = w - 600 \/ u = w + 600
  OBVIOUS
<1>2. PICK r \in Int : 0 <= r /\ r < 36000 /\ r = u * 60 + 30
  OBVIOUS
<1>3. x \in Int
  OBVIOUS
<1>4. x = r \/ x = r + 36000 \/ x = r - 36000
  BY <1>1, <1>2
<1>5. RotatePhi(x) = r
  <2>1. x \in Int /\ r \in Int /\ 0 <= r /\ r < 36000
    BY <1>2, <1>3
  <2> QED
    BY <1>4, <2>1, Circle
<1> QED
  BY <1>2, <1>5 DEF CellAt

LEMMA Centre ==
  ASSUME NEW backleg \in 1..30
  PROVE  ModuleAt(RotatePhi(9000 + (backleg - 1) * 1200))
<1>1. PICK a \in 0..599 : a = 150 + (backleg - 1) * 20 \/ a = 150 + (backleg - 1) * 20 - 600
  OBVIOUS
<1>2. PICK r \in Int : 0 <= r /\ r < 36000 /\ r = a * 60
  OBVIOUS
<1>3. PICK x \in Int : x = 9000 + (backleg - 1) * 1200
  OBVIOUS
<1>4. x = r \/ x = r + 36000
  BY <1>1, <1>2, <1>3
<1>5. RotatePhi(x) = r
  <2>1. x \in Int /\ r \in Int /\ 0 <= r /\ r < 36000
    BY <1>2, <1>3
  <2> QED
    BY <1>4, <2>1, Circle
<1>6. ModuleAt(RotatePhi(x))
  BY <1>2, <1>5 DEF ModuleAt
<1> QED
  BY <1>3, <1>6

Offset(channel) == (11 - 2 * channel) * 30

LEMMA CellOf ==
  ASSUME NEW c, ModuleAt(c), NEW channel \in 0..11
  PROVE  CellAt(RotatePhi(c - Offset(channel))) /\ CellAt(RotatePhi(c + Offset(channel)))
<1>1. PICK a \in 0..599 : c = a * 60
  BY DEF ModuleAt
<1>2. PICK v \in -6..606 : v = a - 6 + channel
  OBVIOUS
<1>3. PICK w \in -6..606 : w = a + 5 - channel
  OBVIOUS
<1>4. c - Offset(channel) = v * 60 + 30 /\ c + Offset(channel) = w * 60 + 30
  BY <1>1, <1>2, <1>3 DEF Offset
<1>5. CellAt(RotatePhi(c - Offset(channel)))
  BY <1>2, <1>4, Turn
<1>6. CellAt(RotatePhi(c + Offset(channel)))
  BY <1>3, <1>4, Turn
<1> QED
  BY <1>5, <1>6

(* An angle is inside of an hour, at neither of its ends.                  *)
InHour(phi, n) == phi \in Int /\ 0 < phi - n * 3000 /\ phi - n * 3000 < 3000

LEMMA HourOf ==
  ASSUME NEW phi, CellAt(phi)
  PROVE  \E n \in 0..11 : InHour(phi, n)
<1>1. PICK u \in 0..599 : phi = u * 60 + 30
  BY DEF CellAt
<1>2. PICK n \in 0..11 : u \in (n * 50)..(n * 50 + 49)
  OBVIOUS
<1>3. InHour(phi, n)
  <2>1. u - n * 50 \in 0..49
    BY <1>2
  <2> QED
    BY <1>1, <2>1 DEF InHour
<1> QED
  BY <1>2, <1>3

(* No cell of the telescope is in front of the middle of a sector.         *)
LEMMA PhiOfHit ==
  ASSUME NEW h, h.backleg \in 1..30, h.tray \in 1..5, h.channel \in 0..11
  PROVE  \E n \in 0..11 : InHour(HitPhi(h), n)
<1> DEFINE c == RotatePhi(9000 + (h.backleg - 1) * 1200)
<1>1. \/ HitPhi(h) = RotatePhi(c - Offset(h.channel))
      \/ HitPhi(h) = RotatePhi(c + Offset(h.channel))
  BY DEF HitPhi, Offset
<1>2. ModuleAt(c)
  BY Centre
<1> HIDE DEF c
<1>3. CellAt(HitPhi(h))
  BY <1>1, <1>2, CellOf
<1> QED
  BY <1>3, HourOf

LEMMA HourIs ==
  ASSUME NEW n \in 0..11, NEW phi, InHour(phi, n)
  PROVE  phi \div 3000 = n
<1>1. PICK rest \in Int : 0 < rest /\ rest < 3000 /\ rest = phi - n * 3000
  BY DEF InHour
<1>2. phi \in Int
  BY DEF InHour
<1>3. \/ n = 0 \/ n = 1 \/ n = 2 \/ n = 3 \/ n = 4 \/ n = 5
      \/ n = 6 \/ n = 7 \/ n = 8 \/ n = 9 \/ n = 10 \/ n = 11
  OBVIOUS
<1> QED
  BY <1>1, <1>2, <1>3

(* It is nearer than an hour to these two only.                            *)
HourAt(m, k)         == m = k * 3000
NearHours(phi, m, e) == Apart(phi, m) < 3000 <=> e = 0 \/ e = 11

LEMMA NearTwoHours ==
  ASSUME NEW n \in 0..11, NEW k \in -20..20, NEW phi, InHour(phi, n), NEW m, HourAt(m, k)
  PROVE  NearHours(phi, m, (n - k) % 12)
<1>1. n - k \in -20..31
  OBVIOUS
<1>2. PICK d \in 0..11 :
        /\ d = (n - k) % 12
        /\ n - k = d \/ n - k = d + 12 \/ n - k = d - 12 \/ n - k = d - 24 \/ n - k = d + 24
  BY <1>1, Hours
<1>3. PICK rest \in Int : 0 < rest /\ rest < 3000 /\ rest = phi - n * 3000
  BY DEF InHour
<1>4. phi \in Int
  BY DEF InHour
<1>5. PICK r \in Int : 0 <= r /\ r < 36000 /\ r = d * 3000 + rest
  BY <1>2, <1>3
<1>6. PICK x \in Int : x = (n * 3000 + rest) - k * 3000
  BY <1>3
<1>7. x = r \/ x = r + 36000 \/ x = r - 36000 \/ x = r + 72000 \/ x = r - 72000
  BY <1>2, <1>3, <1>5, <1>6, Away
<1>8. RotatePhi(x) = r
  <2>1. x \in Int /\ r \in Int /\ 0 <= r /\ r < 36000
    BY <1>5, <1>6
  <2> QED
    BY <1>7, <2>1, Circle
<1>9. phi - m = x
  BY <1>3, <1>4, <1>6 DEF HourAt
<1>10. Apart(phi, m) = IF r > 18000 THEN 36000 - r ELSE r
  BY <1>8, <1>9, ApartIs
<1>11. (IF r > 18000 THEN 36000 - r ELSE r) < 3000 <=> d = 0 \/ d = 11
  BY <1>2, <1>3, <1>5
<1> QED
  BY <1>2, <1>10, <1>11 DEF NearHours

LEMMA WestIs ==
  ASSUME NEW n \in 0..11, NEW phi, InHour(phi, n)
  PROVE  West(phi) = {s \in 1..12 : Apart(phi, Middle(s)) < 3000} /\ West(phi) # {}
<1>1. ASSUME NEW s \in 1..12
      PROVE  Apart(phi, Middle(s)) < 3000 <=> s \in West(phi)
  <2>1. PICK k \in -20..20 : k = 3 - s
    OBVIOUS
  <2>2. HourAt(Middle(s), k)
    BY <2>1 DEF Middle, HourAt
  <2>3. NearHours(phi, Middle(s), (n - k) % 12)
    BY <2>2, NearTwoHours
  <2>4. (n - k) % 12 = 0 \/ (n - k) % 12 = 11 <=> s \in West(phi)
    <3>1. phi \div 3000 = n
      BY HourIs
    <3>2. West(phi) = LET first == 3 - n
                          t == IF first < 1 THEN first + 12 ELSE first
                      IN {t, IF t - 1 < 1 THEN t + 11 ELSE t - 1}
      BY <3>1 DEF West
    <3> QED
      BY <2>1, <3>2
  <2> QED
    BY <2>3, <2>4 DEF NearHours
<1>2. West(phi) \subseteq 1..12 /\ West(phi) # {}
  <2>1. phi \div 3000 = n
    BY HourIs
  <2> QED
    BY <2>1 DEF West
<1> QED
  BY <1>1, <1>2

LEMMA EastIs ==
  ASSUME NEW n \in 0..11, NEW phi, InHour(phi, n)
  PROVE  East(phi) = {s \in 13..24 : Apart(phi, Middle(s)) < 3000} /\ East(phi) # {}
<1>1. ASSUME NEW s \in 13..24
      PROVE  Apart(phi, Middle(s)) < 3000 <=> s \in East(phi)
  <2>1. PICK k \in -20..20 : k = s - 21
    OBVIOUS
  <2>2. HourAt(Middle(s), k)
    BY <2>1 DEF Middle, HourAt
  <2>3. NearHours(phi, Middle(s), (n - k) % 12)
    BY <2>2, NearTwoHours
  <2>4. (n - k) % 12 = 0 \/ (n - k) % 12 = 11 <=> s \in East(phi)
    <3>1. phi \div 3000 = n
      BY HourIs
    <3>2. East(phi) = LET first == n + 21
                          t == IF first > 24 THEN first - 12 ELSE first
                      IN {t, IF t + 1 > 24 THEN t - 11 ELSE t + 1}
      BY <3>1 DEF East
    <3> QED
      BY <2>1, <3>2
  <2> QED
    BY <2>3, <2>4 DEF NearHours
<1>2. East(phi) \subseteq 13..24 /\ East(phi) # {}
  <2>1. phi \div 3000 = n
    BY HourIs
  <2> QED
    BY <2>1 DEF East
<1> QED
  BY <1>1, <1>2

(* findTpcSectorsForTracking names the two nearest on each side.           *)
InFront(h, s) ==
  /\ Apart(HitPhi(h), Middle(s)) < 3000
  /\ IF s <= 12 THEN h.tray > 1 ELSE h.tray < 5

LEMMA SectorsAre ==
  ASSUME NEW h, h.backleg \in 1..30, h.tray \in 1..5, h.channel \in 0..11
  PROVE  Sectors(h) = {s \in 1..24 : InFront(h, s)} /\ Sectors(h) # {}
<1>1. PICK n \in 0..11 : InHour(HitPhi(h), n)
  BY PhiOfHit
<1> DEFINE west == West(HitPhi(h))
           east == East(HitPhi(h))
<1>2. /\ west = {s \in 1..12 : Apart(HitPhi(h), Middle(s)) < 3000} /\ west # {}
      /\ east = {s \in 13..24 : Apart(HitPhi(h), Middle(s)) < 3000} /\ east # {}
  BY <1>1, WestIs, EastIs
<1>3. Sectors(h) = (IF h.tray < 5 THEN east ELSE {}) \cup (IF h.tray > 1 THEN west ELSE {})
  BY DEF Sectors
<1> HIDE DEF west, east
<1>4. Sectors(h) # {}
  BY <1>2, <1>3
<1>5. ASSUME NEW s PROVE s \in Sectors(h) <=> s \in {t \in 1..24 : InFront(h, t)}
  <2>1. CASE s \in 1..12
    BY <1>2, <1>3, <2>1 DEF InFront
  <2>2. CASE s \in 13..24
    BY <1>2, <1>3, <2>2 DEF InFront
  <2>3. CASE s \notin 1..12 /\ s \notin 13..24
    <3>1. s \notin 1..24
      BY <2>3
    <3> QED
      BY <1>2, <1>3, <2>3, <3>1
  <2> QED
    BY <2>1, <2>2, <2>3
<1> QED
  BY <1>4, <1>5

------------------------------------------------------------------------------
(* What a hit of fillMtdHits is made of.                                   *)
Own(h) ==
  /\ ModuleToQT(h.backleg, h.tray) \in Boards
  /\ \A k \in 1..2 :
       /\ h.lead[k].board = Tray2Tdig(h.backleg)[h.tray]
       /\ h.trail[k].board = h.lead[k].board /\ h.trail[k].chan = h.lead[k].chan
  /\ h.lead[1].chan # h.lead[2].chan

EndEdge(r, e) ==
  r \in Raw /\ r.board = Tray2Tdig(e[1])[e[2]] /\ r.chan = ChanOf(e)

LEMMA EdgesOfEnd ==
  ASSUME mtdLeadingHits \in Seq(Wired), mtdTrailingHits \in Seq(Wired), NEW e \in Ends
  PROVE  e \in End /\ EndEdge(First(mtdLeadingHits, e), e) /\ EndEdge(First(mtdTrailingHits, e), e)
<1>1. Edges(mtdLeadingHits, e) # {} /\ Edges(mtdTrailingHits, e) # {}
  BY DEF Ends
<1>2. ASSUME NEW edges \in Seq(Wired), Edges(edges, e) # {}
      PROVE  e \in End /\ EndEdge(First(edges, e), e)
  <2>1. First(edges, e) \in Wired /\ Real(First(edges, e)) /\ EndOf(First(edges, e)) = e
    BY <1>2, FirstEdge
  <2> QED
    BY <2>1, RealEdge, WiredIsRaw DEF EndEdge
<1> QED
  BY <1>1, <1>2

LEMMA HitIs ==
  ASSUME NEW e \in End, Other(e) \in End, NEW l1, NEW l2, NEW t1, NEW t2, NEW fired \in BOOLEAN,
         EndEdge(l1, e), EndEdge(t1, e), EndEdge(l2, Other(e)), EndEdge(t2, Other(e)),
         NEW h, h = [backleg |-> e[1], tray |-> e[2], channel |-> e[3],
                     lead |-> <<l1, l2>>, trail |-> <<t1, t2>>, isTrigger |-> fired]
  PROVE  h \in Hit /\ Own(h)
<1>1. /\ e[1] \in 1..30 /\ e[2] \in 1..5 /\ e[3] \in 0..11 /\ ChanOf(e) # ChanOf(Other(e))
      /\ Tray2Tdig(e[1])[e[2]] \in 0..7
      /\ Tray2Tdig(Other(e)[1])[Other(e)[2]] = Tray2Tdig(e[1])[e[2]]
  BY OtherEnd DEF End
<1>2. ModuleToQT(e[1], e[2]) \in Boards
  BY <1>1, QtOfModule
<1>3. h \in Hit
  BY <1>1 DEF Hit, EndEdge
<1>4. /\ h.backleg = e[1] /\ h.tray = e[2]
      /\ h.lead[1] = l1 /\ h.lead[2] = l2 /\ h.trail[1] = t1 /\ h.trail[2] = t2
  OBVIOUS
<1>5. Own(h)
  BY <1>1, <1>2, <1>4 DEF Own, EndEdge
<1> QED
  BY <1>3, <1>5

LEMMA HitsFilled ==
  ASSUME mtdLeadingHits \in Seq(Wired), mtdTrailingHits \in Seq(Wired), NEW before \in BOOLEAN,
         NEW h \in FillMtdHits(before)
  PROVE  h \in Hit /\ Own(h)
<1>1. PICK e \in Ends :
        /\ Other(e) \in Ends
        /\ h = [backleg |-> e[1], tray |-> e[2], channel |-> e[3],
                lead  |-> <<First(mtdLeadingHits, e), First(mtdLeadingHits, Other(e))>>,
                trail |-> <<First(mtdTrailingHits, e), First(mtdTrailingHits, Other(e))>>,
                isTrigger |-> IsMtdHitFiredTrigger(e[1], e[2], before)]
  BY DEF FillMtdHits
<1>2. /\ e \in End /\ EndEdge(First(mtdLeadingHits, e), e) /\ EndEdge(First(mtdTrailingHits, e), e)
      /\ Other(e) \in End /\ EndEdge(First(mtdLeadingHits, Other(e)), Other(e))
      /\ EndEdge(First(mtdTrailingHits, Other(e)), Other(e))
  BY <1>1, EdgesOfEnd
<1>3. IsMtdHitFiredTrigger(e[1], e[2], before) \in BOOLEAN
  BY DEF IsMtdHitFiredTrigger
<1> QED
  BY <1>1, <1>2, <1>3, HitIs

(* The mask is that of the sectors in front of the hits that fired.        *)
LEMMA MaskIs ==
  ASSUME NEW hits \in SUBSET Hit
  PROVE  LET fired == {h \in hits : h.isTrigger}
         IN TpcMask(hits) = IF fired = {} THEN 1..24
                            ELSE {s \in 1..24 : \E h \in fired : InFront(h, s)}
<1> DEFINE fired == {h \in hits : h.isTrigger}
<1>1. \A h \in fired : Sectors(h) = {s \in 1..24 : InFront(h, s)} /\ Sectors(h) # {}
  <2>1. \A h \in fired : h.backleg \in 1..30 /\ h.tray \in 1..5 /\ h.channel \in 0..11
    BY DEF Hit
  <2> QED
    BY <2>1, SectorsAre
<1> DEFINE all == UNION {Sectors(h) : h \in fired}
<1>2. TpcMask(hits) = IF all = {} THEN 1..24 ELSE all
  BY DEF TpcMask
<1> HIDE DEF fired
<1>3. fired = {} <=> all = {}
  BY <1>1
<1>4. all = {s \in 1..24 : \E h \in fired : InFront(h, s)}
  BY <1>1
<1> HIDE DEF all
<1>5. TpcMask(hits) = IF fired = {} THEN 1..24
                      ELSE {s \in 1..24 : \E h \in fired : InFront(h, s)}
  BY <1>2, <1>3, <1>4
<1> QED
  BY <1>5 DEF fired

(* The positions kept for the bits are those of the words kept.            *)
Fired == \A b \in mtdTF201 : mTrigQTpos[b] = TopTwo(mtdQT[b[1]])[b[2]]

LEMMA FewAbove ==
  ASSUME NEW X, NEW a
  PROVE  /\ X = {} => Cardinality(X) < 1
         /\ X \subseteq {a} => Cardinality(X) < 2
<1>1. Cardinality({}) = 0 /\ Cardinality({a}) = 1 /\ IsFiniteSet({a})
  BY FS_EmptySet, FS_Singleton
<1>2. X \subseteq {a} => X = {} \/ X = {a}
  OBVIOUS
<1> QED
  BY <1>1, <1>2

LEMMA FiredIsLargest ==
  ASSUME mtdQT \in Sums, mtdTF201 \subseteq Bit, Fired
  PROVE  LargestFired
<1> SUFFICES ASSUME NEW b \in mtdTF201
             PROVE  LET p == mTrigQTpos[b]
                        above(s) == {q \in Pos : mtdQT[b[1]][q] > s}
                    IN /\ IF p = -1 THEN Cardinality(above(0)) < b[2]
                          ELSE /\ mtdQT[b[1]][p] > 0
                               /\ Cardinality(above(mtdQT[b[1]][p])) < b[2]
                       /\ <<b[1], 3 - b[2]>> \in mtdTF201 /\ p # -1
                            => mTrigQTpos[<<b[1], 3 - b[2]>>] # p
  BY DEF LargestFired
<1> DEFINE sums == mtdQT[b[1]]
           p == mTrigQTpos[b]
           k == b[2]
           above(x) == {q \in Pos : sums[q] > x}
<1>1. b[1] \in Boards /\ k \in 1..2 /\ sums \in [Pos -> Nat]
  BY DEF Bit, Sums
<1>2. PICK s : Largest(s, sums, 8) /\ TopTwo(sums) = s.pos
  <2> HIDE DEF sums
  <2> QED
    BY <1>1, TopTwoIs
<1>3. p = s.pos[k]
  BY <1>2 DEF Fired
<1>4. <<b[1], 3 - k>> \in mtdTF201 => mTrigQTpos[<<b[1], 3 - k>>] = s.pos[3 - k]
  BY <1>2 DEF Fired
<1> HIDE DEF sums, p, k
<1>5. /\ s.sum[1] \in Nat /\ s.sum[2] \in Nat /\ s.sum[2] <= s.sum[1]
      /\ s.pos[1] \in -1..8 /\ s.pos[2] \in -1..8
      /\ s.pos[1] = s.pos[2] => s.pos[1] = -1
  BY <1>2, TopIs DEF Largest
<1>6. IF p = -1 THEN s.sum[k] = 0 ELSE p \in 1..8 /\ s.sum[k] = sums[p] /\ s.sum[k] > 0
  BY <1>1, <1>2, <1>3 DEF Largest
<1>7. \A q \in Pos : sums[q] \in Nat /\ sums[q] <= s.sum[1] /\ (q # s.pos[1] => sums[q] <= s.sum[2])
  BY <1>1, <1>2 DEF Largest, Pos
<1>8. Cardinality(above(s.sum[k])) < k
  <2>1. CASE k = 1
    <3>1. above(s.sum[1]) = {}
      BY <1>5, <1>7
    <3> HIDE DEF above
    <3> QED
      BY <2>1, <3>1, FewAbove
  <2>2. CASE k = 2
    <3>1. above(s.sum[2]) \subseteq {s.pos[1]}
      BY <1>5, <1>7
    <3> HIDE DEF above
    <3> QED
      BY <2>2, <3>1, FewAbove
  <2> QED
    BY <1>1, <2>1, <2>2
<1> HIDE DEF above
<1>9. IF p = -1 THEN Cardinality(above(0)) < k
      ELSE sums[p] > 0 /\ Cardinality(above(sums[p])) < k
  BY <1>6, <1>8
<1>10. p # -1 => s.pos[3 - k] # p
  <2>1. k = 1 \/ k = 2
    BY <1>1
  <2> QED
    BY <1>3, <1>5, <2>1
<1> QED
  BY <1>4, <1>9, <1>10 DEF sums, p, k, above

------------------------------------------------------------------------------
(* The inductive invariant.  Every conjunct is about one of the two paths, *)
(* from the readout boards and from the trigger, or about what is sent.    *)
EdgesWired == mtdLeadingHits \in Seq(Wired) /\ mtdTrailingHits \in Seq(Wired)

Words ==
  /\ mtdQT \in Sums /\ mtdTF201 \subseteq Bit /\ mTrigQTpos \in [Bit -> -1..8]
  /\ Fired

Sent ==
  /\ mtd_send.hits \subseteq Hit /\ mtd_send.isDimuon \in BOOLEAN
  /\ mtd_send.tpcMask \subseteq 1..24
  /\ \A h \in mtd_send.hits : Own(h)

HInv ==
  /\ MatchInv
  /\ nEvents \in Nat /\ rdoRead \subseteq 1..2
  /\ EdgesWired /\ Words /\ Sent /\ MaskNearest
  /\ hlt_trackId \subseteq mtd_send.hits \X Tracks

LEMMA OwnIs == Sent <=> /\ mtd_send.hits \subseteq Hit /\ mtd_send.isDimuon \in BOOLEAN
                        /\ mtd_send.tpcMask \subseteq 1..24 /\ OwnChannel
BY DEF Sent, OwnChannel, Own

LEMMA DataIs == Rdos \subseteq RdoData /\ Triggers \subseteq TriggerData
BY TelescopeAssumption

LEMMA EdgesStep ==
  ASSUME EdgesWired, [Next]_vars
  PROVE  EdgesWired'
<1> USE DEF EdgesWired
<1>1. CASE RunStart
  BY <1>1, EmptySeq DEF RunStart
<1>2. CASE EventStart
  BY <1>2, EmptySeq DEF EventStart
<1>3. ASSUME NEW rdo \in 1..2, NEW words \in Rdos, ReadRdoEvent(rdo, words)
      PROVE  EdgesWired'
  <2>1. words \in Seq(Word)
    BY <1>3, DataIs DEF RdoData
  <2>2. Decode(words).lead \in Seq(Wired) /\ Decode(words).trail \in Seq(Wired)
    BY <2>1, DecodeIs
  <2> QED
    BY <1>3, <2>2, ConcatProperties DEF ReadRdoEvent
<1>4. CASE UNCHANGED raw
  BY <1>4 DEF raw
<1> QED
  BY <1>1, <1>2, <1>3, <1>4
     DEF Next, vars, ReadMtdTrigger, DoEvent, NoEvent, MatchMTD

LEMMA TriggerWords ==
  ASSUME Words, NEW t \in Triggers, ReadMtdTrigger(t)
  PROVE  Words'
<1>0. t \in [hasQT : BOOLEAN, sums : Sums, bits : SUBSET Bit]
  BY DataIs DEF TriggerData
<1>1. /\ t.hasQT \in BOOLEAN /\ t.sums \in Sums /\ t.bits \subseteq Bit
      /\ mtdQT' = (IF t.hasQT THEN t.sums ELSE mtdQT) /\ mtdTF201' = t.bits
      /\ mTrigQTpos' = [b \in Bit |-> IF b \in t.bits THEN TopTwo(mtdQT'[b[1]])[b[2]] ELSE -1]
  BY <1>0 DEF ReadMtdTrigger
<1>2. mtdQT' \in Sums
  BY <1>1 DEF Words
<1>3. ASSUME NEW b \in Bit PROVE TopTwo(mtdQT'[b[1]])[b[2]] \in -1..8
  <2>1. mtdQT'[b[1]] \in [Pos -> Nat] /\ b[2] \in 1..2
    BY <1>2 DEF Sums, Bit
  <2>2. PICK s : Largest(s, mtdQT'[b[1]], 8) /\ TopTwo(mtdQT'[b[1]]) = s.pos
    BY <2>1, TopTwoIs
  <2> QED
    BY <2>1, <2>2, TopIs DEF Largest
<1>4. mTrigQTpos' \in [Bit -> -1..8]
  BY <1>1, <1>3
<1>5. Fired'
  BY <1>1 DEF Fired
<1> QED
  BY <1>1, <1>2, <1>4, <1>5 DEF Words

LEMMA WordsStep ==
  ASSUME Words, [Next]_vars
  PROVE  Words'
<1>1. CASE RunStart
  <2>1. NoQT \in Sums
    BY DEF NoQT, Sums
  <2> QED
    BY <1>1, <2>1 DEF RunStart, Words, Fired
<1>2. ASSUME NEW t \in Triggers, ReadMtdTrigger(t)
      PROVE  Words'
  BY <1>2, TriggerWords
<1>3. CASE UNCHANGED trig
  BY <1>3 DEF trig, Words, Fired
<1> QED
  BY <1>1, <1>2, <1>3
     DEF Next, vars, EventStart, ReadRdoEvent, DoEvent, NoEvent, MatchMTD

(* do_event: hits, the di-muon flag and the mask.                          *)
LEMMA EventSent ==
  ASSUME EdgesWired, Words, DoEvent
  PROVE  Sent' /\ MaskNearest'
<1>1. PICK before \in BOOLEAN :
        mtd_send' = [hits |-> FillMtdHits(before), tpcMask |-> TpcMask(FillMtdHits(before)),
                     isDimuon |-> Cardinality(mtdTF201) > 1]
  BY DEF DoEvent
<1>2. FillMtdHits(before) \subseteq Hit /\ \A h \in FillMtdHits(before) : Own(h)
  BY HitsFilled DEF EdgesWired
<1> DEFINE fired == {h \in FillMtdHits(before) : h.isTrigger}
<1>3. TpcMask(FillMtdHits(before)) = IF fired = {} THEN 1..24
                                     ELSE {s \in 1..24 : \E h \in fired : InFront(h, s)}
  BY <1>2, MaskIs
<1>4. \A h \in mtd_send'.hits : Own(h)'
  BY <1>1, <1>2 DEF Own
<1>5. Sent'
  BY <1>1, <1>2, <1>3, <1>4 DEF Sent
<1>6. MaskNearest'
  <2>1. mtd_send'.tpcMask = IF fired = {} THEN 1..24
                            ELSE {s \in 1..24 : {h \in fired : InFront(h, s)} # {}}
    BY <1>1, <1>3
  <2>2. fired = {h \in mtd_send'.hits : h.isTrigger}
    BY <1>1
  <2> HIDE DEF fired
  <2> QED
    BY <2>1, <2>2 DEF MaskNearest, InFront
<1> QED
  BY <1>5, <1>6

LEMMA SentStep ==
  ASSUME EdgesWired, Words, Sent, MaskNearest, [Next]_vars
  PROVE  Sent' /\ MaskNearest'
<1>1. CASE EventStart
  BY <1>1 DEF EventStart, NoSend, Sent, MaskNearest
<1>2. CASE DoEvent
  BY <1>2, EventSent
<1>3. CASE mtd_send' = mtd_send /\ stage' # "hits"
  <2>1. Sent'
    BY <1>3 DEF Sent, Own
  <2>2. MaskNearest'
    BY <1>3 DEF MaskNearest
  <2> QED
    BY <2>1, <2>2
<1>4. CASE mtd_send' = mtd_send /\ stage' = stage
  <2>1. Sent'
    BY <1>4 DEF Sent, Own
  <2>2. MaskNearest'
    BY <1>4 DEF MaskNearest
  <2> QED
    BY <2>1, <2>2
<1> QED
  BY <1>1, <1>2, <1>3, <1>4
     DEF Next, vars, RunStart, ReadRdoEvent, ReadMtdTrigger, NoEvent, MatchMTD

(* The pairs that matchMTD leaves are of hits sent and of tracks given.    *)
LEMMA MatchesTyped ==
  ASSUME MatchMTD
  PROVE  hlt_trackId' \subseteq mtd_send.hits \X Tracks
<1>1. PICK tr \in SUBSET Tracks :
        LET near == {t \in tr : InWindow(t) # {}}
        IN \E choice \in [near -> mtd_send.hits] :
             LET chosen == {choice[t] : t \in near}
                 Rivals(h) == {t \in near : choice[t] = h}
             IN /\ \A t \in near : choice[t] \in Nearest(t)
                /\ \E winner \in [chosen -> near] :
                     /\ \A h \in chosen :
                          /\ winner[h] \in Rivals(h)
                          /\ \A t \in Rivals(h) : Distance(h, winner[h]) <= Distance(h, t)
                     /\ hlt_trackId' = {<<h, winner[h]>> : h \in chosen}
  BY DEF MatchMTD
<1> DEFINE near == {t \in tr : InWindow(t) # {}}
<1>2. PICK choice \in [near -> mtd_send.hits] :
        \E winner \in [{choice[t] : t \in near} -> near] :
           hlt_trackId' = {<<h, winner[h]>> : h \in {choice[t] : t \in near}}
  BY <1>1, Zenon
<1> DEFINE chosen == {choice[t] : t \in near}
<1>3. PICK winner \in [chosen -> near] : hlt_trackId' = {<<h, winner[h]>> : h \in chosen}
  BY <1>2
<1>4. near \subseteq Tracks
  OBVIOUS
<1> HIDE DEF near
<1>5. chosen \subseteq mtd_send.hits
  BY <1>2
<1> HIDE DEF chosen
<1> QED
  BY <1>3, <1>4, <1>5

LEMMA PairsStep ==
  ASSUME HInv, [Next]_vars
  PROVE  hlt_trackId' \subseteq mtd_send'.hits \X Tracks
<1>1. CASE EventStart
  BY <1>1 DEF EventStart
<1>2. CASE DoEvent
  BY <1>2 DEF DoEvent, HInv, MatchInv
<1>3. CASE MatchMTD
  <2>1. mtd_send' = mtd_send
    BY <1>3 DEF MatchMTD
  <2> QED
    BY <1>3, <2>1, MatchesTyped
<1>4. CASE mtd_send' = mtd_send /\ hlt_trackId' = hlt_trackId
  BY <1>4 DEF HInv
<1> QED
  BY <1>1, <1>2, <1>3, <1>4
     DEF Next, vars, RunStart, ReadRdoEvent, ReadMtdTrigger, NoEvent

LEMMA HInvInit ==
  ASSUME Init
  PROVE  HInv
<1>1. NoQT \in Sums
  BY DEF NoQT, Sums
<1>2. EdgesWired
  BY EmptySeq DEF Init, EdgesWired
<1>3. Words
  BY <1>1 DEF Init, Words, Fired
<1>4. Sent /\ MaskNearest
  BY DEF Init, NoSend, Sent, MaskNearest
<1> QED
  BY <1>2, <1>3, <1>4 DEF Init, HInv, MatchInv, MatchesDistinct

LEMMA HInvStep ==
  ASSUME HInv, [Next]_vars
  PROVE  HInv'
<1>1. MatchInv'
  BY MatchInvStep DEF HInv
<1>2. EdgesWired' /\ Words' /\ Sent' /\ MaskNearest'
  BY EdgesStep, WordsStep, SentStep DEF HInv
<1>3. (nEvents \in Nat /\ rdoRead \subseteq 1..2)'
  BY DEF HInv, Next, vars, raw, RunStart, EventStart, ReadRdoEvent, ReadMtdTrigger, DoEvent, NoEvent,
         MatchMTD
<1>4. (hlt_trackId \subseteq mtd_send.hits \X Tracks)'
  BY PairsStep
<1> QED
  BY <1>1, <1>2, <1>3, <1>4 DEF HInv

LEMMA HInvGives ==
  ASSUME HInv
  PROVE  TypeOK /\ HitsSound
<1>1. mtdLeadingHits \in Seq(Raw) /\ mtdTrailingHits \in Seq(Raw)
  <2>1. Wired \subseteq Raw
    BY WiredIsRaw
  <2>2. Seq(Wired) \subseteq Seq(Raw)
    <3>1. ASSUME NEW s \in Seq(Wired) PROVE s \in Seq(Raw)
      <4>1. Len(s) \in Nat /\ \A i \in 1..Len(s) : s[i] \in Raw
        BY <2>1, LenProperties, ElementOfSeq
      <4>2. s = [i \in 1..Len(s) |-> s[i]]
        BY LenProperties
      <4> QED
        BY <4>1, <4>2, IsASeq
    <3> QED
      BY <3>1
  <2> QED
    BY <2>2 DEF HInv, EdgesWired
<1>2. TypeOK
  BY <1>1, OwnIs DEF HInv, MatchInv, Words, TypeOK
<1>3. OwnChannel
  BY OwnIs DEF HInv
<1>4. LargestFired
  BY FiredIsLargest DEF HInv, Words
<1> QED
  BY <1>2, <1>3, <1>4 DEF HInv, HitsSound

LEMMA HInvHolds == Spec => []HInv
<1>1. Init => HInv
  BY HInvInit
<1> QED
  BY <1>1, HInvStep, PTL DEF Spec

(* The types of the reader's state, whatever the boards and the trigger    *)
(* send: no index leaves the tables of backlegs, trays and strips.         *)
THEOREM TypeCorrect == Spec => []TypeOK
BY HInvHolds, HInvGives, PTL

(* From words to sectors: a hit has the edges of its own strip, the        *)
(* positions that fired are the largest of their board                     *)
(* (read_mtd_trigger), and the sectors that are tracked are the nearest    *)
(* ones to the hits that fired (findTpcSectorsForTracking).                *)
THEOREM HitsAreSound == Spec => []HitsSound
BY HInvHolds, HInvGives, PTL
=============================================================================
