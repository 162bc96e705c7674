------------------------- MODULE Reconstruction_proofs -------------------------
(***************************************************************************)
(* Theorems about Reconstruction: the vertex that an event is given and    *)
(* the number of tracks that goes to the calibration server with it rest   *)
(* on tracks of this event, wherever the iterations stop; the arrays are   *)
(* not overrun; the banks of an event name each other's entries rightly;   *)
(* the times of the VPD are given when it was hit.                         *)
(*                                                                         *)
(* Base says what the collector holds at every stage, NodesInv what the    *)
(* nodes of the event know by then, BanksInv that the banks were filled    *)
(* from what is still there, TimesInv what the times were made of.         *)
(***************************************************************************)
EXTENDS Reconstruction, FiniteSetTheorems, SequenceTheorems, WellFoundedInduction, TLAPS

Loading == {"btow", "tof", "tpx"}
Seeking == {"nodes", "matchTOF", "lmVertex", "peak"}
Settled == {"primaries", "start", "matchPrimary", "fill", "send"}

UsableTracks == {i \in 1..Len(globalTrack) : ForVertex(globalTrack[i])}

(* The count of one event is forgotten before the tracks of the next are   *)
(* there, and grows only with the tracks near a vertex.                    *)
VertexInv ==
  /\ stage \in {"between", "vertex"} \cup Loading \cup Seeking \cup Settled
  /\ Len(globalTrack) \in Nat
  /\ stage \in Loading \cup Seeking => nTracksUsed = 0
  /\ stage # "between" => nTracksUsed \in 0..Cardinality(UsableTracks)
  /\ stage \in Settled => vertex.z = NoZ \/ nTracksUsed >= MinTracks

LEMMA UsableAreFinite ==
  ASSUME Len(globalTrack) \in Nat
  PROVE  IsFiniteSet(UsableTracks) /\ Cardinality(UsableTracks) \in Nat
<1>1. IsFiniteSet(1..Len(globalTrack))
  BY FS_Interval
<1>2. UsableTracks \in SUBSET (1..Len(globalTrack))
  BY DEF UsableTracks
<1> QED
  BY <1>1, <1>2, FS_Subset, FS_CardinalityType

LEMMA NearAreUsable ==
  ASSUME Len(globalTrack) \in Nat, NEW v
  PROVE  Cardinality(Near(v)) \in 0..Cardinality(UsableTracks)
<1>1. Near(v) \in SUBSET UsableTracks
  BY DEF Near, UsableTracks
<1>2. IsFiniteSet(Near(v)) /\ Cardinality(Near(v)) <= Cardinality(UsableTracks)
  BY <1>1, UsableAreFinite, FS_Subset
<1> QED
  BY <1>2, UsableAreFinite, FS_CardinalityType

LEMMA VertexInvStep ==
  ASSUME VertexInv, [Next]_vars
  PROVE  VertexInv'
<1> USE DEF Loading, Seeking, Settled
<1>1. Cardinality(UsableTracks) \in Nat
  BY UsableAreFinite DEF VertexInv
<1>2. CASE EventStart
  <2>1. UsableTracks' = {}
    BY <1>2 DEF EventStart, UsableTracks
  <2>2. Cardinality(UsableTracks') = 0
    BY <2>1, FS_EmptySet
  <2> QED
    BY <1>2, <2>2 DEF EventStart, UsedAtStart, VertexInv
<1>3. ASSUME NEW list \in TrackData, ReadTPCCA(list)
      PROVE  VertexInv'
  <2>1. Len(globalTrack') \in Nat
    BY <1>3, RecoAssumption DEF ReadTPCCA
  <2>2. Cardinality(UsableTracks') \in Nat
    <3>1. IsFiniteSet(1..Len(globalTrack'))
      BY <2>1, FS_Interval
    <3>2. UsableTracks' \in SUBSET (1..Len(globalTrack'))
      BY DEF UsableTracks
    <3> QED
      BY <3>1, <3>2, FS_Subset, FS_CardinalityType
  <2> QED
    BY <1>3, <2>1, <2>2 DEF ReadTPCCA, VertexInv, vert
<1>4. ASSUME globalTrack' = globalTrack
      PROVE  UsableTracks' = UsableTracks
  BY <1>4 DEF UsableTracks
<1>5. CASE MoveVertex
  <2>1. nTracksUsed' \in 0..Cardinality(UsableTracks) /\ nTracksUsed' >= MinTracks
    BY <1>5, NearAreUsable DEF MoveVertex, VertexInv
  <2>2. stage' \in {"primaries", "vertex"} /\ globalTrack' = globalTrack
    BY <1>5 DEF MoveVertex, tracks
  <2> QED
    BY <1>4, <2>1, <2>2 DEF VertexInv
<1>6. CASE GiveUpVertex
  <2>1. vertex'.z = NoZ /\ UNCHANGED <<nTracksUsed, globalTrack>>
    BY <1>6 DEF GiveUpVertex, tracks
  <2>2. stage = "vertex" /\ stage' = "primaries"
    BY <1>6 DEF GiveUpVertex
  <2> QED
    BY <1>4, <2>1, <2>2 DEF VertexInv
<1>7. ASSUME UNCHANGED <<nTracksUsed, globalTrack>>,
             \/ stage' = stage
             \/ stage \in Loading \cup Seeking
                  /\ stage' \in Loading \cup Seeking \cup {"vertex"}
             \/ stage \in Settled /\ stage' \in Settled \cup {"between"},
             stage \in Settled => vertex' = vertex
      PROVE  VertexInv'
  BY <1>4, <1>7 DEF VertexInv
<1>8. CASE MakeNodes \/ MatchGlobal \/ NoPeak \/ FindPeak \/ MovePeak \/ MakeLmVertex
  BY <1>7, <1>8
  DEF MakeNodes, MatchGlobal, NoPeak, FindPeak, MovePeak, MakeLmVertex, vert, tracks
<1>9. CASE \/ MakePrimaries \/ StartTime \/ MatchPrimary \/ Fill
           \/ \E decision \in BOOLEAN : MakeNetworkData(decision)
  BY <1>7, <1>9 DEF MakePrimaries, StartTime, MatchPrimary, Fill, MakeNetworkData, vert, tracks
<1>10. CASE \/ Absent("btow", "tof") \/ Absent("tof", "tpx") \/ Absent("tpx", "nodes")
            \/ \E towers \in TowerData : ReadRawBtowers(towers)
            \/ \E list \in TofData : ReadFromTofMachine(list)
  BY <1>7, <1>10 DEF Absent, ReadRawBtowers, ReadFromTofMachine, vert, tracks
<1>11. CASE UNCHANGED vars
  BY <1>7, <1>11 DEF vars, vert, tracks
<1> QED
  BY <1>2, <1>3, <1>5, <1>6, <1>8, <1>9, <1>10, <1>11 DEF Next

(* A vertex that is given rests on enough tracks, and the number of tracks *)
(* that makeNetworkData sends is of tracks of this event (makeVertex,      *)
(* resetEvent).                                                            *)
THEOREM VertexIsSupported == Spec => []VertexSupported
<1>1. Init => VertexInv
  <2>1. ASSUME Init PROVE UsableTracks = {}
    BY <2>1 DEF Init, UsableTracks
  <2> QED
    BY <2>1, FS_EmptySet DEF Init, VertexInv, Loading, Seeking, Settled
<1>2. VertexInv => VertexSupported
  BY DEF VertexInv, VertexSupported, Settled, Loading, Seeking, UsableTracks
<1> QED
  BY <1>1, <1>2, VertexInvStep, PTL DEF Spec

------------------------------------------------------------------------------
(* Numbers and recursion.                                                  *)
LEMMA LeastNumber ==
  ASSUME NEW S \in SUBSET Nat, S # {}
  PROVE  \E x \in S : \A y \in S : x <= y
<1> DEFINE Less == {ss \in Nat \X Nat : ss[1] < ss[2]}
<1>1. IsWellFoundedOn(Less, Nat)
  BY NatLessThanWellFounded, Zenon DEF OpToRel
<1> HIDE DEF Less
<1>2. PICK x \in S : \A y \in S : ~(<<y, x>> \in Less)
  BY <1>1, WFMin
<1>3. ASSUME NEW y \in S PROVE x <= y
  <2>1. x \in Nat /\ y \in Nat /\ <<y, x>> \notin Less
    BY <1>2
  <2>2. ~(y < x)
    <3>1. SUFFICES ASSUME y < x PROVE <<y, x>> \in Less
      BY <2>1
    <3>2. <<y, x>> \in Nat \X Nat /\ <<y, x>>[1] < <<y, x>>[2]
      BY <2>1, <3>1
    <3> QED
      BY <3>2 DEF Less
  <2> QED
    BY <2>1, <2>2
<1> QED
  BY <1>3

(* A property of 0 that every number hands on to the next one is one of    *)
(* all numbers up to n; P is the set of those that have it.                *)
LEMMA UpTo ==
  ASSUME NEW n \in Nat, NEW P, 0 \in P, \A i \in 1..n : i - 1 \in P => i \in P
  PROVE  0..n \subseteq P
<1> DEFINE bad == {i \in 0..n : i \notin P}
<1>1. ASSUME bad # {} PROVE FALSE
  <2>1. bad \in SUBSET Nat
    OBVIOUS
  <2>2. PICK i \in bad : \A j \in bad : i <= j
    BY <1>1, <2>1, LeastNumber
  <2>3. i \in 1..n /\ i - 1 \in 0..n /\ ~(i <= i - 1)
    OBVIOUS
  <2>4. i - 1 \in P
    BY <2>2, <2>3
  <2> QED
    BY <2>3, <2>4
<1> QED
  BY <1>1

(* A function that is defined from its value before exists.                *)
Steps(S, n) == [S \X (1..n) -> S]
Follows(f, start, n, step) == f[0] = start /\ \A i \in 1..n : f[i] = step[<<f[i - 1], i>>]

LEMMA Recursion ==
  ASSUME NEW S, NEW start \in S, NEW n \in Nat, NEW step \in Steps(S, n)
  PROVE  \E f \in [0..n -> S] : Follows(f, start, n, step)
<1> USE DEF Steps
<1> DEFINE Upto(k, f) == f[0] = start /\ \A i \in 1..k : f[i] = step[<<f[i - 1], i>>]
           P == {k \in 0..n : \E f \in [0..k -> S] : Upto(k, f)}
<1>1. 0 \in P
  <2> DEFINE f == [i \in 0..0 |-> start]
  <2>1. f \in [0..0 -> S] /\ Upto(0, f)
    OBVIOUS
  <2>2. 0 \in 0..n
    OBVIOUS
  <2> HIDE DEF f
  <2> QED
    BY <2>1, <2>2
<1>2. ASSUME NEW k \in 1..n, k - 1 \in P PROVE k \in P
  <2>1. PICK f \in [0..(k - 1) -> S] : Upto(k - 1, f)
    BY <1>2
  <2> DEFINE g == [i \in 0..k |-> IF i = k THEN step[<<f[k - 1], k>>] ELSE f[i]]
  <2>2. f[k - 1] \in S /\ step[<<f[k - 1], k>>] \in S
    <3>1. f[k - 1] \in S
      OBVIOUS
    <3>2. <<f[k - 1], k>> \in S \X (1..n)
      BY <3>1
    <3> QED
      BY <3>1, <3>2
  <2>3. g \in [0..k -> S]
    <3>1. \A i \in 0..k : i = k \/ i \in 0..(k - 1)
      OBVIOUS
    <3> QED
      BY <2>2, <3>1
  <2>4. g[0] = start
    BY <2>1
  <2>5. ASSUME NEW i \in 1..k PROVE g[i] = step[<<g[i - 1], i>>]
    <3>1. i - 1 \in 0..(k - 1) /\ i - 1 \in 0..k /\ i \in 0..k /\ i - 1 # k
      OBVIOUS
    <3>2. g[i - 1] = f[i - 1]
      BY <3>1
    <3>3. CASE i = k
      BY <3>1, <3>2, <3>3
    <3>4. CASE i # k
      <4>1. i \in 1..(k - 1)
        BY <3>4
      <4> QED
        BY <2>1, <3>1, <3>2, <3>4, <4>1
    <3> QED
      BY <3>3, <3>4
  <2> HIDE DEF g
  <2>6. k \in 0..n
    OBVIOUS
  <2> QED
    BY <2>3, <2>4, <2>5, <2>6
<1> HIDE DEF P
<1>3. 0..n \subseteq P
  BY <1>1, <1>2, UpTo
<1>4. n \in P
  BY <1>3
<1> QED
  BY <1>4 DEF P, Follows

------------------------------------------------------------------------------
(* Numbers in order.                                                       *)
Rank(I, i) == Cardinality({k \in I : k <= i})

LEMMA RankIs ==
  ASSUME NEW n \in Nat, NEW I \in SUBSET (1..n)
  PROVE  /\ Rank(I, 0) = 0 /\ Rank(I, n) = Cardinality(I)
         /\ \A i \in 0..n : Rank(I, i) \in Nat
         /\ \A i \in 1..n : Rank(I, i) = IF i \in I THEN Rank(I, i - 1) + 1 ELSE Rank(I, i - 1)
<1> DEFINE Upto(i) == {k \in I : k <= i}
<1>1. IsFiniteSet(I)
  <2>1. IsFiniteSet(1..n)
    BY FS_Interval
  <2> QED
    BY <2>1, FS_Subset
<1>2. \A i : Rank(I, i) = Cardinality(Upto(i))
  BY DEF Rank
<1>3. \A i : IsFiniteSet(Upto(i)) /\ Cardinality(Upto(i)) \in Nat
  <2> TAKE i
  <2>1. Upto(i) \in SUBSET I
    OBVIOUS
  <2> HIDE DEF Upto
  <2> QED
    BY <1>1, <2>1, FS_Subset, FS_CardinalityType
<1>4. Upto(0) = {} /\ Upto(n) = I
  <2>1. \A k \in I : ~(k <= 0) /\ k <= n
    OBVIOUS
  <2> QED
    BY <2>1, Zenon
<1>5. ASSUME NEW i \in 1..n
      PROVE  Cardinality(Upto(i)) = IF i \in I THEN Cardinality(Upto(i - 1)) + 1
                                    ELSE Cardinality(Upto(i - 1))
  <2>1. \A k \in I : k <= i <=> k <= i - 1 \/ k = i
    BY <1>5
  <2>2. ~(i <= i - 1)
    BY <1>5
  <2>3. CASE i \in I
    <3>1. Upto(i) = Upto(i - 1) \cup {i} /\ i \notin Upto(i - 1)
      BY <2>1, <2>2, <2>3, Zenon
    <3> HIDE DEF Upto
    <3>2. Cardinality(Upto(i - 1) \cup {i}) = Cardinality(Upto(i - 1)) + 1
      BY <1>3, <3>1, FS_AddElement
    <3> QED
      BY <2>3, <3>1, <3>2
  <2>4. CASE i \notin I
    <3>1. Upto(i) = Upto(i - 1)
      BY <2>1, <2>4, Zenon
    <3> HIDE DEF Upto
    <3> QED
      BY <2>4, <3>1
  <2> QED
    BY <2>3, <2>4
<1> HIDE DEF Upto
<1> QED
  BY <1>2, <1>3, <1>4, <1>5, FS_EmptySet

(* The sequence has the numbers of I; the one of rank k is at k.           *)
LEMMA AscendingIs ==
  ASSUME NEW n \in Nat, NEW I \in SUBSET (1..n), NEW s, s = Ascending(I, n)
  PROVE  /\ s \in Seq(I) /\ Len(s) = Cardinality(I) /\ Len(s) \in Nat
         /\ \A j \in I : Rank(I, j) \in 1..Len(s) /\ s[Rank(I, j)] = j
<1> DEFINE Def(f) == f = [i \in 0..n |-> IF i = 0 THEN << >>
                                         ELSE IF i \in I THEN Append(f[i - 1], i) ELSE f[i - 1]]
           upto == CHOOSE f : Def(f)
<1>1. s = upto[n]
  BY DEF Ascending
<1>2. \E f : Def(f)
  <2> DEFINE start == << >>
             step == [x \in Seq(I) \X (1..n) |-> IF x[2] \in I THEN Append(x[1], x[2]) ELSE x[1]]
  <2>1. start \in Seq(I) /\ step \in Steps(Seq(I), n)
    <3>1. \A q \in Seq(I), i \in I : Append(q, i) \in Seq(I)
      BY AppendProperties
    <3> QED
      BY <3>1, EmptySeq DEF Steps
  <2>2. \A q \in Seq(I), i \in 1..n : step[<<q, i>>] = IF i \in I THEN Append(q, i) ELSE q
    OBVIOUS
  <2> HIDE DEF step, start
  <2>3. PICK f \in [0..n -> Seq(I)] : Follows(f, start, n, step)
    BY <2>1, Recursion
  <2>4. \A i \in 1..n : f[i - 1] \in Seq(I)
    OBVIOUS
  <2>5. \A i \in 1..n : f[i] = IF i \in I THEN Append(f[i - 1], i) ELSE f[i - 1]
    BY <2>2, <2>3, <2>4 DEF Follows
  <2>6. \A i \in 0..n : f[i] = IF i = 0 THEN << >> ELSE IF i \in I THEN Append(f[i - 1], i) ELSE f[i - 1]
    <3>1. f[0] = << >>
      BY <2>3 DEF Follows, start
    <3>2. \A i \in 0..n : i = 0 \/ i \in 1..n
      OBVIOUS
    <3>3. \A i \in 1..n : i # 0
      OBVIOUS
    <3> QED
      BY <2>5, <3>1, <3>2, <3>3
  <2> QED
    BY <2>6
<1>3. Def(upto)
  BY <1>2
<1> HIDE DEF upto
<1> DEFINE Ranked(q, i) == /\ q \in Seq(I) /\ Len(q) = Rank(I, i)
                           /\ \A j \in I : j <= i => Rank(I, j) \in 1..Len(q) /\ q[Rank(I, j)] = j
           P == {i \in 0..n : Ranked(upto[i], i)}
<1>4. 0 \in P
  <2>1. upto[0] = << >>
    BY <1>3
  <2>2. Ranked(<< >>, 0)
    BY RankIs, EmptySeq
  <2> HIDE DEF Ranked
  <2> QED
    BY <2>1, <2>2
<1>5. ASSUME NEW i \in 1..n, i - 1 \in P PROVE i \in P
  <2>1. upto[i] = IF i \in I THEN Append(upto[i - 1], i) ELSE upto[i - 1]
    <3>1. i \in 0..n /\ i # 0
      OBVIOUS
    <3> QED
      BY <1>3, <3>1
  <2>2. Ranked(upto[i - 1], i - 1)
    BY <1>5
  <2>3. /\ Rank(I, i) = IF i \in I THEN Rank(I, i - 1) + 1 ELSE Rank(I, i - 1)
        /\ Rank(I, i - 1) \in Nat
    BY <1>5, RankIs
  <2>4. CASE i \notin I
    <3>1. \A j \in I : j <= i => j <= i - 1
      BY <1>5, <2>4
    <3>2. Ranked(upto[i - 1], i)
      BY <2>2, <2>3, <2>4, <3>1
    <3> HIDE DEF Ranked
    <3> QED
      BY <1>5, <2>1, <2>4, <3>2
  <2>5. CASE i \in I
    <3> DEFINE q == upto[i - 1]
    <3>1. q \in Seq(I) /\ Len(q) = Rank(I, i - 1) /\ Rank(I, i) = Len(q) + 1 /\ Len(q) \in Nat
      BY <2>2, <2>3, <2>5
    <3>2. /\ Append(q, i) \in Seq(I) /\ Len(Append(q, i)) = Len(q) + 1 /\ Append(q, i)[Len(q) + 1] = i
          /\ \A k \in 1..Len(q) : Append(q, i)[k] = q[k]
      BY <2>5, <3>1, AppendProperties
    <3>3. ASSUME NEW j \in I, j <= i
          PROVE  Rank(I, j) \in 1..(Len(q) + 1) /\ Append(q, i)[Rank(I, j)] = j
      <4>1. CASE j = i
        BY <3>1, <3>2, <4>1
      <4>2. CASE j # i
        <5>1. j <= i - 1
          BY <1>5, <3>3, <4>2
        <5>2. Rank(I, j) \in 1..Len(q) /\ q[Rank(I, j)] = j
          BY <2>2, <5>1
        <5> QED
          BY <3>1, <3>2, <5>2
      <4> QED
        BY <4>1, <4>2
    <3> HIDE DEF q
    <3>4. Ranked(Append(q, i), i)
      BY <3>1, <3>2, <3>3
    <3>5. upto[i] = Append(q, i) /\ i \in 0..n
      BY <1>5, <2>1, <2>5 DEF q
    <3> HIDE DEF Ranked
    <3> QED
      BY <3>4, <3>5
  <2> QED
    BY <2>4, <2>5
<1>6. n \in P
  <2> HIDE DEF P
  <2>1. 0..n \subseteq P
    BY <1>4, <1>5, UpTo
  <2> QED
    BY <2>1
<1>7. Ranked(s, n)
  <2> HIDE DEF Ranked
  <2> QED
    BY <1>1, <1>6
<1>8. \A j \in I : j <= n
  OBVIOUS
<1>9. s \in Seq(I) /\ Len(s) = Cardinality(I)
  BY <1>7, RankIs
<1>10. Len(s) \in Nat
  BY <1>9, LenProperties
<1> QED
  BY <1>7, <1>8, <1>9, <1>10

LEMMA PickedIs ==
  ASSUME NEW T, NEW list \in Seq(T), NEW I \in SUBSET (1..Len(list)), NEW q, q = Picked(list, I)
  PROVE  /\ q \in Seq(T) /\ Len(q) = Cardinality(I) /\ Len(q) \in Nat
         /\ \A k \in 1..Len(q) : \E i \in I : q[k] = list[i]
<1> DEFINE is == Ascending(I, Len(list))
<1>1. Len(list) \in Nat /\ \A i \in 1..Len(list) : list[i] \in T
  BY LenProperties, ElementOfSeq
<1>2. is \in Seq(I) /\ Len(is) = Cardinality(I) /\ Len(is) \in Nat
  BY <1>1, AscendingIs
<1>3. q = [k \in 1..Len(is) |-> list[is[k]]]
  BY DEF Picked
<1> HIDE DEF is
<1>4. \A k \in 1..Len(is) : is[k] \in I
  BY <1>2, ElementOfSeq
<1>5. q \in Seq(T) /\ Len(q) = Len(is)
  <2>1. \A k \in 1..Len(is) : list[is[k]] \in T
    BY <1>1, <1>4
  <2> QED
    BY <1>2, <1>3, <2>1
<1> QED
  BY <1>2, <1>3, <1>4, <1>5

LEMMA MaxIs ==
  ASSUME NEW n \in Nat, NEW S \in SUBSET (0..n), S # {}
  PROVE  Max(S) \in S /\ \A y \in S : Max(S) >= y
<1> DEFINE down == {n - x : x \in S}
<1>1. down \in SUBSET Nat /\ down # {}
  <2>1. \A x \in S : n - x \in Nat
    OBVIOUS
  <2>2. PICK x \in S : TRUE
    OBVIOUS
  <2>3. n - x \in down
    BY <2>2
  <2> QED
    BY <2>1, <2>3
<1>2. PICK d \in down : \A y \in down : d <= y
  <2> HIDE DEF down
  <2> QED
    BY <1>1, LeastNumber
<1>3. PICK x \in S : d = n - x
  OBVIOUS
<1>4. \A y \in S : x >= y
  <2> TAKE y \in S
  <2>1. n - y \in down
    OBVIOUS
  <2>2. d <= n - y
    BY <1>2, <2>1
  <2> QED
    BY <1>3, <2>2
<1> QED
  BY <1>4 DEF Max

LEMMA MinOfTwo ==
  ASSUME NEW a \in Nat, NEW b \in Nat
  PROVE  Min({a, b}) \in Nat /\ Min({a, b}) <= a /\ Min({a, b}) <= b
<1>1. \E x \in {a, b} : \A y \in {a, b} : x <= y
  <2>1. CASE a <= b
    BY <2>1
  <2>2. CASE b <= a
    BY <2>2
  <2> QED
    BY <2>1, <2>2
<1> DEFINE m == Min({a, b})
<1>2. m \in {a, b} /\ \A y \in {a, b} : m <= y
  BY <1>1 DEF Min
<1> HIDE DEF m
<1>3. m \in Nat /\ m <= a /\ m <= b
  BY <1>2
<1> QED
  BY <1>3 DEF m

(* A part from the front.                                                  *)
LEMMA FrontIs ==
  ASSUME NEW T, NEW s \in Seq(T), NEW n \in Nat
  PROVE  LET front == SubSeq(s, 1, Min({Len(s), n}))
         IN front \in Seq(T) /\ Len(front) <= n /\ Len(front) \in Nat /\ Len(front) <= Len(s)
            /\ \A i \in 1..Len(front) : front[i] = s[i]
<1> DEFINE m == Min({Len(s), n})
           front == SubSeq(s, 1, m)
<1>1. Len(s) \in Nat /\ m \in Nat /\ m <= Len(s) /\ m <= n
  BY LenProperties, MinOfTwo
<1> HIDE DEF m
<1>2. front \in Seq(T) /\ Len(front) = m /\ \A i \in 1..m : front[i] = s[i]
  <2>1. \A i \in 1..m : s[i] \in T
    BY <1>1, ElementOfSeq
  <2>2. front \in Seq(T)
    BY <1>1, SubSeqProperties
  <2>3. Len(front) = m
    BY <1>1, SubSeqProperties
  <2>4. \A i \in 1..m : front[i] = s[i]
    BY <1>1, SubSeqProperties
  <2> QED
    BY <2>2, <2>3, <2>4
<1> HIDE DEF front
<1> QED
  BY <1>1, <1>2 DEF front, m

------------------------------------------------------------------------------
(* What the detectors give, and what is kept of it.                        *)
LEMMA DataIs ==
  /\ TrackData \subseteq Seq(Track) /\ TowerData \subseteq Seq(Tower) /\ TofData \subseteq Seq(TofHit)
BY RecoAssumption

LEMMA LimitsAre ==
  /\ maxModuleHits \in Nat /\ nTotalTowers \in Nat /\ MaxMipTracks \in Nat /\ MaxDcaTracks \in Nat
  /\ MaxEvents \in Nat /\ CellWidth \in Nat \ {0} /\ Trays \subseteq 0..119 /\ Configs \subseteq Config
BY RecoAssumption

(* The hits listed for module m are among the first n and are in it.       *)
Listed(m, hits_, n) ==
  \A k \in 1..Len(Cellhit[m]) :
    Cellhit[m][k] \in 1..n /\ <<hits_[Cellhit[m][k]].tray, hits_[Cellhit[m][k]].module>> = m

(* What the collector holds at every stage.  The lists by module are those *)
(* of an older event until this one has TOF data; what they name is in the *)
(* array even then.                                                        *)
Base ==
  /\ stage \in {"between", "vertex"} \cup Loading \cup Seeking \cup Settled
  /\ nEvents \in 0..MaxEvents /\ config \in Configs /\ detectors \subseteq Loading
  /\ globalTrack \in Seq(Track) /\ nPrimaryTracks \in 0..Len(globalTrack)
  /\ stage \in Loading => nPrimaryTracks = 0
  /\ barrelTower \in Seq(Tower) /\ Len(barrelTower) <= nTotalTowers
  /\ cell \in Seq(TofHit) /\ nTofHits \in 0..Len(cell)
  /\ pvpdhits \in Seq(TofHit) /\ \A i \in 1..Len(pvpdhits) : pvpdhits[i].tray \in {West, East}
  /\ DOMAIN Cellhit = Trays \X Modules
  /\ \A m \in Trays \X Modules :
       /\ Cellhit[m] \in Seq(Nat) /\ Len(Cellhit[m]) <= maxModuleHits
       /\ \A k \in 1..Len(Cellhit[m]) : Cellhit[m][k] \in 1..Len(cell)
       /\ "tof" \in detectors => Listed(m, cell, nTofHits)
  /\ iter \in 0..20 /\ (stage = "vertex" => iter \in 0..2)
  /\ caliData.nMip \in 0..MaxMipTracks /\ caliData.nDca \in 0..MaxDcaTracks

LEMMA HitsInIs ==
  ASSUME NEW m, NEW list \in Seq(TofHit), NEW s, s = HitsIn(m, list)
  PROVE  /\ s \in Seq(Nat) /\ Len(s) <= maxModuleHits /\ Len(s) \in Nat
         /\ \A k \in 1..Len(s) : s[k] \in 1..Len(list) /\ <<list[s[k]].tray, list[s[k]].module>> = m
<1> DEFINE I == {i \in 1..Len(list) : <<list[i].tray, list[i].module>> = m}
           in == Ascending(I, Len(list))
<1>1. Len(list) \in Nat /\ I \in SUBSET (1..Len(list))
  BY LenProperties
<1>2. \A i \in I : i \in 1..Len(list) /\ i \in Nat /\ <<list[i].tray, list[i].module>> = m
  BY <1>1
<1>3. s = SubSeq(in, 1, Min({Len(in), maxModuleHits}))
  BY DEF HitsIn
<1> HIDE DEF I
<1>4. in \in Seq(I) /\ maxModuleHits \in Nat
  BY <1>1, AscendingIs, LimitsAre
<1> HIDE DEF in
<1>5. s \in Seq(I) /\ Len(s) <= maxModuleHits /\ Len(s) \in Nat
  BY <1>3, <1>4, FrontIs
<1>6. \A k \in 1..Len(s) : s[k] \in I
  BY <1>5, ElementOfSeq
<1>7. s \in Seq(Nat)
  BY <1>2, <1>5
<1> QED
  BY <1>2, <1>5, <1>6, <1>7

(* A helix that points to p finds a hit that is listed for its module or   *)
(* one beside it, in its cell or beside it.                                *)
LEMMA CellFound ==
  ASSUME Base, NEW p \in Proj, NEW i, i = ProjTrayModuleCell(p), i # NoHit
  PROVE  /\ i \in 1..Len(cell) /\ Abs(cell[i].cell - CellAt(p)) <= 1
         /\ "tof" \in detectors =>
              i \in 1..nTofHits /\ cell[i].tray = p.tray /\ Abs(cell[i].module - p.module) <= 1
<1> DEFINE c == CellsAround(p)
           inModule(m) == IF <<p.tray, m>> \in DOMAIN Cellhit THEN Cellhit[<<p.tray, m>>] ELSE << >>
           all == inModule(p.module - 1) \o inModule(p.module) \o inModule(p.module + 1)
           I == {k \in 1..Len(all) : CellAt(p) \in 0..5 /\ Abs(cell[all[k]].cell - CellAt(p)) <= 1}
           (* what is known of the hits listed for a module *)
           Of(m, h) == /\ h \in 1..Len(cell)
                       /\ "tof" \in detectors => h \in 1..nTofHits /\ cell[h].tray = p.tray /\ cell[h].module = m
<1>1. p.module \in Int /\ p.y \in Int
  BY DEF Proj
<1>2. ASSUME NEW m PROVE inModule(m) \in Seq(Nat) /\ \A k \in 1..Len(inModule(m)) : Of(m, inModule(m)[k])
  <2>1. CASE <<p.tray, m>> \in DOMAIN Cellhit
    <3> DEFINE q == <<p.tray, m>>
    <3>1. q \in Trays \X Modules /\ inModule(m) = Cellhit[q]
      BY <2>1 DEF Base
    <3>2. \A h : <<cell[h].tray, cell[h].module>> = q => cell[h].tray = p.tray /\ cell[h].module = m
      OBVIOUS
    <3> HIDE DEF q, inModule
    <3>3. Cellhit[q] \in Seq(Nat) /\ \A k \in 1..Len(Cellhit[q]) : Cellhit[q][k] \in 1..Len(cell)
      BY <3>1 DEF Base
    <3>4. "tof" \in detectors =>
            \A k \in 1..Len(Cellhit[q]) :
              Cellhit[q][k] \in 1..nTofHits
              /\ <<cell[Cellhit[q][k]].tray, cell[Cellhit[q][k]].module>> = q
      BY <3>1 DEF Base, Listed
    <3> QED
      BY <3>1, <3>2, <3>3, <3>4
  <2>2. CASE <<p.tray, m>> \notin DOMAIN Cellhit
    <3>1. inModule(m) = << >> /\ 1..0 = {}
      BY <2>2
    <3> HIDE DEF inModule
    <3> QED
      BY <3>1, EmptySeq
  <2> QED
    BY <2>1, <2>2
<1>3. c = Picked(all, I)
  BY DEF CellsAround
<1> DEFINE a1 == inModule(p.module - 1)
           a2 == inModule(p.module)
           a3 == inModule(p.module + 1)
           Around3(h) == Of(p.module - 1, h) \/ Of(p.module, h) \/ Of(p.module + 1, h)
<1>4. all \in Seq(Nat) /\ \A k \in 1..Len(all) : Around3(all[k])
  <2>1. /\ a1 \in Seq(Nat) /\ \A k \in 1..Len(a1) : Around3(a1[k])
        /\ a2 \in Seq(Nat) /\ \A k \in 1..Len(a2) : Around3(a2[k])
        /\ a3 \in Seq(Nat) /\ \A k \in 1..Len(a3) : Around3(a3[k])
    <3> HIDE DEF Of, inModule
    <3> QED
      BY <1>2
  <2>2. all = a1 \o a2 \o a3
    OBVIOUS
  <2> HIDE DEF a1, a2, a3, Around3, all
  <2>3. ASSUME NEW q \in Seq(Nat), NEW r \in Seq(Nat),
               \A k \in 1..Len(q) : Around3(q[k]), \A k \in 1..Len(r) : Around3(r[k])
        PROVE  q \o r \in Seq(Nat) /\ \A k \in 1..Len(q \o r) : Around3((q \o r)[k])
    <3>1. /\ q \o r \in Seq(Nat) /\ Len(q \o r) = Len(q) + Len(r) /\ Len(q) \in Nat /\ Len(r) \in Nat
          /\ \A k \in 1..(Len(q) + Len(r)) : (q \o r)[k] = IF k <= Len(q) THEN q[k] ELSE r[k - Len(q)]
      BY <2>3, ConcatProperties, LenProperties
    <3>2. \A k \in 1..(Len(q) + Len(r)) : k \in 1..Len(q) \/ (~(k <= Len(q)) /\ k - Len(q) \in 1..Len(r))
      BY <3>1
    <3> QED
      BY <2>3, <3>1, <3>2
  <2> QED
    BY <2>1, <2>2, <2>3
<1>5. c \in Seq(Nat) /\ Len(c) \in Nat /\ \A n \in 1..Len(c) : \E k \in I : c[n] = all[k]
  <2>1. I \in SUBSET (1..Len(all))
    OBVIOUS
  <2>2. all \in Seq(Nat)
    BY <1>4
  <2> HIDE DEF c, all, I
  <2>3. c \in Seq(Nat) /\ Len(c) \in Nat
    BY <1>3, <2>1, <2>2, PickedIs
  <2>4. \A n \in 1..Len(c) : \E k \in I : c[n] = all[k]
    BY <1>3, <2>1, <2>2, PickedIs
  <2> QED
    BY <2>3, <2>4
<1>6. ASSUME NEW n \in 1..Len(c)
      PROVE  Around3(c[n]) /\ Abs(cell[c[n]].cell - CellAt(p)) <= 1 /\ CellAt(p) \in 0..5
  <2>1. PICK k \in I : c[n] = all[k]
    BY <1>5
  <2> HIDE DEF c, all, Around3
  <2> QED
    BY <1>4, <2>1
<1>7. \E n \in 1..Len(c) : i = c[n]
  <2> DEFINE Best(n) == \A k \in 1..Len(c) : \/ HitDistance(p, c[n]) < HitDistance(p, c[k])
                                             \/ (HitDistance(p, c[n]) = HitDistance(p, c[k]) /\ n <= k)
  <2>1. i = c[CHOOSE n \in 1..Len(c) : Best(n)] /\ c # << >>
    BY DEF ProjTrayModuleCell
  <2>2. \A n \in 1..Len(c) : HitDistance(p, c[n]) \in Nat
    <3> TAKE n \in 1..Len(c)
    <3>1. c[n] \in 1..Len(cell)
      BY <1>6
    <3>2. cell[c[n]].cell \in Int /\ CellWidth \in Int
      <4>1. cell[c[n]] \in TofHit
        <5> HIDE DEF c
        <5> QED
          BY <3>1, ElementOfSeq DEF Base
      <4> HIDE DEF c
      <4> QED
        BY <4>1, LimitsAre DEF TofHit
    <3> HIDE DEF c
    <3>3. 2 * p.y - (2 * cell[c[n]].cell + 1) * CellWidth \in Int
      BY <1>1, <3>2
    <3> QED
      BY <3>3 DEF HitDistance, Abs
  <2>3. \E n \in 1..Len(c) : Best(n)
    <3> DEFINE D == {HitDistance(p, c[n]) : n \in 1..Len(c)}
    <3>1. D \in SUBSET Nat /\ D # {}
      <4>1. 1 \in 1..Len(c)
        <5> HIDE DEF c
        <5> QED
          BY <1>5, <2>1, EmptySeq
      <4> HIDE DEF c
      <4> QED
        BY <2>2, <4>1
    <3>2. PICK d \in D : \A e \in D : d <= e
      <4> HIDE DEF D
      <4> QED
        BY <3>1, LeastNumber
    <3> DEFINE N == {n \in 1..Len(c) : HitDistance(p, c[n]) = d}
    <3>3. N \in SUBSET Nat /\ N # {}
      <4> HIDE DEF c
      <4> QED
        OBVIOUS
    <3>4. PICK n \in N : \A k \in N : n <= k
      <4> HIDE DEF N
      <4> QED
        BY <3>3, LeastNumber
    <3> HIDE DEF c
    <3>5. ASSUME NEW k \in 1..Len(c)
          PROVE  \/ HitDistance(p, c[n]) < HitDistance(p, c[k])
                 \/ (HitDistance(p, c[n]) = HitDistance(p, c[k]) /\ n <= k)
      <4>1. HitDistance(p, c[k]) \in D /\ HitDistance(p, c[k]) \in Nat
        BY <2>2, <3>5
      <4>2. d <= HitDistance(p, c[k]) /\ d \in Nat /\ HitDistance(p, c[n]) = d
        BY <3>1, <3>2, <4>1
      <4>3. HitDistance(p, c[k]) = d => n <= k
        BY <3>4, <3>5
      <4> QED
        BY <4>1, <4>2, <4>3
    <3> QED
      BY <3>4, <3>5
  <2> HIDE DEF Best, c
  <2> QED
    BY <2>1, <2>3
<1>8. PICK n \in 1..Len(c) : i = c[n]
  BY <1>7
<1> HIDE DEF c, all, I
<1>9. Around3(i) /\ Abs(cell[i].cell - CellAt(p)) <= 1
  BY <1>6, <1>8
<1> QED
  BY <1>1, <1>9 DEF Abs

LEMMA BaseInit == Init => Base
<1> SUFFICES ASSUME Init PROVE Base
  OBVIOUS
<1>1. /\ stage = "between" /\ nEvents = 0 /\ config \in Configs /\ detectors = {}
      /\ globalTrack = << >> /\ nPrimaryTracks = 0 /\ barrelTower = << >> /\ cell = << >>
      /\ nTofHits = 0 /\ pvpdhits = << >> /\ iter = 0
      /\ caliData.nMip = 0 /\ caliData.nDca = 0
  BY DEF Init, NoCaliData
<1>2. /\ DOMAIN Cellhit = Trays \X Modules
      /\ \A m \in Trays \X Modules : Cellhit[m] = << >>
  BY DEF Init, NoCells
<1>3. \A T : << >> \in Seq(T) /\ Len(<< >>) = 0
  BY EmptySeq
<1>4. 1..0 = {} /\ 0 \in 0..0 /\ 0 \in 0..20
  OBVIOUS
<1>5. 0 \in 0..MaxEvents /\ 0 <= nTotalTowers /\ 0 <= maxModuleHits /\ 0 \in 0..MaxMipTracks
      /\ 0 \in 0..MaxDcaTracks
  BY LimitsAre
<1> QED
  BY <1>1, <1>2, <1>3, <1>4, <1>5 DEF Base

LEMMA ReadTofStep ==
  ASSUME Base, NEW list \in TofData, ReadFromTofMachine(list)
  PROVE  Base'
<1> DEFINE timed == {i \in 1..Len(list) : list[i].t > 0}
           trays == Picked(list, {i \in timed : list[i].tray \in Trays})
           vpd == Picked(list, {i \in timed : list[i].tray \in {West, East}})
           n == Len(trays)
           rest == SubSeq(cell, n + 1, Len(cell))
<1>1. list \in Seq(TofHit)
  BY DataIs
<1>2. /\ cell' = trays \o rest /\ nTofHits' = n /\ pvpdhits' = vpd
      /\ Cellhit' = [m \in Trays \X Modules |-> HitsIn(m, trays)]
      /\ stage = "tof" /\ stage' = "tpx" /\ detectors' = detectors \cup {"tof"}
      /\ UNCHANGED <<nEvents, config, tracks, barrelTower, iter, caliData>>
  BY DEF ReadFromTofMachine, vert, out
<1>3. trays \in Seq(TofHit) /\ n \in Nat
  <2> DEFINE I == {i \in timed : list[i].tray \in Trays}
  <2>1. I \in SUBSET (1..Len(list))
    OBVIOUS
  <2>2. trays = Picked(list, I)
    OBVIOUS
  <2> HIDE DEF I, trays
  <2> QED
    BY <1>1, <2>1, <2>2, PickedIs
<1>4. vpd \in Seq(TofHit) /\ \A i \in 1..Len(vpd) : vpd[i].tray \in {West, East}
  <2> DEFINE I == {i \in timed : list[i].tray \in {West, East}}
  <2>1. I \in SUBSET (1..Len(list)) /\ \A i \in I : list[i].tray \in {West, East}
    OBVIOUS
  <2>2. vpd = Picked(list, I)
    OBVIOUS
  <2> HIDE DEF I, vpd
  <2>3. vpd \in Seq(TofHit)
    BY <1>1, <2>1, <2>2, PickedIs
  <2>4. \A k \in 1..Len(vpd) : \E i \in I : vpd[k] = list[i]
    BY <1>1, <2>1, <2>2, PickedIs
  <2> QED
    BY <2>1, <2>3, <2>4
<1> HIDE DEF trays, vpd
<1>5. cell \in Seq(TofHit) /\ Len(cell) \in Nat
  BY LenProperties DEF Base
<1>6. rest \in Seq(TofHit) /\ Len(rest) \in Nat
  <2>1. CASE n <= Len(cell)
    BY <1>3, <1>5, <2>1, SubSeqProperties
  <2>3. CASE n > Len(cell)
    <3>1. rest = << >>
      BY <1>3, <1>5, <2>3, SubSeqEmpty
    <3> QED
      BY <3>1, EmptySeq
  <2>2. rest \in Seq(TofHit)
    BY <1>3, <1>5, <2>1, <2>3
  <2> HIDE DEF rest
  <2> QED
    BY <2>2, LenProperties
<1> HIDE DEF rest
<1>7. /\ cell' \in Seq(TofHit) /\ Len(cell') = n + Len(rest)
      /\ \A i \in 1..n : cell'[i] = trays[i]
  <2>1. trays \o rest \in Seq(TofHit) /\ Len(trays \o rest) = n + Len(rest)
    BY <1>3, <1>6, ConcatProperties
  <2>2. \A i \in 1..n : (trays \o rest)[i] = trays[i]
    BY <1>3, <1>6, ConcatProperties
  <2> QED
    BY <1>2, <2>1, <2>2
<1>8. n \in 0..Len(cell')
  BY <1>3, <1>6, <1>7
<1>9. ASSUME NEW m \in Trays \X Modules
      PROVE  /\ Cellhit'[m] \in Seq(Nat) /\ Len(Cellhit'[m]) <= maxModuleHits
             /\ \A k \in 1..Len(Cellhit'[m]) :
                  /\ Cellhit'[m][k] \in 1..n /\ Cellhit'[m][k] \in 1..Len(cell')
                  /\ <<cell'[Cellhit'[m][k]].tray, cell'[Cellhit'[m][k]].module>> = m
  <2> DEFINE s == HitsIn(m, trays)
  <2>1. Cellhit'[m] = s
    BY <1>2
  <2>2. /\ s \in Seq(Nat) /\ Len(s) <= maxModuleHits
        /\ \A k \in 1..Len(s) : s[k] \in 1..n /\ <<trays[s[k]].tray, trays[s[k]].module>> = m
    BY <1>3, HitsInIs
  <2> HIDE DEF s
  <2>3. \A k \in 1..Len(s) : s[k] \in 1..Len(cell') /\ cell'[s[k]] = trays[s[k]]
    BY <1>3, <1>7, <1>8, <2>2
  <2> QED
    BY <2>1, <2>2, <2>3
<1>10. DOMAIN Cellhit' = Trays \X Modules
  BY <1>2
<1>11. \A m \in Trays \X Modules : Listed(m, cell, nTofHits)'
  BY <1>2, <1>9 DEF Listed
<1>12. stage' \in {"between", "vertex"} \cup Loading \cup Seeking \cup Settled /\ stage' # "vertex"
       /\ detectors' \subseteq Loading
  BY <1>2 DEF Base, Loading
<1>13. UNCHANGED <<nEvents, config, globalTrack, nPrimaryTracks, barrelTower, iter, caliData>>
  BY <1>2 DEF tracks
<1> QED
  BY <1>2, <1>4, <1>7, <1>8, <1>9, <1>10, <1>11, <1>12, <1>13 DEF Base

LEMMA ReadTowersStep ==
  ASSUME Base, NEW towers \in TowerData, ReadRawBtowers(towers)
  PROVE  Base'
<1> DEFINE I == {i \in 1..Len(towers) : towers[i].crate \in 1..30 /\ towers[i].energy > minEnergy}
           kept == Picked(towers, I)
<1>1. towers \in Seq(Tower) /\ nTotalTowers \in Nat
  BY DataIs, LimitsAre
<1>2. /\ stage \in Loading /\ stage' = "tof" /\ detectors' = detectors \cup {"btow"}
      /\ barrelTower' = kept
      /\ UNCHANGED <<nEvents, config, globalTrack, nPrimaryTracks, cell, nTofHits, pvpdhits, Cellhit,
                     iter, caliData>>
  BY DEF ReadRawBtowers, tracks, vert, out, Loading
<1>3. kept \in Seq(Tower) /\ Len(kept) <= nTotalTowers
  <2>1. I \in SUBSET (1..Len(towers))
    OBVIOUS
  <2> HIDE DEF I
  <2>2. kept \in Seq(Tower) /\ Len(kept) = Cardinality(I)
    BY <1>1, <2>1, PickedIs
  <2>3. Len(towers) \in Nat /\ Len(towers) < nTotalTowers
    BY <1>1, RecoAssumption, LenProperties
  <2> DEFINE n == Len(towers)
  <2>4. IsFiniteSet(1..n) /\ Cardinality(1..n) = n
    <3>1. n \in Nat
      BY <2>3
    <3> HIDE DEF n
    <3> QED
      BY <3>1, FS_Interval
  <2>5. Cardinality(I) \in Nat /\ Cardinality(I) <= Len(towers)
    BY <2>1, <2>4, FS_Subset, FS_CardinalityType
  <2> QED
    BY <1>1, <2>2, <2>3, <2>5
<1> HIDE DEF kept
<1>4. barrelTower' \in Seq(Tower) /\ Len(barrelTower') <= nTotalTowers
  BY <1>2, <1>3
<1>5. stage' \in {"between", "vertex"} \cup Loading \cup Seeking \cup Settled /\ stage' # "vertex"
      /\ detectors' \subseteq Loading /\ ("tof" \in detectors' <=> "tof" \in detectors)
  BY <1>2 DEF Base, Loading
<1>6. nPrimaryTracks = 0
  BY <1>2 DEF Base, Loading
<1>7. \A m \in Trays \X Modules :
        /\ Cellhit'[m] \in Seq(Nat) /\ Len(Cellhit'[m]) <= maxModuleHits
        /\ \A k \in 1..Len(Cellhit'[m]) : Cellhit'[m][k] \in 1..Len(cell')
        /\ "tof" \in detectors' => Listed(m, cell, nTofHits)'
  BY <1>2, <1>5 DEF Base, Listed
<1>8. /\ nEvents' \in 0..MaxEvents /\ config' \in Configs
      /\ globalTrack' \in Seq(Track) /\ nPrimaryTracks' \in 0..Len(globalTrack')
      /\ cell' \in Seq(TofHit) /\ nTofHits' \in 0..Len(cell')
      /\ pvpdhits' \in Seq(TofHit) /\ DOMAIN Cellhit' = Trays \X Modules /\ iter' \in 0..20
      /\ caliData'.nMip \in 0..MaxMipTracks /\ caliData'.nDca \in 0..MaxDcaTracks
  BY <1>2 DEF Base
<1>9. \A i \in 1..Len(pvpdhits') : pvpdhits'[i].tray \in {West, East}
  BY <1>2 DEF Base
<1> QED
  BY <1>2, <1>4, <1>5, <1>6, <1>7, <1>8, <1>9 DEF Base

LEMMA BaseStep ==
  ASSUME Base, [Next]_vars, stage \in Settled => Len(nodes) = Len(globalTrack)
  PROVE  Base'
<1> DEFINE Stages == {"between", "vertex"} \cup Loading \cup Seeking \cup Settled
           loaded == <<nEvents, config, detectors, globalTrack, barrelTower, cell, nTofHits, pvpdhits, Cellhit>>
<1>1. ASSUME UNCHANGED loaded, stage' \in Stages, iter' \in 0..20, stage' = "vertex" => iter' \in 0..2,
             nPrimaryTracks' \in 0..Len(globalTrack), stage' \in Loading => nPrimaryTracks' = 0,
             caliData'.nMip \in 0..MaxMipTracks, caliData'.nDca \in 0..MaxDcaTracks
      PROVE  Base'
  BY <1>1 DEF Base, Listed
<1>2. CASE EventStart
  <2>1. /\ stage' = "btow" /\ nEvents' = nEvents + 1 /\ nEvents < MaxEvents /\ detectors' = {}
        /\ globalTrack' = << >> /\ nPrimaryTracks' = 0 /\ barrelTower' = << >> /\ nTofHits' = 0
        /\ pvpdhits' = << >> /\ iter' = 0 /\ caliData'.nMip = 0 /\ caliData'.nDca = 0
        /\ UNCHANGED <<config, cell, Cellhit>>
    BY <1>2 DEF EventStart, NoCaliData
  <2>2. \A T : << >> \in Seq(T) /\ Len(<< >>) = 0
    BY EmptySeq
  <2>3. 1..0 = {} /\ 0 \in 0..20 /\ 0 \in 0..0 /\ 0 \in 0..Len(cell)
    BY LenProperties DEF Base
  <2>4. nEvents + 1 \in 0..MaxEvents /\ 0 <= nTotalTowers /\ 0 \in 0..MaxMipTracks /\ 0 \in 0..MaxDcaTracks
    BY <2>1, LimitsAre DEF Base
  <2>5. stage' \in Stages /\ stage' # "vertex" /\ detectors' \subseteq Loading /\ "tof" \notin detectors'
    BY <2>1 DEF Loading
  <2> QED
    BY <2>1, <2>2, <2>3, <2>4, <2>5 DEF Base
<1>3. ASSUME NEW list \in TrackData, ReadTPCCA(list)
      PROVE  Base'
  <2>1. /\ stage' = "nodes" /\ detectors' = detectors \cup {"tpx"} /\ globalTrack' = list
        /\ stage = "tpx"
        /\ UNCHANGED <<nEvents, config, nPrimaryTracks, barrelTower, cell, nTofHits, pvpdhits, Cellhit,
                       iter, caliData>>
    BY <1>3 DEF ReadTPCCA, hits, vert, out
  <2>2. list \in Seq(Track)
    BY DataIs
  <2>3. stage' \in Stages /\ stage' # "vertex" /\ detectors' \subseteq Loading
        /\ ("tof" \in detectors' <=> "tof" \in detectors)
    BY <2>1 DEF Base, Loading, Seeking
  <2>4. nPrimaryTracks' = 0 /\ 0 \in 0..Len(list) /\ stage' \notin Loading
    BY <2>1, <2>2, LenProperties DEF Base, Loading
  <2> QED
    BY <2>1, <2>2, <2>3, <2>4 DEF Base, Listed
<1>4. CASE Absent("btow", "tof") \/ Absent("tof", "tpx") \/ Absent("tpx", "nodes")
  <2>1. /\ UNCHANGED <<nEvents, config, detectors, globalTrack, nPrimaryTracks, barrelTower, cell,
                       nTofHits, pvpdhits, Cellhit, iter, caliData>>
        /\ stage \in Loading /\ stage' \in Loading \cup {"nodes"}
    BY <1>4 DEF Absent, event, tracks, hits, vert, out, Loading
  <2>2. stage' \in Stages /\ stage' # "vertex"
    BY <2>1 DEF Loading, Seeking
  <2> QED
    BY <1>1, <2>1, <2>2 DEF Base
<1>5. CASE MakeNodes \/ MatchGlobal \/ FindPeak
  <2>1. /\ UNCHANGED loaded /\ UNCHANGED <<nPrimaryTracks, iter, caliData>>
        /\ stage' \in {"matchTOF", "lmVertex", "peak"}
    BY <1>5 DEF MakeNodes, MatchGlobal, FindPeak, event, tracks, hits, vert, out
  <2>2. stage' \in Stages /\ stage' # "vertex" /\ stage' \notin Loading
    BY <2>1 DEF Seeking, Loading
  <2> QED
    BY <1>1, <2>1, <2>2 DEF Base
<1>6. CASE NoPeak \/ MakeLmVertex
  <2>1. /\ UNCHANGED loaded /\ UNCHANGED <<nPrimaryTracks, caliData>>
        /\ stage' = "vertex" /\ iter' = 0
    BY <1>6 DEF NoPeak, MakeLmVertex, event, tracks, hits, out
  <2>2. stage' \in Stages /\ stage' \notin Loading /\ 0 \in 0..20 /\ 0 \in 0..2
    BY <2>1 DEF Loading
  <2> QED
    BY <1>1, <2>1, <2>2 DEF Base
<1>7. CASE MovePeak
  <2>1. /\ UNCHANGED loaded /\ UNCHANGED <<nPrimaryTracks, caliData>>
        /\ stage = "peak" /\ stage' = "peak" /\ iter' = iter + 1 /\ iter < 20
    BY <1>7 DEF MovePeak, event, tracks, hits, out
  <2>2. stage' \in Stages /\ stage' # "vertex" /\ stage' \notin Loading /\ iter + 1 \in 0..20
    BY <2>1 DEF Base, Seeking, Loading
  <2> QED
    BY <1>1, <2>1, <2>2 DEF Base
<1>8. CASE MoveVertex
  <2>1. /\ UNCHANGED loaded /\ UNCHANGED <<nPrimaryTracks, caliData>>
        /\ stage = "vertex" /\ stage' \in {"vertex", "primaries"} /\ iter' = iter + 1
        /\ iter' = 3 => stage' = "primaries"
    BY <1>8 DEF MoveVertex, event, tracks, hits, out
  <2>2. iter' \in 0..20 /\ (stage' = "vertex" => iter' \in 0..2)
    BY <2>1 DEF Base
  <2>3. stage' \in Stages /\ stage' \notin Loading
    BY <2>1 DEF Settled, Loading
  <2> QED
    BY <1>1, <2>1, <2>2, <2>3 DEF Base
<1>9. CASE GiveUpVertex \/ StartTime \/ MatchPrimary \/ Fill
  <2>1. /\ UNCHANGED loaded /\ UNCHANGED <<nPrimaryTracks, iter, caliData>>
        /\ stage' \in Settled
    BY <1>9 DEF GiveUpVertex, StartTime, MatchPrimary, Fill, event, tracks, hits, vert, out, Settled
  <2>2. stage' \in Stages /\ stage' # "vertex" /\ stage' \notin Loading
    BY <2>1 DEF Settled, Loading
  <2> QED
    BY <1>1, <2>1, <2>2 DEF Base
<1>10. CASE MakePrimaries
  <2> DEFINE I == {i \in 1..Len(nodes) : IsPrimary(globalTrack[i])}
  <2>1. /\ UNCHANGED loaded /\ UNCHANGED <<iter, caliData>>
        /\ stage = "primaries" /\ stage' = "start" /\ nPrimaryTracks' = Cardinality(I)
    BY <1>10 DEF MakePrimaries, event, hits, vert, out
  <2>2. Len(nodes) = Len(globalTrack) /\ Len(globalTrack) \in Nat
    BY <2>1, LenProperties DEF Base, Settled
  <2>3. Cardinality(I) \in 0..Len(globalTrack)
    <3>1. I \in SUBSET (1..Len(nodes))
      OBVIOUS
    <3> HIDE DEF I
    <3>2. IsFiniteSet(1..Len(nodes)) /\ Cardinality(1..Len(nodes)) = Len(nodes)
      <4>1. 1 \in Int /\ Len(nodes) \in Int /\ Len(nodes) \in Nat
        BY <2>2
      <4>2. /\ IsFiniteSet(1..Len(nodes))
            /\ Cardinality(1..Len(nodes)) = IF 1 > Len(nodes) THEN 0 ELSE Len(nodes) - 1 + 1
        BY <4>1, FS_Interval
      <4>3. Len(nodes) = 0 \/ ~(1 > Len(nodes))
        BY <4>1
      <4>4. Len(nodes) - 1 + 1 = Len(nodes)
        BY <4>1
      <4> QED
        BY <4>2, <4>3, <4>4
    <3>3. IsFiniteSet(I) /\ Cardinality(I) <= Len(nodes)
      BY <3>1, <3>2, FS_Subset
    <3>4. Cardinality(I) \in Nat
      BY <3>3, FS_CardinalityType
    <3> QED
      BY <2>2, <3>3, <3>4
  <2>4. stage' \in Stages /\ stage' # "vertex" /\ stage' \notin Loading
    BY <2>1 DEF Settled, Loading
  <2> HIDE DEF I
  <2> QED
    BY <1>1, <2>1, <2>3, <2>4 DEF Base
<1>11. ASSUME NEW decision \in BOOLEAN, MakeNetworkData(decision)
       PROVE  Base'
  <2> DEFINE mips == {i \in 1..Len(nodes) : nodes[i].primary /\ globalTrack[i].mip}
             dcas == {i \in 1..Len(nodes) : nodes[i].primary /\ nodes[i].emcTower # NoHit /\ decision}
  <2>1. /\ UNCHANGED loaded /\ UNCHANGED <<nPrimaryTracks, iter>>
        /\ stage = "send" /\ stage' = "between"
        /\ caliData'.nMip = Taken(Cardinality(mips), MaxMipTracks)
        /\ caliData'.nDca = Taken(Cardinality(dcas), MaxDcaTracks)
    BY <1>11 DEF MakeNetworkData, event, tracks, hits, vert
  <2>2. ASSUME NEW S \in SUBSET (1..Len(nodes)) PROVE Cardinality(S) \in Nat
    <3>1. IsFiniteSet(1..Len(nodes))
      BY <2>1, LenProperties, FS_Interval DEF Base, Settled
    <3>2. IsFiniteSet(S)
      BY <3>1, FS_Subset
    <3> QED
      BY <3>2, FS_CardinalityType
  <2>3. mips \in SUBSET (1..Len(nodes)) /\ dcas \in SUBSET (1..Len(nodes))
    OBVIOUS
  <2> HIDE DEF mips, dcas
  <2>4. Cardinality(mips) \in Nat /\ Cardinality(dcas) \in Nat
    BY <2>2, <2>3
  <2>5. caliData'.nMip \in 0..MaxMipTracks /\ caliData'.nDca \in 0..MaxDcaTracks
    BY <2>1, <2>4, LimitsAre, MinOfTwo DEF Taken
  <2>6. stage' \in Stages /\ stage' # "vertex" /\ stage' \notin Loading
    BY <2>1 DEF Loading
  <2> QED
    BY <1>1, <2>1, <2>5, <2>6 DEF Base
<1>12. CASE UNCHANGED vars
  <2>1. UNCHANGED loaded /\ UNCHANGED <<stage, nPrimaryTracks, iter, caliData>>
    BY <1>12 DEF vars, event, tracks, hits, vert, out
  <2> QED
    BY <1>1, <2>1 DEF Base
<1> QED
  BY <1>2, <1>3, <1>4, <1>5, <1>6, <1>7, <1>8, <1>9, <1>10, <1>11, <1>12, ReadTofStep, ReadTowersStep
  DEF Next

------------------------------------------------------------------------------
(* The nodes of an event.                                                  *)
Node == [primary : BOOLEAN, globaltofCell : Nat, primarytofCell : Nat, emcTower : Nat]

Judged   == {"start", "matchPrimary", "fill", "send"}
Matched  == {"fill", "send"}
HasNodes == {"matchTOF", "lmVertex", "peak", "vertex"} \cup Settled

(* Hit h is one of this event that a helix which points to p may have made.*)
PointsAt(p, h) ==
  "tof" \in detectors =>
    /\ h \in 1..nTofHits /\ cell[h].tray = p.tray
    /\ Abs(cell[h].module - p.module) <= 1 /\ Abs(cell[h].cell - CellAt(p)) <= 1

(* Until makePrimaries every track counts as primary, until matchTOF(1)    *)
(* none has a hit as a primary track.                                      *)
NodeInv(i) ==
  /\ nodes[i].emcTower # NoHit =>
       /\ nodes[i].emcTower \in 1..Len(barrelTower)
       /\ MatchTrack(barrelTower[nodes[i].emcTower], globalTrack[i])
  /\ stage \notin Judged => nodes[i].primary
  /\ stage \notin Matched => nodes[i].primarytofCell = NoHit
  /\ nodes[i].primarytofCell # NoHit =>
       nodes[i].primary /\ PointsAt(globalTrack[i].primaryProj, nodes[i].primarytofCell)

NodesInv ==
  /\ stage \in HasNodes =>
       /\ nodes \in Seq(Node) /\ Len(nodes) = Len(globalTrack)
       /\ \A i \in 1..Len(nodes) : NodeInv(i)
  /\ stage \in Judged => nPrimaryTracks = Cardinality({i \in 1..Len(nodes) : nodes[i].primary})

LEMMA FunctionIsSeq ==
  ASSUME NEW n \in Nat, NEW T, NEW f \in [1..n -> T]
  PROVE  f \in Seq(T) /\ Len(f) = n
OBVIOUS

LEMMA EmcTowerIs ==
  ASSUME Base, NEW t, NEW i, i = EmcTower(t)
  PROVE  /\ i \in Nat
         /\ i # NoHit => i \in 1..Len(barrelTower) /\ MatchTrack(barrelTower[i], t)
<1> DEFINE matched == {k \in 1..Len(barrelTower) :
                         config.matchAllEMC /\ Matchable(t) /\ MatchTrack(barrelTower[k], t)}
<1>1. i = IF matched = {} THEN NoHit ELSE Max(matched)
  BY DEF EmcTower
<1>2. Len(barrelTower) \in Nat
  BY LenProperties DEF Base
<1>3. matched \in SUBSET (0..Len(barrelTower))
  BY <1>2
<1>4. \A k \in matched : k \in 1..Len(barrelTower) /\ k \in Nat /\ MatchTrack(barrelTower[k], t)
  BY <1>2
<1> HIDE DEF matched
<1>5. CASE matched = {}
  BY <1>1, <1>5 DEF NoHit
<1>6. CASE matched # {}
  <2>1. Max(matched) \in matched
    BY <1>2, <1>3, <1>6, MaxIs
  <2> QED
    BY <1>1, <1>4, <1>6, <2>1
<1> QED
  BY <1>5, <1>6

LEMMA CellIs ==
  ASSUME Base, NEW p \in Proj, NEW i, i = ProjTrayModuleCell(p)
  PROVE  i \in Nat /\ (i # NoHit => i \in 1..Len(cell) /\ PointsAt(p, i))
<1>1. CASE i = NoHit
  BY <1>1 DEF NoHit
<1>2. CASE i # NoHit
  <2>1. /\ i \in 1..Len(cell) /\ Abs(cell[i].cell - CellAt(p)) <= 1
        /\ "tof" \in detectors =>
             i \in 1..nTofHits /\ cell[i].tray = p.tray /\ Abs(cell[i].module - p.module) <= 1
    BY <1>2, CellFound
  <2>2. Len(cell) \in Nat
    BY LenProperties DEF Base
  <2> QED
    BY <2>1, <2>2 DEF PointsAt
<1> QED
  BY <1>1, <1>2

LEMMA TracksAre ==
  ASSUME Base
  PROVE  /\ Len(globalTrack) \in Nat
         /\ \A i \in 1..Len(globalTrack) :
              /\ globalTrack[i] \in Track
              /\ globalTrack[i].proj \in Proj /\ globalTrack[i].primaryProj \in Proj
<1>1. Len(globalTrack) \in Nat /\ \A i \in 1..Len(globalTrack) : globalTrack[i] \in Track
  BY LenProperties, ElementOfSeq DEF Base
<1> QED
  BY <1>1 DEF Track

(* A step that leaves what the nodes are about.                            *)
LEMMA NodesStay ==
  ASSUME NodesInv, UNCHANGED <<nodes, globalTrack, nPrimaryTracks, barrelTower, cell, nTofHits, detectors>>,
         stage' \in HasNodes => stage \in HasNodes,
         stage' \in Judged <=> stage \in Judged, stage' \in Matched <=> stage \in Matched
  PROVE  NodesInv'
<1>1. ASSUME NEW i, NodeInv(i) PROVE NodeInv(i)'
  BY <1>1 DEF NodeInv, PointsAt
<1> QED
  BY <1>1 DEF NodesInv

LEMMA NodesMade ==
  ASSUME Base, MakeNodes
  PROVE  NodesInv'
<1>1. /\ nodes' = [i \in 1..Len(globalTrack) |->
                     [primary |-> TRUE, globaltofCell |-> NoHit, primarytofCell |-> NoHit,
                      emcTower |-> EmcTower(globalTrack[i])]]
      /\ UNCHANGED <<globalTrack, barrelTower>> /\ stage' = "matchTOF"
  BY DEF MakeNodes, hits
<1>2. Len(globalTrack) \in Nat
  BY TracksAre
<1>3. ASSUME NEW i \in 1..Len(globalTrack) PROVE nodes'[i] \in Node /\ NodeInv(i)'
  <2> DEFINE e == EmcTower(globalTrack[i])
  <2>1. /\ e \in Nat
        /\ e # NoHit => e \in 1..Len(barrelTower) /\ MatchTrack(barrelTower[e], globalTrack[i])
    BY EmcTowerIs
  <2>2. nodes'[i] = [primary |-> TRUE, globaltofCell |-> NoHit, primarytofCell |-> NoHit, emcTower |-> e]
    BY <1>1
  <2> HIDE DEF e
  <2>3. nodes'[i] \in Node
    BY <2>1, <2>2 DEF Node, NoHit
  <2>4. nodes'[i].primary /\ nodes'[i].primarytofCell = NoHit /\ nodes'[i].emcTower = e
    BY <2>2
  <2> QED
    BY <1>1, <2>1, <2>3, <2>4 DEF NodeInv
<1>4. nodes' \in Seq(Node) /\ Len(nodes') = Len(globalTrack')
  <2>1. nodes' \in [1..Len(globalTrack) -> Node]
    BY <1>1, <1>3
  <2>2. Len(globalTrack') = Len(globalTrack)
    BY <1>1
  <2> QED
    BY <1>2, <2>1, <2>2, FunctionIsSeq
<1>5. stage' \in HasNodes /\ stage' \notin Judged
  BY <1>1 DEF HasNodes, Judged
<1> QED
  BY <1>1, <1>3, <1>4, <1>5 DEF NodesInv

(* A step that gives each node of the event a value of its own, F[i].      *)
LEMMA NodesSet ==
  ASSUME Base, NodesInv, stage \in HasNodes, UNCHANGED globalTrack, stage' \in HasNodes,
         NEW F, nodes' = [i \in 1..Len(nodes) |-> F[i]],
         \A i \in 1..Len(nodes) : F[i] \in Node,
         \A i \in 1..Len(nodes) : NodeInv(i)',
         stage' \in Judged => nPrimaryTracks' = Cardinality({i \in 1..Len(nodes) : F[i].primary})
  PROVE  NodesInv'
<1>1. Len(nodes) \in Nat /\ Len(nodes) = Len(globalTrack)
  BY LenProperties DEF NodesInv
<1>2. nodes' \in [1..Len(nodes) -> Node]
  OBVIOUS
<1>3. nodes' \in Seq(Node) /\ Len(nodes') = Len(nodes)
  BY <1>1, <1>2
<1>4. {i \in 1..Len(nodes') : nodes'[i].primary} = {i \in 1..Len(nodes) : F[i].primary}
  BY <1>3
<1> QED
  BY <1>1, <1>3, <1>4 DEF NodesInv

LEMMA GlobalMatched ==
  ASSUME Base, NodesInv, MatchGlobal
  PROVE  NodesInv'
<1> DEFINE M(i) == config.matchAllTOF /\ Matchable(globalTrack[i])
           h(i) == ProjTrayModuleCell(globalTrack[i].proj)
           F == [i \in 1..Len(nodes) |-> IF M(i) THEN [nodes[i] EXCEPT !.globaltofCell = h(i)] ELSE nodes[i]]
<1>1. /\ nodes' = F /\ UNCHANGED <<detectors, globalTrack, barrelTower, cell, nTofHits>>
      /\ stage = "matchTOF" /\ stage' = "lmVertex"
  BY DEF MatchGlobal, hits, event
<1>2. /\ stage \in HasNodes /\ stage \notin Judged /\ stage \notin Matched
      /\ stage' \in HasNodes /\ stage' \notin Judged /\ stage' \notin Matched
  BY <1>1 DEF HasNodes, Judged, Matched
<1>3. ASSUME NEW i \in 1..Len(nodes)
      PROVE  /\ F[i] \in Node /\ F[i].primary = nodes[i].primary
             /\ F[i].primarytofCell = nodes[i].primarytofCell /\ F[i].emcTower = nodes[i].emcTower
  <2>1. nodes[i] \in Node /\ i \in 1..Len(globalTrack)
    BY <1>2, ElementOfSeq DEF NodesInv
  <2>2. h(i) \in Nat
    BY <2>1, TracksAre, CellIs
  <2>3. F[i] = IF M(i) THEN [nodes[i] EXCEPT !.globaltofCell = h(i)] ELSE nodes[i]
    OBVIOUS
  <2> HIDE DEF F, M, h
  <2> QED
    BY <2>1, <2>2, <2>3 DEF Node
<1>4. ASSUME NEW i \in 1..Len(nodes) PROVE NodeInv(i)'
  <2>1. nodes'[i] = F[i]
    BY <1>1
  <2> HIDE DEF F
  <2>2. NodeInv(i)
    BY <1>2 DEF NodesInv
  <2> QED
    BY <1>1, <1>2, <1>3, <2>1, <2>2 DEF NodeInv
<1>5. nodes' = [i \in 1..Len(nodes) |-> F[i]]
  BY <1>1
<1>6. \A i \in 1..Len(nodes) : F[i] \in Node
  <2> HIDE DEF F
  <2> QED
    BY <1>3
<1> HIDE DEF F
<1> QED
  BY <1>1, <1>2, <1>4, <1>5, <1>6, NodesSet

LEMMA PrimariesMade ==
  ASSUME Base, NodesInv, MakePrimaries
  PROVE  NodesInv'
<1> DEFINE P(i) == IsPrimary(globalTrack[i])
           F == [i \in 1..Len(nodes) |-> [nodes[i] EXCEPT !.primary = @ /\ P(i)]]
<1>1. /\ nodes' = F /\ UNCHANGED <<detectors, globalTrack, barrelTower, cell, nTofHits>>
      /\ stage = "primaries" /\ stage' = "start"
      /\ nPrimaryTracks' = Cardinality({i \in 1..Len(nodes) : P(i)})
  BY DEF MakePrimaries, hits, event
<1>2. /\ stage \in HasNodes /\ stage \notin Judged /\ stage \notin Matched
      /\ stage' \in HasNodes /\ stage' \in Judged /\ stage' \notin Matched
  BY <1>1 DEF HasNodes, Judged, Matched, Settled
<1>3. ASSUME NEW i \in 1..Len(nodes)
      PROVE  /\ F[i] \in Node /\ (F[i].primary <=> P(i))
             /\ F[i].primarytofCell = nodes[i].primarytofCell /\ F[i].emcTower = nodes[i].emcTower
  <2>1. nodes[i] \in Node
    BY <1>2, ElementOfSeq DEF NodesInv
  <2>2. nodes[i].primary
    BY <1>2 DEF NodesInv, NodeInv
  <2>3. F[i] = [nodes[i] EXCEPT !.primary = @ /\ P(i)]
    OBVIOUS
  <2>4. (nodes[i].primary /\ P(i)) \in BOOLEAN
    OBVIOUS
  <2> HIDE DEF F, P
  <2> QED
    BY <2>1, <2>2, <2>3, <2>4 DEF Node
<1>4. ASSUME NEW i \in 1..Len(nodes) PROVE NodeInv(i)'
  <2>1. nodes'[i] = F[i]
    BY <1>1
  <2> HIDE DEF F
  <2>2. NodeInv(i)
    BY <1>2 DEF NodesInv
  <2>3. nodes[i].primarytofCell = NoHit
    BY <1>2, <2>2 DEF NodeInv
  <2> QED
    BY <1>1, <1>2, <1>3, <2>1, <2>2, <2>3 DEF NodeInv
<1>5. nodes' = [i \in 1..Len(nodes) |-> F[i]]
  BY <1>1
<1>6. \A i \in 1..Len(nodes) : F[i] \in Node
  <2> HIDE DEF F
  <2> QED
    BY <1>3
<1>7. {i \in 1..Len(nodes) : P(i)} = {i \in 1..Len(nodes) : F[i].primary}
  <2> HIDE DEF F, P
  <2> QED
    BY <1>3
<1> HIDE DEF F, P
<1> QED
  BY <1>1, <1>2, <1>4, <1>5, <1>6, <1>7, NodesSet

LEMMA PrimaryMatched ==
  ASSUME Base, NodesInv, MatchPrimary
  PROVE  NodesInv'
<1> DEFINE M(i) == /\ config.matchAllTOF /\ lmVertex.z # NoZ
                   /\ Matchable(globalTrack[i]) /\ nodes[i].primary
           h(i) == ProjTrayModuleCell(globalTrack[i].primaryProj)
           F == [i \in 1..Len(nodes) |-> IF M(i) THEN [nodes[i] EXCEPT !.primarytofCell = h(i)] ELSE nodes[i]]
<1>1. /\ nodes' = F /\ UNCHANGED <<detectors, globalTrack, nPrimaryTracks, barrelTower, cell, nTofHits>>
      /\ stage = "matchPrimary" /\ stage' = "fill"
  BY DEF MatchPrimary, hits, event
<1>2. /\ stage \in HasNodes /\ stage \in Judged /\ stage \notin Matched
      /\ stage' \in HasNodes /\ stage' \in Judged /\ stage' \in Matched
  BY <1>1 DEF HasNodes, Judged, Matched, Settled
<1>3. ASSUME NEW i \in 1..Len(nodes)
      PROVE  /\ F[i] \in Node /\ F[i].primary = nodes[i].primary /\ F[i].emcTower = nodes[i].emcTower
             /\ F[i].primarytofCell # NoHit =>
                  nodes[i].primary /\ PointsAt(globalTrack[i].primaryProj, F[i].primarytofCell)
  <2>1. nodes[i] \in Node /\ i \in 1..Len(globalTrack)
    BY <1>2, ElementOfSeq DEF NodesInv
  <2>2. h(i) \in Nat /\ (h(i) # NoHit => PointsAt(globalTrack[i].primaryProj, h(i)))
    BY <2>1, TracksAre, CellIs
  <2>3. F[i] = IF M(i) THEN [nodes[i] EXCEPT !.primarytofCell = h(i)] ELSE nodes[i]
    OBVIOUS
  <2>4. nodes[i].primarytofCell = NoHit
    BY <1>2 DEF NodesInv, NodeInv
  <2>5. M(i) => nodes[i].primary
    OBVIOUS
  <2> HIDE DEF F, M, h
  <2> QED
    BY <2>1, <2>2, <2>3, <2>4, <2>5 DEF Node
<1>4. ASSUME NEW i \in 1..Len(nodes) PROVE NodeInv(i)'
  <2>1. nodes'[i] = F[i]
    BY <1>1
  <2> HIDE DEF F
  <2>2. NodeInv(i)
    BY <1>2 DEF NodesInv
  <2>3. \A p, k : PointsAt(p, k)' <=> PointsAt(p, k)
    BY <1>1 DEF PointsAt
  <2> QED
    BY <1>1, <1>2, <1>3, <2>1, <2>2, <2>3 DEF NodeInv
<1>5. nodes' = [i \in 1..Len(nodes) |-> F[i]]
  BY <1>1
<1>6. \A i \in 1..Len(nodes) : F[i] \in Node
  <2> HIDE DEF F
  <2> QED
    BY <1>3
<1>7. {i \in 1..Len(nodes) : nodes[i].primary} = {i \in 1..Len(nodes) : F[i].primary}
  <2> HIDE DEF F
  <2> QED
    BY <1>3
<1>8. nPrimaryTracks' = Cardinality({i \in 1..Len(nodes) : F[i].primary})
  <2> HIDE DEF F
  <2> QED
    BY <1>1, <1>2, <1>7 DEF NodesInv
<1> HIDE DEF F
<1> QED
  BY <1>1, <1>2, <1>4, <1>5, <1>6, <1>8, NodesSet

LEMMA NodesStep ==
  ASSUME Base, NodesInv, [Next]_vars
  PROVE  NodesInv'
<1> DEFINE about == <<nodes, globalTrack, nPrimaryTracks, barrelTower, cell, nTofHits, detectors>>
<1>1. CASE \/ EventStart \/ Absent("btow", "tof") \/ Absent("tof", "tpx") \/ Absent("tpx", "nodes")
           \/ \E towers \in TowerData : ReadRawBtowers(towers)
           \/ \E list \in TofData : ReadFromTofMachine(list)
           \/ \E list \in TrackData : ReadTPCCA(list)
  <2>1. stage' \in {"btow", "tof", "tpx", "nodes"}
    BY <1>1 DEF EventStart, Absent, ReadRawBtowers, ReadFromTofMachine, ReadTPCCA
  <2> QED
    BY <2>1 DEF NodesInv, HasNodes, Judged, Settled
<1>2. CASE MakeNodes
  BY <1>2, NodesMade
<1>3. CASE MatchGlobal
  BY <1>3, GlobalMatched
<1>4. CASE NoPeak \/ FindPeak \/ MovePeak \/ MakeLmVertex \/ MoveVertex \/ GiveUpVertex
  <2>1. UNCHANGED about
    BY <1>4 DEF NoPeak, FindPeak, MovePeak, MakeLmVertex, MoveVertex, GiveUpVertex, event, tracks, hits
  <2>2. stage \in {"lmVertex", "peak", "vertex"} /\ stage' \in {"peak", "vertex", "primaries"}
    BY <1>4 DEF NoPeak, FindPeak, MovePeak, MakeLmVertex, MoveVertex, GiveUpVertex
  <2>3. stage \in HasNodes /\ (stage' \in Judged <=> stage \in Judged) /\ (stage' \in Matched <=> stage \in Matched)
    BY <2>2 DEF HasNodes, Judged, Matched
  <2> QED
    BY <2>1, <2>3, NodesStay
<1>5. CASE MakePrimaries
  BY <1>5, PrimariesMade
<1>6. CASE StartTime \/ Fill
  <2>1. UNCHANGED about
    BY <1>6 DEF StartTime, Fill, event, tracks, hits
  <2>2. (stage = "start" /\ stage' = "matchPrimary") \/ (stage = "fill" /\ stage' = "send")
    BY <1>6 DEF StartTime, Fill
  <2>3. stage \in HasNodes /\ (stage' \in Judged <=> stage \in Judged) /\ (stage' \in Matched <=> stage \in Matched)
    BY <2>2 DEF HasNodes, Judged, Matched, Settled
  <2> QED
    BY <2>1, <2>3, NodesStay
<1>7. CASE MatchPrimary
  BY <1>7, PrimaryMatched
<1>8. CASE \E decision \in BOOLEAN : MakeNetworkData(decision)
  <2>1. stage' = "between"
    BY <1>8 DEF MakeNetworkData
  <2> QED
    BY <2>1 DEF NodesInv, HasNodes, Judged, Settled
<1>9. CASE UNCHANGED vars
  <2>1. UNCHANGED about /\ stage' = stage
    BY <1>9 DEF vars, event, tracks, hits
  <2> QED
    BY <2>1, NodesStay
<1> QED
  BY <1>1, <1>2, <1>3, <1>4, <1>5, <1>6, <1>7, <1>8, <1>9 DEF Next

------------------------------------------------------------------------------
(* The types and limits.                                                   *)
EventInv == Base /\ NodesInv

LEMMA EventInvStep == EventInv /\ [Next]_vars => EventInv'
<1> SUFFICES ASSUME EventInv, [Next]_vars PROVE EventInv'
  OBVIOUS
<1>1. stage \in Settled => Len(nodes) = Len(globalTrack)
  BY DEF EventInv, NodesInv, HasNodes
<1> QED
  BY <1>1, BaseStep, NodesStep DEF EventInv

LEMMA EventInvInit == Init => EventInv
<1>1. Init => NodesInv
  BY DEF Init, NodesInv, HasNodes, Judged, Settled
<1> QED
  BY <1>1, BaseInit DEF EventInv

LEMMA EventInvAlways == Spec => []EventInv
BY EventInvInit, EventInvStep, PTL DEF Spec

(* The towers of an event fit their array and the hits of a module their   *)
(* list, which names hits that were read, and no more tracks than there    *)
(* are become primary (readRawBtowers, readFromTofMachine, makePrimaries,  *)
(* makeNetworkData).                                                       *)
THEOREM TypeCorrect == Spec => []TypeOK
<1>1. EventInv => TypeOK
  <2> SUFFICES ASSUME EventInv PROVE TypeOK
    OBVIOUS
  <2>1. \A m \in Trays \X Modules :
          Len(Cellhit[m]) <= maxModuleHits /\ ToSet(Cellhit[m]) \subseteq 1..Len(cell)
    <3> TAKE m \in Trays \X Modules
    <3>1. /\ Len(Cellhit[m]) <= maxModuleHits /\ Cellhit[m] \in Seq(Nat)
          /\ \A k \in 1..Len(Cellhit[m]) : Cellhit[m][k] \in 1..Len(cell)
      BY DEF EventInv, Base
    <3>2. ToSet(Cellhit[m]) = {Cellhit[m][k] : k \in 1..Len(Cellhit[m])}
      BY <3>1 DEF ToSet
    <3> QED
      BY <3>1, <3>2
  <2> QED
    BY <2>1 DEF EventInv, Base, TypeOK, Loading, Seeking, Settled
<1> QED
  BY <1>1, EventInvAlways, PTL

------------------------------------------------------------------------------
(* The banks.                                                              *)
BanksInv ==
  stage = "send" =>
    banks = [GT |-> FillGlobTracks, PT |-> FillPrimTracks, TOF |-> FillTofHits, PVPD |-> FillPvpdHits,
             EMC |-> FillEmc, NODE |-> FillNodes, EVE |-> FillEvent]

LEMMA BanksStep ==
  ASSUME BanksInv, [Next]_vars
  PROVE  BanksInv'
<1>1. CASE Fill
  <2>1. UNCHANGED <<event, tracks, hits, vert, times>>
    BY <1>1 DEF Fill
  <2>2. /\ FillGlobTracks' = FillGlobTracks /\ FillTofHits' = FillTofHits
        /\ FillPvpdHits' = FillPvpdHits /\ FillEmc' = FillEmc /\ FillEvent' = FillEvent
    BY <2>1 DEF tracks, hits, vert, times, FillGlobTracks, FillTofHits, FillPvpdHits, FillEmc, FillEvent
  <2>3. FillPrimTracks' = FillPrimTracks
    BY <2>1 DEF tracks, FillPrimTracks, Primaries
  <2>4. FillNodes' = FillNodes
    BY <2>1 DEF tracks, FillNodes, PrimaryTrackSN
  <2> QED
    BY <1>1, <2>2, <2>3, <2>4 DEF Fill, BanksInv
<1>2. ASSUME stage' # "send" PROVE BanksInv'
  BY <1>2 DEF BanksInv
<1>3. CASE UNCHANGED vars
  <2>1. UNCHANGED <<stage, tracks, hits, vert, times, out>>
    BY <1>3 DEF vars
  <2>2. /\ FillGlobTracks' = FillGlobTracks /\ FillTofHits' = FillTofHits
        /\ FillPvpdHits' = FillPvpdHits /\ FillEmc' = FillEmc /\ FillEvent' = FillEvent
    BY <2>1 DEF tracks, hits, vert, times, FillGlobTracks, FillTofHits, FillPvpdHits, FillEmc, FillEvent
  <2>3. FillPrimTracks' = FillPrimTracks
    BY <2>1 DEF tracks, FillPrimTracks, Primaries
  <2>4. FillNodes' = FillNodes
    BY <2>1 DEF tracks, FillNodes, PrimaryTrackSN
  <2>5. banks' = banks /\ stage' = stage
    BY <2>1 DEF out
  <2> QED
    BY <2>2, <2>3, <2>4, <2>5 DEF BanksInv
<1>4. CASE \/ EventStart \/ MakeNodes \/ MatchGlobal
           \/ Absent("btow", "tof") \/ Absent("tof", "tpx") \/ Absent("tpx", "nodes")
           \/ \E towers \in TowerData : ReadRawBtowers(towers)
           \/ \E list \in TofData : ReadFromTofMachine(list)
           \/ \E list \in TrackData : ReadTPCCA(list)
  BY <1>2, <1>4 DEF EventStart, MakeNodes, MatchGlobal, Absent, ReadRawBtowers, ReadFromTofMachine, ReadTPCCA
<1>5. CASE NoPeak \/ FindPeak \/ MovePeak \/ MakeLmVertex \/ MoveVertex \/ GiveUpVertex
  BY <1>2, <1>5 DEF NoPeak, FindPeak, MovePeak, MakeLmVertex, MoveVertex, GiveUpVertex
<1>6. CASE \/ MakePrimaries \/ StartTime \/ MatchPrimary
           \/ \E decision \in BOOLEAN : MakeNetworkData(decision)
  BY <1>2, <1>6 DEF MakePrimaries, StartTime, MatchPrimary, MakeNetworkData
<1> QED
  BY <1>1, <1>3, <1>4, <1>5, <1>6 DEF Next

(* The place of a primary track in its bank is its number among the        *)
(* primary tracks, which FillNodes counts.                                 *)
LEMMA PrimariesAre ==
  ASSUME Len(nodes) \in Nat
  PROVE  /\ Len(Primaries) \in Nat
         /\ Len(Primaries) = Cardinality({i \in 1..Len(nodes) : nodes[i].primary})
         /\ \A k \in 1..Len(Primaries) : Primaries[k] \in 1..Len(nodes)
         /\ \A i \in 1..Len(nodes) : nodes[i].primary =>
              PrimaryTrackSN(i) \in 1..Len(Primaries) /\ Primaries[PrimaryTrackSN(i)] = i
<1> DEFINE I == {i \in 1..Len(nodes) : nodes[i].primary}
           s == Primaries
<1>1. I \in SUBSET (1..Len(nodes)) /\ s = Ascending(I, Len(nodes))
  BY DEF Primaries
<1>2. ASSUME NEW i \in 1..Len(nodes), nodes[i].primary PROVE i \in I /\ PrimaryTrackSN(i) = Rank(I, i)
  <2>1. \A k : k \in 1..i /\ nodes[k].primary <=> k \in I /\ k <= i
    BY <1>2
  <2>2. {k \in 1..i : nodes[k].primary} = {k \in I : k <= i}
    BY <2>1, Zenon
  <2> QED
    BY <1>2, <2>2 DEF PrimaryTrackSN, Rank
<1> HIDE DEF s, I
<1>3. /\ s \in Seq(I) /\ Len(s) = Cardinality(I) /\ Len(s) \in Nat
      /\ \A j \in I : Rank(I, j) \in 1..Len(s) /\ s[Rank(I, j)] = j
  BY <1>1, AscendingIs
<1>4. \A k \in 1..Len(s) : s[k] \in I
  BY <1>3, ElementOfSeq
<1>5. \A i \in 1..Len(nodes) : nodes[i].primary =>
        PrimaryTrackSN(i) \in 1..Len(s) /\ s[PrimaryTrackSN(i)] = i
  BY <1>2, <1>3
<1>6. \A k \in 1..Len(s) : s[k] \in 1..Len(nodes)
  BY <1>1, <1>4
<1> QED
  BY <1>3, <1>5, <1>6 DEF s, I

LEMMA BanksAgreeThen ==
  ASSUME EventInv, BanksInv
  PROVE  BanksAgree
<1> SUFFICES ASSUME stage = "send" PROVE BanksAgree
  BY DEF BanksAgree
<1>1. /\ nodes \in Seq(Node) /\ Len(nodes) = Len(globalTrack) /\ Len(nodes) \in Nat
      /\ \A i \in 1..Len(nodes) : NodeInv(i)
      /\ nPrimaryTracks = Cardinality({i \in 1..Len(nodes) : nodes[i].primary})
  BY LenProperties DEF EventInv, NodesInv, HasNodes, Judged, Settled
<1>2. /\ banks.GT = FillGlobTracks /\ banks.PT = FillPrimTracks /\ banks.TOF = FillTofHits
      /\ banks.EMC = barrelTower /\ banks.NODE = FillNodes
  BY DEF BanksInv, FillEmc
<1>3. Len(banks.PT) = Len(Primaries) /\ Len(Primaries) = nPrimaryTracks
      /\ \A k \in 1..Len(Primaries) : banks.PT[k] = globalTrack[Primaries[k]].id
  <2>1. Len(Primaries) \in Nat /\ Len(Primaries) = nPrimaryTracks
    BY <1>1, PrimariesAre
  <2> QED
    BY <1>2, <2>1 DEF FillPrimTracks
<1>4. Len(banks.NODE) = Len(nodes)
  BY <1>1, <1>2 DEF FillNodes
<1>5. ASSUME NEW i \in 1..Len(nodes)
      PROVE  LET n == banks.NODE[i]
                 t == globalTrack[i]
                 p == t.primaryProj
             IN /\ n.primaryTrackSN # NoHit =>
                     n.primaryTrackSN <= Len(banks.PT) /\ banks.PT[n.primaryTrackSN] = banks.GT[i]
                /\ n.emcTowerSN # NoHit =>
                     n.emcTowerSN <= Len(banks.EMC) /\ MatchTrack(banks.EMC[n.emcTowerSN], t)
                /\ n.tofHitSN # NoHit /\ "tof" \in detectors =>
                     /\ n.tofHitSN <= Len(banks.TOF) /\ n.primaryTrackSN # NoHit
                     /\ LET h == banks.TOF[n.tofHitSN]
                        IN h.tray = p.tray /\ Abs(h.module - p.module) <= 1 /\ Abs(h.cell - CellAt(p)) <= 1
  <2> DEFINE n == banks.NODE[i]
             t == globalTrack[i]
             p == t.primaryProj
  <2>1. /\ n.primaryTrackSN = PrimaryTrackSN(i) /\ n.tofHitSN = nodes[i].primarytofCell
        /\ n.emcTowerSN = nodes[i].emcTower /\ banks.GT[i] = t.id
    BY <1>1, <1>2 DEF FillNodes, FillGlobTracks
  <2>2. NodeInv(i)
    BY <1>1
  <2>3. nodes[i].primary =>
          PrimaryTrackSN(i) \in 1..Len(Primaries) /\ Primaries[PrimaryTrackSN(i)] = i
    BY <1>1, PrimariesAre
  <2>4. ASSUME PrimaryTrackSN(i) # NoHit
        PROVE  PrimaryTrackSN(i) <= Len(banks.PT) /\ banks.PT[PrimaryTrackSN(i)] = t.id
    <3>1. nodes[i].primary
      BY <2>4 DEF PrimaryTrackSN
    <3>2. PrimaryTrackSN(i) \in 1..Len(Primaries) /\ Primaries[PrimaryTrackSN(i)] = i
      BY <2>3, <3>1
    <3>3. Len(Primaries) \in Nat
      BY <1>1, PrimariesAre
    <3> QED
      BY <1>3, <3>2, <3>3
  <2>5. nodes[i].emcTower # NoHit =>
          nodes[i].emcTower <= Len(barrelTower) /\ MatchTrack(barrelTower[nodes[i].emcTower], t)
    <3>1. Len(barrelTower) \in Nat
      BY LenProperties DEF EventInv, Base
    <3> QED
      BY <2>2, <3>1 DEF NodeInv
  <2>6. ASSUME nodes[i].primarytofCell # NoHit, "tof" \in detectors
        PROVE  LET k == nodes[i].primarytofCell
                   h == FillTofHits[k]
               IN /\ k <= Len(FillTofHits) /\ PrimaryTrackSN(i) # NoHit
                  /\ h.tray = p.tray /\ Abs(h.module - p.module) <= 1 /\ Abs(h.cell - CellAt(p)) <= 1
    <3> DEFINE k == nodes[i].primarytofCell
    <3>1. nodes[i].primary /\ PointsAt(p, k)
      BY <2>2, <2>6 DEF NodeInv
    <3>2. /\ k \in 1..nTofHits /\ cell[k].tray = p.tray
          /\ Abs(cell[k].module - p.module) <= 1 /\ Abs(cell[k].cell - CellAt(p)) <= 1
      BY <2>6, <3>1 DEF PointsAt
    <3> HIDE DEF k
    <3>3. cell \in Seq(TofHit) /\ nTofHits \in 0..Len(cell) /\ Len(cell) \in Nat
      BY LenProperties DEF EventInv, Base
    <3>4. Len(FillTofHits) = nTofHits /\ FillTofHits[k] = cell[k]
      <4>1. nTofHits \in Nat /\ 1 \in Nat /\ \A j \in 1..nTofHits : j \in 1..Len(cell)
        BY <3>3
      <4>2. Len(SubSeq(cell, 1, nTofHits)) = nTofHits
        BY <3>3, <4>1, SubSeqProperties
      <4>3. SubSeq(cell, 1, nTofHits)[k] = cell[k]
        BY <3>2, <3>3, <4>1, SubSeqProperties
      <4> QED
        BY <4>2, <4>3 DEF FillTofHits
    <3>5. PrimaryTrackSN(i) # NoHit
      <4>1. PrimaryTrackSN(i) \in 1..Len(Primaries) /\ Len(Primaries) \in Nat
        BY <1>1, <2>3, <3>1, PrimariesAre
      <4> QED
        BY <4>1 DEF NoHit
    <3>6. k <= Len(FillTofHits)
      BY <3>2, <3>3, <3>4
    <3> QED
      BY <3>2, <3>4, <3>5, <3>6 DEF k
  <2> HIDE DEF n, t, p
  <2>7. /\ n.primaryTrackSN # NoHit =>
             n.primaryTrackSN <= Len(banks.PT) /\ banks.PT[n.primaryTrackSN] = banks.GT[i]
        /\ n.emcTowerSN # NoHit =>
             n.emcTowerSN <= Len(banks.EMC) /\ MatchTrack(banks.EMC[n.emcTowerSN], t)
        /\ n.tofHitSN # NoHit /\ "tof" \in detectors =>
             /\ n.tofHitSN <= Len(banks.TOF) /\ n.primaryTrackSN # NoHit
             /\ LET h == banks.TOF[n.tofHitSN]
                IN h.tray = p.tray /\ Abs(h.module - p.module) <= 1 /\ Abs(h.cell - CellAt(p)) <= 1
    BY <1>2, <2>1, <2>4, <2>5, <2>6
  <2> QED
    BY <2>7 DEF n, t, p
<1> QED
  BY <1>3, <1>4, <1>5 DEF BanksAgree

(* The banks of an event fit together: a node names its own primary track, *)
(* and a tower and a hit of the same event that the track points to        *)
(* (FillNodes, FillPrimTracks, matchEMC, matchTOF).                        *)
THEOREM BanksFitTogether == Spec => []BanksAgree
<1>1. Init => BanksInv
  BY DEF Init, BanksInv
<1>2. EventInv /\ BanksInv => BanksAgree
  BY BanksAgreeThen
<1> QED
  BY <1>1, <1>2, EventInvAlways, BanksStep, PTL DEF Spec

------------------------------------------------------------------------------
(* The times.  Who is far off has others beside him, so of some times some *)
(* are left.                                                               *)
LEMMA WithoutFarIs ==
  ASSUME NEW t, NEW c, NEW cut, NEW kept \in SUBSET DOMAIN t
  PROVE  /\ WithoutFar(t, c, cut)[kept] \in SUBSET DOMAIN t
         /\ WithoutFar(t, c, cut)[kept] = {} => kept = {}
<1>1. WithoutFar(t, c, cut)[kept] = IF c \in kept /\ FarOff(t, kept, c, cut) THEN kept \ {c} ELSE kept
  BY DEF WithoutFar
<1>2. FarOff(t, kept, c, cut) => kept \ {c} # {}
  BY DEF FarOff
<1> QED
  BY <1>1, <1>2

LEMMA KeptIs ==
  ASSUME NEW n \in Nat, NEW t, DOMAIN t \subseteq 1..n, NEW cut, NEW k, k = KeptOf(t, cut)
  PROVE  Cardinality(k) \in Nat /\ (Cardinality(k) = 0 <=> DOMAIN t = {})
<1> DEFINE S == SUBSET DOMAIN t
           m == IF DOMAIN t = {} THEN 0 ELSE Max(DOMAIN t)
           Def(f) == f = [c \in 0..m |-> IF c = 0 THEN DOMAIN t ELSE WithoutFar(t, c, cut)[f[c - 1]]]
           kept == CHOOSE f : Def(f)
<1>1. k = kept[m]
  BY DEF KeptOf
<1>2. m \in Nat
  <2>1. CASE DOMAIN t = {}
    BY <2>1
  <2>2. CASE DOMAIN t # {}
    <3>1. DOMAIN t \in SUBSET (0..n)
      OBVIOUS
    <3>2. Max(DOMAIN t) \in DOMAIN t
      BY <2>2, <3>1, MaxIs
    <3> QED
      BY <2>2, <3>2
  <2> QED
    BY <2>1, <2>2
<1> HIDE DEF m
<1>3. \E f : Def(f)
  <2> DEFINE start == DOMAIN t
             step == [x \in S \X (1..m) |-> WithoutFar(t, x[2], cut)[x[1]]]
  <2>1. start \in S
    OBVIOUS
  <2>2. \A q \in S, c \in 1..m : step[<<q, c>>] = WithoutFar(t, c, cut)[q]
    OBVIOUS
  <2>3. step \in Steps(S, m)
    <3>1. \A x \in S \X (1..m) : WithoutFar(t, x[2], cut)[x[1]] \in S
      BY WithoutFarIs
    <3> QED
      BY <3>1 DEF Steps
  <2> HIDE DEF step, start, S
  <2>4. PICK f \in [0..m -> S] : Follows(f, start, m, step)
    BY <1>2, <2>1, <2>3, Recursion
  <2>5. \A c \in 1..m : f[c - 1] \in S
    BY <1>2
  <2>6. \A c \in 1..m : f[c] = WithoutFar(t, c, cut)[f[c - 1]]
    BY <2>2, <2>4, <2>5 DEF Follows
  <2>7. f = [c \in 0..m |-> IF c = 0 THEN DOMAIN t ELSE WithoutFar(t, c, cut)[f[c - 1]]]
    <3>1. f[0] = DOMAIN t
      BY <2>4 DEF Follows, start
    <3>2. \A c \in 0..m : c = 0 \/ c \in 1..m
      BY <1>2
    <3>3. \A c \in 1..m : c # 0
      OBVIOUS
    <3> QED
      BY <2>6, <3>1, <3>2, <3>3
  <2> QED
    BY <2>7
<1>4. Def(kept)
  BY <1>3
<1> HIDE DEF kept
<1> DEFINE Some(q) == q \in S /\ (q = {} => DOMAIN t = {})
           P == {c \in 0..m : Some(kept[c])}
<1>5. 0 \in P
  <2>1. kept[0] = DOMAIN t /\ 0 \in 0..m
    BY <1>2, <1>4
  <2> QED
    BY <2>1
<1>6. ASSUME NEW c \in 1..m, c - 1 \in P PROVE c \in P
  <2>1. kept[c] = WithoutFar(t, c, cut)[kept[c - 1]] /\ c \in 0..m
    <3>1. c \in 0..m /\ c # 0
      BY <1>2
    <3> QED
      BY <1>4, <3>1
  <2>2. Some(kept[c - 1])
    BY <1>6
  <2>3. Some(kept[c])
    BY <2>1, <2>2, WithoutFarIs
  <2> HIDE DEF Some
  <2> QED
    BY <2>1, <2>3
<1>7. Some(k)
  <2> HIDE DEF P
  <2>1. 0..m \subseteq P
    BY <1>2, <1>5, <1>6, UpTo
  <2>2. m \in P
    BY <1>2, <2>1
  <2> HIDE DEF Some
  <2> QED
    BY <1>1, <2>2 DEF P
<1>8. k \in SUBSET (1..n) /\ (k = {} <=> DOMAIN t = {})
  BY <1>7
<1>9. IsFiniteSet(k)
  <2>1. IsFiniteSet(1..n)
    BY FS_Interval
  <2> QED
    BY <1>8, <2>1, FS_Subset
<1> QED
  BY <1>8, <1>9, FS_CardinalityType, FS_EmptySet

HasSide(side) == \E i \in 1..Len(pvpdhits) : pvpdhits[i].tray = side

LEMMA SideIs ==
  ASSUME Base, NEW side
  PROVE  DOMAIN Side(side) \subseteq 1..192 /\ (DOMAIN Side(side) = {} <=> ~HasSide(side))
<1> DEFINE J == {i \in 1..Len(pvpdhits) : pvpdhits[i].tray = side}
           C == {pvpdhits[i].channel : i \in J}
<1>1. DOMAIN Side(side) = C
  BY DEF Side
<1>2. \A i \in 1..Len(pvpdhits) : pvpdhits[i].channel \in 1..192
  <2>1. \A i \in 1..Len(pvpdhits) : pvpdhits[i] \in TofHit
    BY ElementOfSeq DEF Base
  <2> QED
    BY <2>1 DEF TofHit
<1>3. C \subseteq 1..192
  BY <1>2
<1>4. C = {} <=> J = {}
  OBVIOUS
<1>5. J = {} <=> ~HasSide(side)
  BY DEF HasSide
<1> QED
  BY <1>1, <1>3, <1>4, <1>5

Timed == {"matchPrimary", "fill", "send"}

TimesInv ==
  stage \in Timed =>
    /\ vzVpd.den > 0 <=> HasSide(East) /\ HasSide(West)
    /\ config.useVpd => (T0.den > 0 <=> HasSide(East) \/ HasSide(West))

LEMMA StartTimeStep ==
  ASSUME Base, StartTime
  PROVE  TimesInv'
<1> DEFINE e == Side(East)
           w == Side(West)
           Ie == Cardinality(KeptOf(e, tdiffCut))
           Iw == Cardinality(KeptOf(w, tdiffCut))
<1>1. /\ vzVpd' = VzVpd(e, w)
      /\ config.useVpd => T0' = Tstart(e, w)
      /\ UNCHANGED <<config, pvpdhits>>
  BY DEF StartTime, event, hits
<1>2. /\ Ie \in Nat /\ (Ie = 0 <=> ~HasSide(East))
      /\ Iw \in Nat /\ (Iw = 0 <=> ~HasSide(West))
  <2>1. /\ DOMAIN e \subseteq 1..192 /\ (DOMAIN e = {} <=> ~HasSide(East))
        /\ DOMAIN w \subseteq 1..192 /\ (DOMAIN w = {} <=> ~HasSide(West))
    BY SideIs
  <2> HIDE DEF e, w
  <2>2. /\ Ie \in Nat /\ (Ie = 0 <=> DOMAIN e = {})
        /\ Iw \in Nat /\ (Iw = 0 <=> DOMAIN w = {})
    BY <2>1, KeptIs
  <2> QED
    BY <2>1, <2>2
<1>3. VzVpd(e, w).den = IF Ie * Iw = 0 THEN 0 ELSE 2 * (Ie * Iw)
  BY DEF VzVpd, NoTime
<1>4. Tstart(e, w).den = IF Ie + Iw = 0 THEN 0 ELSE Ie + Iw
  BY DEF Tstart, NoTime
<1> HIDE DEF Ie, Iw, e, w
<1>5. Ie * Iw \in Nat /\ (Ie * Iw = 0 <=> Ie = 0 \/ Iw = 0)
  BY <1>2
<1>6. VzVpd(e, w).den > 0 <=> Ie # 0 /\ Iw # 0
  BY <1>3, <1>5
<1>7. Tstart(e, w).den > 0 <=> Ie # 0 \/ Iw # 0
  BY <1>2, <1>4
<1>8. \A side : HasSide(side)' <=> HasSide(side)
  BY <1>1 DEF HasSide
<1>9. vzVpd'.den > 0 <=> HasSide(East) /\ HasSide(West)
  BY <1>1, <1>2, <1>6
<1>10. config'.useVpd => (T0'.den > 0 <=> HasSide(East) \/ HasSide(West))
  BY <1>1, <1>2, <1>7
<1> QED
  BY <1>8, <1>9, <1>10, Zenon DEF TimesInv

LEMMA TimesStep ==
  ASSUME Base, TimesInv, [Next]_vars
  PROVE  TimesInv'
<1>1. ASSUME UNCHANGED <<config, pvpdhits, vzVpd, T0>>, stage' \in Timed => stage \in Timed
      PROVE  TimesInv'
  <2>1. \A side : HasSide(side)' <=> HasSide(side)
    BY <1>1 DEF HasSide
  <2> QED
    BY <1>1, <2>1 DEF TimesInv
<1>2. ASSUME stage' \notin Timed PROVE TimesInv'
  BY <1>2 DEF TimesInv
<1>3. CASE StartTime
  BY <1>3, StartTimeStep
<1>4. CASE MatchPrimary \/ Fill
  BY <1>1, <1>4 DEF MatchPrimary, Fill, Timed, event, hits, times
<1>5. CASE UNCHANGED vars
  BY <1>1, <1>5 DEF vars, event, hits, times
<1>6. CASE \/ EventStart \/ MakeNodes \/ MatchGlobal
           \/ Absent("btow", "tof") \/ Absent("tof", "tpx") \/ Absent("tpx", "nodes")
           \/ \E towers \in TowerData : ReadRawBtowers(towers)
           \/ \E list \in TofData : ReadFromTofMachine(list)
           \/ \E list \in TrackData : ReadTPCCA(list)
  BY <1>2, <1>6 DEF EventStart, MakeNodes, MatchGlobal, Absent, ReadRawBtowers, ReadFromTofMachine,
                    ReadTPCCA, Timed
<1>7. CASE NoPeak \/ FindPeak \/ MovePeak \/ MakeLmVertex \/ MoveVertex \/ GiveUpVertex
  BY <1>2, <1>7 DEF NoPeak, FindPeak, MovePeak, MakeLmVertex, MoveVertex, GiveUpVertex, Timed
<1>8. CASE MakePrimaries \/ \E decision \in BOOLEAN : MakeNetworkData(decision)
  BY <1>2, <1>8 DEF MakePrimaries, MakeNetworkData, Timed
<1> QED
  BY <1>3, <1>4, <1>5, <1>6, <1>7, <1>8 DEF Next

(* Without the times that are far off each side of the VPD that was hit    *)
(* has one left, so the vertex of the VPD is given exactly when both sides *)
(* of it were hit in this event, and its start time when one was; and the  *)
(* vertex of the tracks rests on tracks (CalcvzVpd, Tstart, makeVertex).   *)
THEOREM EventIsSound == Spec => []EventSound
<1>1. Init => TimesInv
  BY DEF Init, TimesInv, Timed
<1>2. Base /\ TimesInv => TimesGiven
  <2> SUFFICES ASSUME Base, TimesInv, stage = "send" PROVE TimesGiven
    BY DEF TimesGiven
  <2>1. pvpdhits # << >> <=> HasSide(East) \/ HasSide(West)
    <3>1. pvpdhits \in Seq(TofHit) /\ Len(pvpdhits) \in Nat
      BY LenProperties DEF Base
    <3>2. pvpdhits # << >> <=> 1 \in 1..Len(pvpdhits)
      BY <3>1, EmptySeq
    <3>3. \A i \in 1..Len(pvpdhits) : pvpdhits[i].tray \in {West, East} /\ 1 \in 1..Len(pvpdhits)
      BY <3>1 DEF Base
    <3> QED
      BY <3>2, <3>3 DEF HasSide
  <2> QED
    BY <2>1 DEF TimesInv, TimesGiven, Timed, HasSide
<1>3. EventInv => Base
  BY DEF EventInv
<1>4. Spec => []TimesGiven
  BY <1>1, <1>2, <1>3, EventInvAlways, TimesStep, PTL DEF Spec
<1> QED
  BY <1>4, VertexIsSupported, PTL DEF EventSound
=============================================================================
