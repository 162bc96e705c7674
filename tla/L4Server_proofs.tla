---------------------------- MODULE L4Server_proofs ----------------------------
(***************************************************************************)
(* Theorems about L4Server and about Parameters, from which the server and *)
(* the nodes are started, for every value of their constants: the server's *)
(* come first, the readers of HLTparameters after them.                    *)
(***************************************************************************)
EXTENDS L4Server, Parameters, FiniteSetTheorems, SequenceTheorems, WellFoundedInduction, TLAPS

------------------------------------------------------------------------------
(* The data operators keep to their types.                                 *)

(* Blending keeps a position a position. *)
LEMMA BlendType == \A b \in Position, v \in Int : Blend(b, v) \in Position
  BY DataAssumption DEF Blend, Position

(* The mean of positions is a position. *)
LEMMA MeansType == \A S \in SUBSET Position : Means(S) \subseteq Position
  BY DEF Means, Position

(* What a file recalls is a position, for both readings of unknown numbers. *)
LEMMA RecallType ==
  ASSUME NEW log, NEW Window \in SUBSET Position
  PROVE  RecallPositions(log, Window) \subseteq Position
<1> DEFINE V == {i \in 1..Len(log) : ValidRun(log[i].run) /\ log[i].pos \in Window}
           P == {log[i].pos : i \in LastRun(log, V)}
<1>1. P \subseteq Position
  BY DEF LastRun
<1>2. Means(P) \subseteq Position
  BY <1>1, MeansType
<1>3. Junk \in Position
  BY DEF Position
<1> QED BY <1>2, <1>3 DEF RecallPositions

(* Whatever the file holds, the constructor leaves a position behind. *)
LEMMA ReadBeamlineType == \A log : ReadBeamline(log) \subseteq Position
<1>1. PosLo..PosHi \subseteq Position /\ (PosLo..PosHi) \cup {Junk} \subseteq Position
  BY DataAssumption DEF Position
<1> QED BY <1>1, RecallType DEF ReadBeamline

(* A gain read back is within ten percent of the nominal one. *)
LEMMA ReadGainBand == \A log : ReadGain(log) \subseteq 90..110
<1> SUFFICES ASSUME NEW log, NEW h \in ReadGain(log) PROVE h \in 90..110
  OBVIOUS
<1>1. h = NominalGain \/ \E g : h = IF g \in 90..110 THEN g ELSE NominalGain
  BY Zenon DEF ReadGain
<1> QED BY <1>1 DEF NominalGain

(* The header tells the two kinds of message apart. *)
LEMMA MsgByHeader ==
  \A m \in Msg \cup {None} :
    /\ m.type = "INIT" => m \in InitMsg
    /\ m.type = "CALB" => m \in CalbMsg
<1>1. \A m \in InitMsg : m.type = "INIT"
  BY DEF InitMsg
<1>2. \A m \in CalbMsg : m.type = "CALB"
  BY DEF CalbMsg
<1>3. None.type = "none"
  BY DEF None
<1> QED BY <1>1, <1>2, <1>3 DEF Msg

------------------------------------------------------------------------------
(* Type correctness of every action. *)

(* The initial state is well typed. *)
LEMMA InitTypeOK == Init => TypeOK
<1> SUFFICES ASSUME Init PROVE TypeOK
  OBVIOUS
<1> USE ServerAssumption, DataAssumption
<1>1. rc \in {"idle", "running", "stopping", "flushing"}
  BY DEF Init
<1>2. nObj \in 0..MaxObj /\ l4Server \in 0..MaxObj /\ portOwner \in 0..MaxObj
  BY DEF Init
<1>3. inbox \in Seq(Msg) /\ wire \in Datagram \cup {None}
  BY DEF Init
<1>4. /\ pc \in [Obj -> {"recv", "log", "mip", "reply", "bcast", "dead"}]
      /\ self \in [Obj -> 0..MaxObj]
      /\ msg \in [Obj -> Msg \cup {None}]
      /\ cancel \in [Obj -> BOOLEAN]
  BY DEF Init
<1>8. /\ \A t \in Obj : pc[t] = "reply" => msg[t] \in InitMsg
      /\ \A t \in Obj : pc[t] = "mip" => msg[t] \in CalbMsg
  BY DEF Init
<1>5. beamline \in Position /\ gain \in Gain /\ SendInfo \in CaliResult
  BY DEF Init, Position, Gain, CaliResult, Fresh, NominalGain
<1>6. nReceivedEvents \in Nat /\ runnumber \in Nat /\ nEntries \in Nat
  BY DEF Init
<1>7. beamFile \in Seq(BeamLine) /\ gainFile \in Seq(GainLine)
  BY DEF Init
<1> QED BY <1>1, <1>2, <1>3, <1>4, <1>5, <1>6, <1>7, <1>8 DEF TypeOK

(* A configureRun keeps the types: what it reads from the files is typed.  *)
LEMMA ConfigureRunTypeOK == TypeOK /\ ConfigureRun => TypeOK'
<1> SUFFICES ASSUME TypeOK, ConfigureRun PROVE TypeOK'
  OBVIOUS
<1> USE ServerAssumption DEF TypeOK, ConfigureRun
<1>1. /\ rc' \in {"idle", "running", "stopping", "flushing"}
      /\ nObj' \in 0..MaxObj /\ l4Server' \in 0..MaxObj
  OBVIOUS
<1>2. portOwner' \in 0..MaxObj
  BY DEF Listen
<1>3. inbox' \in Seq(Msg) /\ wire' \in Datagram \cup {None}
  OBVIOUS
<1>4. /\ pc' \in [Obj -> {"recv", "log", "mip", "reply", "bcast", "dead"}]
      /\ self' \in [Obj -> 0..MaxObj]
      /\ msg' \in [Obj -> Msg \cup {None}]
      /\ cancel' \in [Obj -> BOOLEAN]
  <2>1. nObj + 1 \in 0..MaxObj
    OBVIOUS
  <2> QED BY <2>1 DEF CreateThread
<1>8. /\ \A t \in Obj : pc'[t] = "reply" => msg'[t] \in InitMsg
      /\ \A t \in Obj : pc'[t] = "mip" => msg'[t] \in CalbMsg
  BY DEF CreateThread
<1>5. beamline' \in Position /\ gain' \in Gain
  <2>1. beamline' \in Position
    BY ReadBeamlineType DEF NewServer
  <2>2. gain' \in 90..110
    BY ReadGainBand DEF NewServer
  <2> QED BY <2>1, <2>2 DEF Gain
<1>6. SendInfo' \in CaliResult
  BY DEF NewServer, Fresh, CaliResult, Position
<1>7. /\ nReceivedEvents' \in Nat /\ runnumber' \in Nat /\ nEntries' \in Nat
      /\ beamFile' \in Seq(BeamLine) /\ gainFile' \in Seq(GainLine)
  BY DEF NewServer, files
<1> QED BY <1>1, <1>2, <1>3, <1>4, <1>5, <1>6, <1>7, <1>8

(* Stopping, restarting and leaving keep the types; run_stop appends lines. *)
LEMMA EndOfRunTypeOK == TypeOK /\ (StopRun \/ RunStop \/ Restart \/ Exit) => TypeOK'
<1> SUFFICES ASSUME TypeOK PROVE (StopRun \/ RunStop \/ Restart \/ Exit) => TypeOK'
  OBVIOUS
<1> USE ServerAssumption DEF TypeOK, ctrl, net, threads, members, files
<1>1. CASE StopRun
  BY <1>1 DEF StopRun, KillThread
<1>2. CASE RunStop
  <2>1. beamFile' \in Seq(BeamLine)
    BY <1>2 DEF RunStop, WriteBeamline, BeamLine
  <2>2. gainFile' \in Seq(GainLine)
    <3>1. PICK s \in Scale : CalibGainParameters(s)
      BY <1>2 DEF RunStop
    <3>2. (gain * s) \div 100 \in Nat
      <4>1. gain \in Nat /\ s \in Nat
        BY DEF Gain
      <4>2. gain * s \in Nat
        BY <4>1
      <4> QED BY <4>2
    <3>3. [run |-> runnumber, gain |-> (gain * s) \div 100] \in GainLine
      BY <3>2 DEF GainLine, Gain
    <3> QED BY <3>1, <3>3 DEF CalibGainParameters
  <2>3. portOwner' \in 0..MaxObj /\ inbox' \in Seq(Msg)
    BY <1>2 DEF RunStop, CloseSocket
  <2> QED BY <1>2, <2>1, <2>2, <2>3 DEF RunStop
<1>3. CASE Restart
  BY <1>3 DEF Restart, KillThread
<1>4. CASE Exit
  <2>1. SendInfo' \in CaliResult /\ beamline' \in Position /\ gain' \in Gain
    BY <1>4 DEF Exit, Fresh, CaliResult, Position, Gain, NominalGain
  <2> QED BY <1>4, <2>1 DEF Exit
<1> QED BY <1>1, <1>2, <1>3, <1>4

(* The part of run() that looks at the vertex keeps the types.             *)
LEMMA ApplyCalbType ==
  ASSUME NEW t \in Obj, NEW m \in CalbMsg, TypeOK, ApplyCalb(t, m)
  PROVE  /\ beamline' \in Position /\ SendInfo' \in CaliResult /\ nReceivedEvents' \in Nat
         /\ pc' \in [Obj -> {"recv", "log", "mip", "reply", "bcast", "dead"}]
         /\ self' \in [Obj -> 0..MaxObj] /\ msg' \in [Obj -> Msg \cup {None}] /\ cancel' = cancel
         /\ \A u \in Obj : pc'[u] = "reply" => msg'[u] \in InitMsg
         /\ \A u \in Obj : pc'[u] = "mip" => msg'[u] \in CalbMsg
<1> USE ServerAssumption DEF TypeOK
<1>1. m.v \in Int
  BY DEF CalbMsg
<1>2. NewBeamline(m) \in Position
  BY <1>1, BlendType DEF NewBeamline
<1>3. SendInfo' \in CaliResult
  BY <1>2 DEF ApplyCalb, SetSendInfo, CaliResult
<1>4. nReceivedEvents' \in Nat /\ beamline' \in Position
  BY <1>2 DEF ApplyCalb
<1>5. Goto(t, "bcast") \/ Again(t)
  BY DEF ApplyCalb
<1>6. CASE Goto(t, "bcast")
  BY <1>3, <1>4, <1>6 DEF Goto
<1>7. CASE Again(t)
  BY <1>3, <1>4, <1>7 DEF Again
<1> QED BY <1>5, <1>6, <1>7

(* Every step of a network thread keeps the types.                         *)
LEMMA ThreadTypeOK == \A t \in Obj : TypeOK /\ NetworkThread(t) => TypeOK'
<1> SUFFICES ASSUME NEW t \in Obj, TypeOK PROVE NetworkThread(t) => TypeOK'
  OBVIOUS
<1> USE ServerAssumption DEF TypeOK, ctrl, net, threads, members, files, Goto, Again
<1>1. CASE Receive(t)
  BY <1>1 DEF Receive
<1>2. CASE RecvTimeout(t)
  BY <1>2 DEF RecvTimeout
<1>3. CASE HandleInit(t)
  <2>1. SendInfo' \in CaliResult
    BY <1>3 DEF HandleInit, CaliResult
  <2>2. msg[t] \in InitMsg
    <3>1. msg[t] \in Msg \cup {None} /\ msg[t].type = "INIT"
      BY <1>3 DEF HandleInit, IsInit
    <3> QED BY <3>1, MsgByHeader
  <2> QED BY <1>3, <2>1, <2>2 DEF HandleInit
<1>4. CASE SendReply(t)
  <2>1. msg[t].from \in Client
    BY <1>4 DEF SendReply, InitMsg
  <2>2. wire' \in Datagram
    BY <1>4, <2>1 DEF SendReply, ReplyTo, Datagram
  <2> QED BY <1>4, <2>2 DEF SendReply
<1>5. CASE HandleCalb(t)
  <2> DEFINE m == msg[t]
  <2>1. m \in CalbMsg
    BY <1>5, MsgByHeader DEF HandleCalb
  <2>2. m.run \in Nat /\ m.v \in Int
    BY <2>1 DEF CalbMsg
  <2>3. nEntries' \in Nat
    <3>1. FillHistogram(m.nMip)
      BY <1>5 DEF HandleCalb
    <3>2. nEntries' = nEntries \/ (m.nMip \in 0..500 /\ nEntries' = nEntries + m.nMip)
      BY <3>1, Zenon DEF FillHistogram
    <3>3. nEntries \in Nat
      OBVIOUS
    <3>4. \A a \in Nat, b \in 0..500 : a + b \in Nat
      OBVIOUS
    <3> QED BY ONLY <3>2, <3>3, <3>4
  <2>4. CASE m.nMip \in 0..500
    <3>1. ApplyCalb(t, m)
      BY <1>5, <2>4 DEF HandleCalb
    <3>2. /\ beamline' \in Position /\ SendInfo' \in CaliResult /\ nReceivedEvents' \in Nat
          /\ pc' \in [Obj -> {"recv", "log", "mip", "reply", "bcast", "dead"}]
          /\ self' \in [Obj -> 0..MaxObj] /\ msg' \in [Obj -> Msg \cup {None}] /\ cancel' = cancel
          /\ \A u \in Obj : pc'[u] = "reply" => msg'[u] \in InitMsg
          /\ \A u \in Obj : pc'[u] = "mip" => msg'[u] \in CalbMsg
      BY <2>1, <3>1, ApplyCalbType
    <3>3. runnumber' = m.run /\ UNCHANGED <<ctrl, net, gain, files>>
      BY <1>5 DEF HandleCalb
    <3> QED BY <2>2, <2>3, <3>2, <3>3
  <2>5. CASE m.nMip \notin 0..500
    <3>1. /\ pc' = [pc EXCEPT ![t] = "mip"]
          /\ UNCHANGED <<self, msg, cancel, beamline, SendInfo, nReceivedEvents>>
      BY <1>5, <2>5 DEF HandleCalb
    <3> HIDE DEF m
    <3> QED BY <1>5, <2>1, <2>2, <2>3, <3>1 DEF HandleCalb, m
  <2> QED BY <2>4, <2>5
<1>8. CASE ResumeCalb(t)
  <2>1. msg[t] \in CalbMsg /\ ApplyCalb(t, msg[t])
    BY <1>8 DEF ResumeCalb
  <2> QED BY <1>8, <2>1, ApplyCalbType DEF ResumeCalb
<1>6. CASE Broadcast(t)
  <2>1. wire' \in Datagram
    BY <1>6 DEF Broadcast, Datagram
  <2> QED BY <1>6, <2>1 DEF Broadcast
<1>7. CASE Cancelled(t)
  BY <1>7 DEF Cancelled
<1> QED BY <1>1, <1>2, <1>3, <1>4, <1>5, <1>6, <1>7, <1>8 DEF NetworkThread

(* A datagram that arrives is queued. *)
LEMMA ArriveTypeOK == \A m \in Msg : TypeOK /\ Arrive(m) => TypeOK'
  BY DEF TypeOK, Arrive, ctrl, net, threads, members, files

(* Every step keeps the types. *)
LEMMA NextTypeOK == TypeOK /\ [Next]_vars => TypeOK'
<1> SUFFICES ASSUME TypeOK, [Next]_vars PROVE TypeOK'
  OBVIOUS
<1>1. CASE RunControl
  BY <1>1, ConfigureRunTypeOK, EndOfRunTypeOK DEF RunControl
<1>2. CASE \E t \in Obj : NetworkThread(t)
  BY <1>2, ThreadTypeOK
<1>3. CASE \E m \in Msg : Arrive(m)
  BY <1>3, ArriveTypeOK
<1>4. CASE UNCHANGED vars
  BY <1>4 DEF TypeOK, vars, ctrl, net, threads, members, files
<1> QED BY <1>1, <1>2, <1>3, <1>4 DEF Next, ServerNext

(* The server only ever holds values of the right types, however many runs, *)
(* messages and cancellations there are (TypeOK of L4Server).              *)
THEOREM TypeCorrect == Spec => []TypeOK
  BY InitTypeOK, NextTypeOK, PTL DEF Spec

------------------------------------------------------------------------------
(* The life of a run.                                                      *)

(* Lifecycle is inductive relative to the types.                           *)
LEMMA NextLifecycle == TypeOK /\ Lifecycle /\ [Next]_vars => Lifecycle'
<1> SUFFICES ASSUME TypeOK, Lifecycle, [Next]_vars PROVE Lifecycle'
  OBVIOUS
<1> USE DEF Lifecycle, ctrl, net, threads, members, files
<1>0. nObj \in 0..MaxObj /\ pc \in [Obj -> {"recv", "log", "mip", "reply", "bcast", "dead"}]
      /\ self \in [Obj -> 0..MaxObj]
  BY DEF TypeOK
<1>1. CASE ConfigureRun
  BY <1>0, <1>1 DEF ConfigureRun, Listen, CreateThread, Obj
<1>2. CASE StopRun
  BY <1>2 DEF StopRun
<1>3. CASE RunStop
  BY <1>3 DEF RunStop, Joined, CloseSocket
<1>4. CASE Restart
  BY <1>4 DEF Restart
<1>5. CASE Exit
  BY <1>5 DEF Exit
<1>6. ASSUME NEW t \in Obj, NetworkThread(t) PROVE Lifecycle'
  <2>1. pc[t] # "dead"
    BY <1>6 DEF NetworkThread, Receive, RecvTimeout, HandleInit, SendReply, HandleCalb,
                ResumeCalb, ApplyCalb, Broadcast, Cancelled
  <2>2. rc # "idle" /\ UNCHANGED <<rc, nObj, l4Server, portOwner>>
    BY <1>6, <2>1 DEF NetworkThread, Receive, RecvTimeout, HandleInit, SendReply, HandleCalb,
                ResumeCalb, ApplyCalb, Broadcast, Cancelled, Goto, Again
  <2>3. \A u \in Obj \ {t} : pc'[u] = pc[u] /\ self'[u] = self[u]
    BY <1>0, <1>6 DEF NetworkThread, Receive, RecvTimeout, HandleInit, SendReply, HandleCalb,
                ResumeCalb, ApplyCalb, Broadcast, Cancelled, Goto, Again
  <2>4. pc'[t] # "dead" => self'[t] = l4Server
    BY <1>0, <1>6, <2>1 DEF NetworkThread, Receive, RecvTimeout, HandleInit, SendReply, HandleCalb,
                ResumeCalb, ApplyCalb, Broadcast, Cancelled, Goto, Again
  <2> QED BY <2>1, <2>2, <2>3, <2>4
<1>7. ASSUME NEW m \in Msg, Arrive(m) PROVE Lifecycle'
  BY <1>7 DEF Arrive
<1>8. CASE UNCHANGED vars
  BY <1>8 DEF vars
<1> QED BY <1>1, <1>2, <1>3, <1>4, <1>5, <1>6, <1>7, <1>8 DEF Next, ServerNext, RunControl

(* Only the newest thread is ever alive, only during a run, and its object *)
(* is the one in l4Server and on the port (configureRun, killThread,       *)
(* run_stop, restart).                                                     *)
THEOREM LifecycleHolds == Spec => []Lifecycle
<1>1. Init => Lifecycle
  BY DEF Init, Lifecycle
<1> QED BY <1>1, TypeCorrect, NextLifecycle, PTL DEF Spec

(* No thread is inside an object that configureRun or restart deleted.     *)
THEOREM NeverUsedAfterDelete == Spec => []NoUseAfterDelete
<1>1. Lifecycle => NoUseAfterDelete
  BY DEF Lifecycle, NoUseAfterDelete
<1> QED BY <1>1, LifecycleHolds, PTL

(* The bind of run_start, whose failure nobody looks at, never fails.      *)
THEOREM AlwaysListening == Spec => []Listening
<1>1. Lifecycle => Listening
  BY DEF Lifecycle, Listening
<1> QED BY <1>1, LifecycleHolds, PTL

------------------------------------------------------------------------------
(* Gains.                                                                  *)

(* The gain of a run never leaves the ten percent band, however often runs *)
(* write a gain ten percent away from the one they started with.           *)
THEOREM GainBand == Spec => []GainWithinTenPercent
<1>1. Init => GainWithinTenPercent
  BY DEF Init, GainWithinTenPercent, NominalGain
<1>2. GainWithinTenPercent /\ [Next]_vars => GainWithinTenPercent'
  <2> SUFFICES ASSUME GainWithinTenPercent, [Next]_vars PROVE GainWithinTenPercent'
    OBVIOUS
  <2> USE DEF GainWithinTenPercent
  <2>1. CASE ConfigureRun
    BY <2>1, ReadGainBand DEF ConfigureRun, NewServer
  <2>2. CASE Exit
    BY <2>2 DEF Exit, NominalGain
  <2>3. CASE UNCHANGED gain
    BY <2>3
  <2>4. StopRun \/ RunStop \/ Restart \/ UNCHANGED vars => UNCHANGED gain
    BY DEF StopRun, RunStop, Restart, vars, members
  <2>5. (\E t \in Obj : NetworkThread(t)) \/ (\E m \in Msg : Arrive(m)) => UNCHANGED gain
    BY DEF NetworkThread, Receive, RecvTimeout, HandleInit, SendReply, HandleCalb,
           ResumeCalb, Broadcast, Cancelled, Arrive, members
  <2> QED BY <2>1, <2>2, <2>3, <2>4, <2>5 DEF Next, ServerNext, RunControl
<1> QED BY <1>1, <1>2, PTL DEF Spec

------------------------------------------------------------------------------
(* Positions.                                                              *)

(* The weighted mean of two integers lies between them.                    *)
LEMMA BlendBetween ==
  ASSUME NEW b \in Int, NEW v \in Int, NEW lo \in Int, NEW hi \in Int,
         lo <= b, b <= hi, lo <= v, v <= hi
  PROVE  Blend(b, v) \in Int /\ lo <= Blend(b, v) /\ Blend(b, v) <= hi
<1> DEFINE w == Weight - 1
           n == w * b + v
<1>1. w \in Nat /\ Weight = w + 1
  BY DataAssumption
<1>2. b # Junk
  BY DataAssumption
<1> HIDE DEF w
<1>3. w * lo <= w * b /\ w * b <= w * hi
  BY <1>1
<1>4. (w + 1) * lo = w * lo + lo /\ (w + 1) * hi = w * hi + hi
  BY <1>1
<1>5. n \in Int /\ (w + 1) * lo <= n /\ n <= (w + 1) * hi
  BY <1>1, <1>3, <1>4
<1> HIDE DEF n
<1>6. \A x \in Int, d \in Nat \ {0} :
        x \div d \in Int /\ d * (x \div d) <= x /\ x < d * (x \div d) + d
  OBVIOUS
<1> DEFINE q == n \div (w + 1)
<1>7. q \in Int /\ (w + 1) * q <= n /\ n < (w + 1) * q + (w + 1)
  <2>1. w + 1 \in Nat \ {0}
    BY <1>1
  <2> QED BY <1>5, <1>6, <2>1
<1> HIDE DEF q
<1>8. (w + 1) * q <= (w + 1) * hi /\ (w + 1) * lo < (w + 1) * (q + 1)
  BY <1>1, <1>5, <1>7
<1>9. q <= hi /\ lo < q + 1
  BY <1>1, <1>7, <1>8
<1>10. Blend(b, v) = q
  BY <1>1, <1>2 DEF Blend, q, n, w
<1> QED BY <1>7, <1>9, <1>10

(* What a file recalls lies inside the window. *)
LEMMA RecallWithin ==
  ASSUME NEW log, NEW Window, Window \subseteq (PosLo..PosHi) \cup {Junk},
         NEW p \in RecallPositions(log, Window)
  PROVE  Within(p)
<1> DEFINE V == {i \in 1..Len(log) : ValidRun(log[i].run) /\ log[i].pos \in Window}
           P == {log[i].pos : i \in LastRun(log, V)}
<1>1. P \subseteq (PosLo..PosHi) \cup {Junk}
  BY DEF LastRun
<1>2. p = Junk \/ p \in Means(P)
  BY DEF RecallPositions
<1> HIDE DEF P, V
<1>3. CASE p # Junk
  <2>1. \E a, b \in P : p \in a..b /\ Junk \notin P
    BY <1>2, <1>3 DEF Means
  <2> QED BY <1>1, <2>1, DataAssumption DEF Within
<1>4. CASE p = Junk
  BY <1>4 DEF Within
<1> QED BY <1>3, <1>4

(* One more vertex of the set keeps the position inside the span. *)
LEMMA BlendWithin ==
  ASSUME NEW p \in Position, Within(p), NEW v \in Vertex
  PROVE  Within(Blend(p, v))
<1>1. CASE p = Junk
  BY <1>1 DEF Blend, Within
<1>2. CASE p # Junk
  <2> DEFINE S == (PosLo..PosHi) \cup Vertex
  <2>1. S \subseteq Int /\ v \in S /\ p \in Int
    BY <1>2, DataAssumption, ServerAssumption DEF Position
  <2>2. PICK a \in S, b \in S : a <= p /\ p <= b
    BY <1>2 DEF Within
  <2>3. PICK lo \in S : lo <= a /\ lo <= v
    BY <2>1, <2>2
  <2>4. PICK hi \in S : b <= hi /\ v <= hi
    BY <2>1, <2>2
  <2>5. lo <= p /\ p <= hi
    BY <2>1, <2>2, <2>3, <2>4
  <2>6. lo <= Blend(p, v) /\ Blend(p, v) <= hi
    BY <2>1, <2>3, <2>4, <2>5, BlendBetween
  <2> QED BY <2>3, <2>4, <2>6 DEF Within
<1> QED BY <1>1, <1>2

(* The position of the server stays within the span of the readers' window *)
(* and the vertices reported, over any number of averages and runs.        *)
THEOREM BeamlineInSpan == Spec => []BeamlineWithinSpan
<1>1. Init => BeamlineWithinSpan
  BY DEF Init, BeamlineWithinSpan, Within
<1>2. TypeOK /\ BeamlineWithinSpan /\ [Next]_vars => BeamlineWithinSpan'
  <2> SUFFICES ASSUME TypeOK, BeamlineWithinSpan, [Next]_vars PROVE Within(beamline')
    BY DEF BeamlineWithinSpan, Within
  <2>1. CASE ConfigureRun
    <3>1. beamline' \in ReadBeamline(beamFile)
      BY <2>1 DEF ConfigureRun, NewServer
    <3> QED BY <3>1, RecallWithin DEF ReadBeamline
  <2>2. CASE Exit
    BY <2>2 DEF Exit, Within
  <2>3. ASSUME NEW t \in Obj, HandleCalb(t) \/ ResumeCalb(t), ~UNCHANGED beamline
        PROVE  Within(beamline')
    <3>1. msg[t] \in CalbMsg /\ ApplyCalb(t, msg[t])
      BY <2>3, MsgByHeader DEF HandleCalb, ResumeCalb, TypeOK
    <3>2. msg[t].v \in Vertex
      BY <3>1 DEF CalbMsg
    <3>3. beamline' = NewBeamline(msg[t])
      BY <3>1 DEF ApplyCalb
    <3>4. beamline' = Blend(beamline, msg[t].v)
      BY <2>3, <3>3 DEF NewBeamline
    <3> QED BY <3>2, <3>4, BlendWithin DEF BeamlineWithinSpan, TypeOK
  <2>4. CASE UNCHANGED beamline
    BY <2>4 DEF BeamlineWithinSpan
  <2>5. StopRun \/ RunStop \/ Restart \/ UNCHANGED vars \/ (\E m \in Msg : Arrive(m))
        => UNCHANGED beamline
    BY DEF StopRun, RunStop, Restart, Arrive, vars, members
  <2>6. \A t \in Obj : NetworkThread(t) => HandleCalb(t) \/ ResumeCalb(t) \/ UNCHANGED beamline
    BY DEF NetworkThread, Receive, RecvTimeout, HandleInit, SendReply, Broadcast, Cancelled, members
  <2> QED BY <2>1, <2>2, <2>3, <2>4, <2>5, <2>6 DEF Next, ServerNext, RunControl
<1> QED BY <1>1, <1>2, TypeCorrect, PTL DEF Spec

------------------------------------------------------------------------------
(* Files.                                                                  *)

(* The files change only when no thread is alive, by one beam line at the  *)
(* end: writeBeamline after the join in stopRun.                           *)
THEOREM FilesOnlyAtStop == Spec => FilesWrittenAlone
<1> DEFINE A == /\ \A t \in Obj : pc[t] = "dead"
                /\ Len(beamFile') = Len(beamFile) + 1
                /\ \A i \in 1..Len(beamFile) : beamFile'[i] = beamFile[i]
<1>1. TypeOK /\ Lifecycle /\ [Next]_vars => [A]_files
  <2> SUFFICES ASSUME TypeOK, Lifecycle, [Next]_vars PROVE A \/ UNCHANGED files
    OBVIOUS
  <2>1. CASE RunStop
    <3>1. \A t \in Obj : pc[t] = "dead"
      BY <2>1 DEF RunStop, Joined, Lifecycle
    <3>2. beamFile' = Append(beamFile, [run |-> runnumber, pos |-> beamline])
      BY <2>1 DEF RunStop, WriteBeamline
    <3>3. beamFile \in Seq(BeamLine)
      BY DEF TypeOK
    <3> QED BY <3>1, <3>2, <3>3
  <2>2. ConfigureRun \/ StopRun \/ Restart \/ Exit \/ UNCHANGED vars => UNCHANGED files
    BY DEF ConfigureRun, StopRun, Restart, Exit, vars
  <2>3. (\E t \in Obj : NetworkThread(t)) \/ (\E m \in Msg : Arrive(m)) => UNCHANGED files
    BY DEF NetworkThread, Receive, RecvTimeout, HandleInit, SendReply, HandleCalb,
           ResumeCalb, Broadcast, Cancelled, Arrive
  <2> QED BY <2>1, <2>2, <2>3 DEF Next, ServerNext, RunControl
<1> QED BY <1>1, TypeCorrect, LifecycleHolds, PTL DEF Spec, FilesWrittenAlone

(* A datagram of the newest object that carries gains finds them still in  *)
(* its SendInfo; objects are numbered by the runs that made them.          *)
SentStays ==
  wire # None =>
    /\ wire.by \in 1..nObj
    /\ wire.by = l4Server /\ wire.data.gain # Junk => SendInfo.gain # Junk

LEMMA NextSentStays ==
  TypeOK /\ Lifecycle /\ GainWithinTenPercent /\ SentStays /\ [Next]_vars => SentStays'
<1> SUFFICES ASSUME TypeOK, Lifecycle, GainWithinTenPercent, SentStays, [Next]_vars
             PROVE SentStays'
  OBVIOUS
<1>0. nObj \in 0..MaxObj /\ l4Server \in 0..MaxObj /\ MaxObj \in Nat
  BY ServerAssumption DEF TypeOK
<1>1. CASE ConfigureRun
  <2>1. wire' = wire /\ nObj' = nObj + 1 /\ l4Server' = nObj + 1
    BY <1>1 DEF ConfigureRun
  <2> QED BY <1>0, <2>1 DEF SentStays
<1>2. CASE Exit
  <2>1. wire' = wire /\ nObj' = nObj /\ l4Server' = 0
    BY <1>2 DEF Exit
  <2> QED BY <1>0, <2>1 DEF SentStays
<1>3. ASSUME NEW t \in Obj, HandleInit(t) PROVE SentStays'
  <2>1. SendInfo'.gain = gain /\ UNCHANGED <<wire, nObj, l4Server>>
    BY <1>3 DEF HandleInit, ctrl, net
  <2>2. gain # Junk
    BY DataAssumption DEF GainWithinTenPercent
  <2> QED BY <2>1, <2>2 DEF SentStays
<1>4. ASSUME NEW t \in Obj, HandleCalb(t) \/ ResumeCalb(t) PROVE SentStays'
  <2>1. /\ SendInfo' = SendInfo \/ SendInfo' = [SendInfo EXCEPT !.pos = beamline']
        /\ UNCHANGED <<wire, nObj, l4Server>>
    BY <1>4 DEF HandleCalb, ResumeCalb, ApplyCalb, SetSendInfo, ctrl, net
  <2>2. SendInfo'.gain = SendInfo.gain
    BY <2>1 DEF TypeOK, CaliResult
  <2> QED BY <2>1, <2>2 DEF SentStays
<1>5. ASSUME NEW t \in Obj, SendReply(t) \/ Broadcast(t) PROVE SentStays'
  <2>1. self[t] = l4Server /\ l4Server = nObj /\ nObj # 0
    BY <1>5 DEF SendReply, Broadcast, Lifecycle
  <2>2. /\ wire'.by = self[t] /\ wire'.data = SendInfo
        /\ SendInfo' = SendInfo /\ UNCHANGED <<nObj, l4Server>>
    BY <1>5 DEF SendReply, Broadcast, ctrl, members
  <2> QED BY <1>0, <2>1, <2>2 DEF SentStays
<1>6. CASE UNCHANGED <<wire, SendInfo, nObj, l4Server>>
  BY <1>6 DEF SentStays
<1>7. StopRun \/ RunStop \/ Restart \/ UNCHANGED vars \/ (\E m \in Msg : Arrive(m))
      => UNCHANGED <<wire, SendInfo, nObj, l4Server>>
  BY DEF StopRun, RunStop, Restart, Arrive, vars, members, ctrl, net
<1>8. \A t \in Obj : Receive(t) \/ RecvTimeout(t) \/ Cancelled(t)
                     => UNCHANGED <<wire, SendInfo, nObj, l4Server>>
  BY DEF Receive, RecvTimeout, Cancelled, members, ctrl, net
<1> QED BY <1>1, <1>2, <1>3, <1>4, <1>5, <1>6, <1>7, <1>8
        DEF Next, ServerNext, RunControl, NetworkThread

(* An object that has sent gains never sends unwritten ones (HandleInit    *)
(* sets all of SendInfo, a CALB message only the position).                *)
THEOREM GainsKept == Spec => GainsStayWritten
<1> DEFINE A == wire # None /\ wire'.by = wire.by /\ wire.data.gain # Junk
                => wire'.data.gain # Junk
<1>1. Init => SentStays
  BY DEF Init, SentStays
<1>2. Lifecycle /\ SentStays /\ [Next]_vars => [A]_wire
  <2> SUFFICES ASSUME Lifecycle, SentStays, [Next]_vars, wire' # wire PROVE A
    OBVIOUS
  <2>1. PICK t \in Obj : SendReply(t) \/ Broadcast(t)
    BY DEF Next, ServerNext, RunControl, NetworkThread, ConfigureRun, StopRun, RunStop, Restart,
           Exit, Receive, RecvTimeout, HandleInit, HandleCalb, ResumeCalb, Cancelled, Arrive, vars, net
  <2>2. self[t] = l4Server
    BY <2>1 DEF SendReply, Broadcast, Lifecycle
  <2>3. wire'.by = self[t] /\ wire'.data = SendInfo
    BY <2>1 DEF SendReply, Broadcast
  <2> QED BY <2>2, <2>3 DEF SentStays
<1> QED BY <1>1, <1>2, NextSentStays, TypeCorrect, LifecycleHolds, GainBand, PTL
        DEF Spec, GainsStayWritten

(* What leaves the server, in files and in datagrams (run_stop, sendto).   *)
THEOREM WritesHold == Spec => WritesSound
  BY FilesOnlyAtStop, GainsKept, PTL DEF WritesSound

(* Threads, port and calibration of the server, all in one.                *)
THEOREM SafetyHolds == Spec => []Safety
<1>1. Lifecycle /\ NoUseAfterDelete /\ Listening /\ BeamlineWithinSpan /\ GainWithinTenPercent => Safety
  BY DEF Safety
<1> QED BY <1>1, LifecycleHolds, NeverUsedAfterDelete, AlwaysListening, BeamlineInSpan, GainBand, PTL

------------------------------------------------------------------------------
(* Refinement.                                                             *)

(* Every step of the server is a step of the store of beam lines, or none. *)
LEMMA StepImplementsStore == TypeOK /\ Lifecycle /\ [Next]_vars => [Store!StoreNext]_(Store!storeVars)
<1> SUFFICES ASSUME TypeOK, Lifecycle, [Next]_vars
             PROVE  Store!StoreNext \/ UNCHANGED Store!storeVars
  OBVIOUS
<1> USE DEF On
<1>0. /\ nObj \in 0..MaxObj /\ pc \in [Obj -> {"recv", "log", "mip", "reply", "bcast", "dead"}]
      /\ MaxObj \in Nat
  BY ServerAssumption DEF TypeOK
<1>1. CASE ConfigureRun
  <2>1. \A t \in Obj : pc[t] = "dead"
    BY <1>1 DEF ConfigureRun, Lifecycle
  <2>2. nObj' \in Obj /\ pc' = [pc EXCEPT ![nObj'] = "recv"] /\ rc = "idle" /\ rc' = "running"
    BY <1>0, <1>1 DEF ConfigureRun, CreateThread, Obj
  <2>3. beamline' \in ReadBeamline(beamFile) /\ runnumber' = 0 /\ beamFile' = beamFile
    BY <1>1 DEF ConfigureRun, NewServer, files
  <2>4. pc'[nObj'] = "recv" /\ \A t \in Obj : pc'[t] # "mip"
    BY <1>0, <2>1, <2>2
  <2>5. Store!Begin
    BY <2>2, <2>3, <2>4 DEF Store!Begin
  <2> QED BY <2>5 DEF Store!StoreNext
<1>2. CASE StopRun \/ Restart
  BY <1>2 DEF StopRun, Restart, members, files, Store!storeVars
<1>3. CASE RunStop
  <2>1. \A t \in Obj : pc[t] = "dead"
    BY <1>3 DEF RunStop, Joined, Lifecycle
  <2>2. Store!End
    BY <1>3, <2>1 DEF RunStop, Joined, WriteBeamline, threads, Store!End
  <2> QED BY <2>2 DEF Store!StoreNext
<1>4. CASE Exit
  <2>1. \A t \in Obj : pc[t] = "dead" /\ pc'[t] = "dead"
    BY <1>4 DEF Exit, Joined, Lifecycle
  <2>2. Store!Abort \/ UNCHANGED Store!storeVars
    BY <1>4, <2>1 DEF Exit, Joined, files, Store!Abort, Store!storeVars
  <2> QED BY <2>2 DEF Store!StoreNext
<1>5. ASSUME NEW t \in Obj, NetworkThread(t)
      PROVE  Store!StoreNext \/ UNCHANGED Store!storeVars
  <2>1. pc[t] # "dead" /\ UNCHANGED <<rc, nObj, beamFile>>
    BY <1>5 DEF NetworkThread, Receive, RecvTimeout, HandleInit, SendReply, HandleCalb,
                ResumeCalb, ApplyCalb, Broadcast, Cancelled, ctrl, files
  <2>2. rc # "idle" /\ t = nObj /\ (\A u \in Obj \ {t} : pc[u] = "dead")
    BY <2>1 DEF Lifecycle
  <2>3. (\E u \in Obj : pc[u] = "mip") <=> pc[t] = "mip"
    BY <2>2
  <2>4. \A l : pc' = [pc EXCEPT ![t] = l]
              => pc'[t] = l /\ ((\E u \in Obj : pc'[u] = "mip") <=> l = "mip")
    BY <1>0, <2>2
  <2> DEFINE Applied == /\ ApplyCalb(t, msg[t]) /\ msg[t] \in CalbMsg
             Kept    == UNCHANGED <<beamline, runnumber>>
  <2>5. CASE Applied /\ ((runnumber' = msg[t].run /\ pc[t] = "log") \/ ResumeCalb(t))
    <3>1. msg[t].v \in Vertex /\ msg[t].run \in Nat
      BY <2>5, ServerAssumption DEF CalbMsg
    <3>2. beamline' = beamline \/ \E v \in Vertex : beamline' = Blend(beamline, v)
      BY <2>5, <3>1 DEF ApplyCalb, NewBeamline
    <3>3. beamline' \in {beamline} \cup {Blend(beamline, v) : v \in Vertex}
      BY <3>2
    <3>4. pc' = [pc EXCEPT ![t] = "bcast"] \/ pc' = [pc EXCEPT ![t] = "recv"]
      BY <2>5 DEF ApplyCalb, Goto, Again
    <3>5. pc'[t] # "dead" /\ ~\E u \in Obj : pc'[u] = "mip"
      BY <2>4, <3>4
    <3>6. IF pc[t] = "mip" THEN runnumber' = runnumber ELSE runnumber' \in Nat
      BY <2>5, <3>1 DEF ResumeCalb
    <3>7. Store!Learn
      BY <2>1, <2>2, <2>3, <3>3, <3>5, <3>6 DEF Store!Learn
    <3> QED BY <3>7 DEF Store!StoreNext
  <2>6. CASE /\ pc[t] = "log" /\ pc' = [pc EXCEPT ![t] = "mip"]
             /\ runnumber' \in Nat /\ UNCHANGED beamline
    <3>1. Store!Note
      BY <2>1, <2>2, <2>3, <2>4, <2>6 DEF Store!Note
    <3> QED BY <3>1 DEF Store!StoreNext
  <2>7. CASE Kept /\ pc' = [pc EXCEPT ![t] = "dead"]
    <3>1. Store!Close
      BY <2>1, <2>2, <2>4, <2>7 DEF Store!Close
    <3> QED BY <3>1 DEF Store!StoreNext
  <2>8. CASE /\ Kept /\ pc[t] # "mip"
             /\ \E l \in {"recv", "log", "reply"} : pc' = [pc EXCEPT ![t] = l]
    <3>1. pc'[t] # "dead" /\ ~\E u \in Obj : pc'[u] = "mip"
      BY <2>4, <2>8
    <3> QED BY <2>1, <2>2, <2>3, <2>8, <3>1 DEF Store!storeVars
  <2>9. CASE Receive(t) \/ RecvTimeout(t) \/ HandleInit(t) \/ SendReply(t) \/ Broadcast(t)
    BY <2>8, <2>9 DEF Receive, RecvTimeout, HandleInit, SendReply, Broadcast, Goto, Again, members
  <2>10. CASE Cancelled(t)
    BY <2>7, <2>10 DEF Cancelled, members
  <2>11. CASE HandleCalb(t)
    <3>1. msg[t] \in CalbMsg
      BY <2>11, MsgByHeader DEF HandleCalb, TypeOK
    <3>2. msg[t].run \in Nat
      BY <3>1, ServerAssumption DEF CalbMsg
    <3>3. CASE ApplyCalb(t, msg[t])
      BY <2>5, <2>11, <3>1, <3>3 DEF HandleCalb
    <3>4. CASE Goto(t, "mip") /\ UNCHANGED beamline
      BY <2>6, <2>11, <3>2, <3>4 DEF HandleCalb, Goto
    <3> QED BY <2>11, <3>3, <3>4 DEF HandleCalb
  <2>12. CASE ResumeCalb(t)
    BY <2>5, <2>12 DEF ResumeCalb, TypeOK
  <2> QED BY <1>5, <2>9, <2>10, <2>11, <2>12 DEF NetworkThread
<1>7. ASSUME NEW m \in Msg, Arrive(m) PROVE UNCHANGED Store!storeVars
  BY <1>7 DEF Arrive, ctrl, members, threads, files, Store!storeVars
<1>8. CASE UNCHANGED vars
  BY <1>8 DEF vars, ctrl, members, threads, files, Store!storeVars
<1> QED BY <1>1, <1>2, <1>3, <1>4, <1>5, <1>7, <1>8 DEF Next, ServerNext, RunControl

(* The server implements the store of beam lines: a stopped run leaves the *)
(* line it had learned when its thread ended, an aborted one nothing.  No  *)
(* vertex is averaged in by halves, none without its run number and none   *)
(* outside a run; the run number alone is taken over from at most the one  *)
(* message the stop fell on (configureRun, run, run_stop, restart).        *)
THEOREM ServerImplementsStore == Spec => ImplementsStore
<1>1. Init => Store!StoreInit
  BY ServerAssumption DEF Init, Store!StoreInit, On, BeamLine
<1> QED BY <1>1, StepImplementsStore, TypeCorrect, LifecycleHolds, PTL
        DEF Spec, ImplementsStore, Store!StoreSpec


------------------------------------------------------------------------------
(* Numbers and recursion.                                                  *)
LEMMA LeastNumber ==
  ASSUME NEW S \in SUBSET Nat, S # {}
  PROVE  \E x \in S : \A y \in S : x <= y
<1> DEFINE Less == {ss \in Nat \X Nat : ss[1] < ss[2]}
<1>1. IsWellFoundedOn(Less, Nat)
  BY NatLessThanWellFounded, Zenon DEF OpToRel
<1> HIDE DEF Less
<1>2. PICK x \in S : \A y \in S : ~(<<y, x>> \in Less)
  BY <1>1, WFMin
<1>3. ASSUME NEW y \in S PROVE x <= y
  <2>1. x \in Nat /\ y \in Nat /\ <<y, x>> \notin Less
    BY <1>2
  <2>2. ~(y < x)
    <3>1. SUFFICES ASSUME y < x PROVE <<y, x>> \in Less
      BY <2>1
    <3>2. <<y, x>> \in Nat \X Nat /\ <<y, x>>[1] < <<y, x>>[2]
      BY <2>1, <3>1
    <3> QED
      BY <3>2 DEF Less
  <2> QED
    BY <2>1, <2>2
<1> QED
  BY <1>3

(* A property of 0 that every number hands on to the next one is one of    *)
(* all numbers up to n; P is the set of those that have it.                *)
LEMMA UpTo ==
  ASSUME NEW n \in Nat, NEW P, 0 \in P, \A i \in 1..n : i - 1 \in P => i \in P
  PROVE  0..n \subseteq P
<1> DEFINE bad == {i \in 0..n : i \notin P}
<1>1. ASSUME bad # {} PROVE FALSE
  <2>1. bad \in SUBSET Nat
    OBVIOUS
  <2>2. PICK i \in bad : \A j \in bad : i <= j
    BY <1>1, <2>1, LeastNumber
  <2>3. i \in 1..n /\ i - 1 \in 0..n /\ ~(i <= i - 1)
    OBVIOUS
  <2>4. i - 1 \in P
    BY <2>2, <2>3
  <2> QED
    BY <2>3, <2>4
<1> QED
  BY <1>1

(* A function that is defined from its value before exists.                *)
Steps(S, n) == [S \X (1..n) -> S]
Follows(f, start, n, step) == f[0] = start /\ \A i \in 1..n : f[i] = step[<<f[i - 1], i>>]

LEMMA Recursion ==
  ASSUME NEW S, NEW start \in S, NEW n \in Nat, NEW step \in Steps(S, n)
  PROVE  \E f \in [0..n -> S] : Follows(f, start, n, step)
<1> USE DEF Steps
<1> DEFINE Upto(k, f) == f[0] = start /\ \A i \in 1..k : f[i] = step[<<f[i - 1], i>>]
           P == {k \in 0..n : \E f \in [0..k -> S] : Upto(k, f)}
<1>1. 0 \in P
  <2> DEFINE f == [i \in 0..0 |-> start]
  <2>1. f \in [0..0 -> S] /\ Upto(0, f)
    OBVIOUS
  <2>2. 0 \in 0..n
    OBVIOUS
  <2> HIDE DEF f
  <2> QED
    BY <2>1, <2>2
<1>2. ASSUME NEW k \in 1..n, k - 1 \in P PROVE k \in P
  <2>1. PICK f \in [0..(k - 1) -> S] : Upto(k - 1, f)
    BY <1>2
  <2> DEFINE g == [i \in 0..k |-> IF i = k THEN step[<<f[k - 1], k>>] ELSE f[i]]
  <2>2. f[k - 1] \in S /\ step[<<f[k - 1], k>>] \in S
    <3>1. f[k - 1] \in S
      OBVIOUS
    <3>2. <<f[k - 1], k>> \in S \X (1..n)
      BY <3>1
    <3> QED
      BY <3>1, <3>2
  <2>3. g \in [0..k -> S]
    <3>1. \A i \in 0..k : i = k \/ i \in 0..(k - 1)
      OBVIOUS
    <3> QED
      BY <2>2, <3>1
  <2>4. g[0] = start
    BY <2>1
  <2>5. ASSUME NEW i \in 1..k PROVE g[i] = step[<<g[i - 1], i>>]
    <3>1. i - 1 \in 0..(k - 1) /\ i - 1 \in 0..k /\ i \in 0..k /\ i - 1 # k
      OBVIOUS
    <3>2. g[i - 1] = f[i - 1]
      BY <3>1
    <3>3. CASE i = k
      BY <3>1, <3>2, <3>3
    <3>4. CASE i # k
      <4>1. i \in 1..(k - 1)
        BY <3>4
      <4> QED
        BY <2>1, <3>1, <3>2, <3>4, <4>1
    <3> QED
      BY <3>3, <3>4
  <2> HIDE DEF g
  <2>6. k \in 0..n
    OBVIOUS
  <2> QED
    BY <2>3, <2>4, <2>5, <2>6
<1> HIDE DEF P
<1>3. 0..n \subseteq P
  BY <1>1, <1>2, UpTo
<1>4. n \in P
  BY <1>3
<1> QED
  BY <1>4 DEF P, Follows

------------------------------------------------------------------------------
(* Numbers in order.                                                       *)
Rank(I, i) == Cardinality({k \in I : k <= i})

LEMMA RankIs ==
  ASSUME NEW n \in Nat, NEW I \in SUBSET (1..n)
  PROVE  /\ Rank(I, 0) = 0 /\ Rank(I, n) = Cardinality(I)
         /\ \A i \in 0..n : Rank(I, i) \in Nat
         /\ \A i \in 1..n : Rank(I, i) = IF i \in I THEN Rank(I, i - 1) + 1 ELSE Rank(I, i - 1)
<1> DEFINE Upto(i) == {k \in I : k <= i}
<1>1. IsFiniteSet(I)
  <2>1. IsFiniteSet(1..n)
    BY FS_Interval
  <2> QED
    BY <2>1, FS_Subset
<1>2. \A i : Rank(I, i) = Cardinality(Upto(i))
  BY DEF Rank
<1>3. \A i : IsFiniteSet(Upto(i)) /\ Cardinality(Upto(i)) \in Nat
  <2> TAKE i
  <2>1. Upto(i) \in SUBSET I
    OBVIOUS
  <2> HIDE DEF Upto
  <2> QED
    BY <1>1, <2>1, FS_Subset, FS_CardinalityType
<1>4. Upto(0) = {} /\ Upto(n) = I
  <2>1. \A k \in I : ~(k <= 0) /\ k <= n
    OBVIOUS
  <2> QED
    BY <2>1, Zenon
<1>5. ASSUME NEW i \in 1..n
      PROVE  Cardinality(Upto(i)) = IF i \in I THEN Cardinality(Upto(i - 1)) + 1
                                    ELSE Cardinality(Upto(i - 1))
  <2>1. \A k \in I : k <= i <=> k <= i - 1 \/ k = i
    BY <1>5
  <2>2. ~(i <= i - 1)
    BY <1>5
  <2>3. CASE i \in I
    <3>1. Upto(i) = Upto(i - 1) \cup {i} /\ i \notin Upto(i - 1)
      BY <2>1, <2>2, <2>3, Zenon
    <3> HIDE DEF Upto
    <3>2. Cardinality(Upto(i - 1) \cup {i}) = Cardinality(Upto(i - 1)) + 1
      BY <1>3, <3>1, FS_AddElement
    <3> QED
      BY <2>3, <3>1, <3>2
  <2>4. CASE i \notin I
    <3>1. Upto(i) = Upto(i - 1)
      BY <2>1, <2>4, Zenon
    <3> HIDE DEF Upto
    <3> QED
      BY <2>4, <3>1
  <2> QED
    BY <2>3, <2>4
<1> HIDE DEF Upto
<1> QED
  BY <1>2, <1>3, <1>4, <1>5, FS_EmptySet


LEMMA KindIs ==
  \A r \in Reader : \A p \in Known(r) :
    /\ Settings[r][p] \in {"int", "hex", "dec", "real", "rows"}
    /\ Settings[r][p] = "rows" => r = "hitMap" /\ p = "rowSpaceCharge"
<1>1. ASSUME NEW p \in Known("decider") PROVE Settings["decider"][p] \in {"int", "hex", "dec", "real"}
  <2>2. DOMAIN DeciderBits = {"triggerOnHighPt", "triggerBitHighPt"}
        /\ \A x \in DOMAIN DeciderBits : DeciderBits[x] \in {"int", "hex"}
    BY DEF DeciderBits
  <2>3. DOMAIN DeciderCuts = {"nHitsCut_highPt", "nHitsCut_diElectron", "spaceChargeP0", "sigmaDedx1"}
        /\ \A x \in DOMAIN DeciderCuts : DeciderCuts[x] \in {"dec", "int", "real"}
    BY DEF DeciderCuts
  <2>4. Settings["decider"] = [x \in (DOMAIN DeciderBits) \cup (DOMAIN DeciderCuts) |->
           IF x \in DOMAIN DeciderBits THEN DeciderBits[x] ELSE DeciderCuts[x]]
    BY DEF Settings, DeciderSettings
  <2> QED
    BY <2>2, <2>3, <2>4 DEF Known
<1>2. ASSUME NEW p \in Known("collector") PROVE Settings["collector"][p] \in {"int", "hex", "dec", "real"}
  BY DEF Known, Settings, CollectorSettings
<1>3. ASSUME NEW p \in Known("server") PROVE Settings["server"][p] \in {"int", "hex", "dec", "real"}
  BY DEF Known, Settings, ServerSettings
<1>4. ASSUME NEW p \in Known("hitMap")
      PROVE  /\ Settings["hitMap"][p] \in {"int", "real", "rows"}
             /\ Settings["hitMap"][p] = "rows" => p = "rowSpaceCharge"
  BY DEF Known, Settings, HitMapSettings
<1> QED
  BY <1>1, <1>2, <1>3, <1>4 DEF Reader

------------------------------------------------------------------------------
(* The words of a file.                                                    *)
IsEnds(U, L) ==
  /\ U \in [0..Len(L) -> Nat] /\ U[0] = 0
  /\ \A n \in 1..Len(L) : U[n] = U[n - 1] + Len(L[n])

(* Where the lines end, as positions in the words.                         *)
Ends(L) == CHOOSE U : IsEnds(U, L)

LEMMA FileIs ==
  ASSUME NEW f \in File
  PROVE  /\ Len(f.lines) \in Nat /\ DOMAIN f.lines = 1..Len(f.lines)
         /\ f.found \in BOOLEAN /\ f.newline \in BOOLEAN /\ (~f.found => f.lines = <<>>)
         /\ \A n \in 1..Len(f.lines) :
              /\ f.lines[n] \in Seq(STRING) /\ Len(f.lines[n]) \in Nat /\ Len(f.lines[n]) >= 1
              /\ f.lines[n][1] \notin Number
              /\ \A i \in 2..Len(f.lines[n]) : \A r \in Reader : f.lines[n][i] \notin Known(r)
<1>1. f \in [found : BOOLEAN, lines : Seq(Seq(STRING) \ {<<>>}), newline : BOOLEAN]
      /\ (~f.found => f.lines = <<>>)
  BY ParametersAssumption
<1> DEFINE L == f.lines
<1>2. L \in Seq(Seq(STRING) \ {<<>>}) /\ f.found \in BOOLEAN /\ f.newline \in BOOLEAN
  BY <1>1
<1>3. Len(L) \in Nat /\ DOMAIN L = 1..Len(L) /\ \A n \in 1..Len(L) : L[n] \in Seq(STRING) \ {<<>>}
  <2> HIDE DEF L
  <2> QED
    BY <1>2, LenProperties, ElementOfSeq
<1>4. ASSUME NEW n \in 1..Len(L) PROVE L[n] \in Seq(STRING) /\ Len(L[n]) \in Nat /\ Len(L[n]) >= 1
  <2> DEFINE l == L[n]
  <2>1. l \in Seq(STRING) /\ l # <<>>
    BY <1>3
  <2> HIDE DEF l
  <2>2. Len(l) \in Nat /\ Len(l) # 0
    BY <2>1, EmptySeq, LenProperties
  <2>3. Len(l) >= 1
    BY <2>2
  <2> QED
    BY <2>1, <2>2, <2>3 DEF l
<1>5. \A n \in 1..Len(L) : L[n][1] \notin Number
      /\ \A i \in 2..Len(L[n]) : \A r \in Reader : L[n][i] \notin Known(r)
  BY <1>3, LinesAssumption
<1> QED
  BY <1>1, <1>2, <1>3, <1>4, <1>5

LEMMA WordsAre ==
  ASSUME NEW f \in File
  PROVE  LET L == f.lines
             E == Ends(L)
             w == Words(f)
         IN /\ IsEnds(E, L) /\ w \in Seq(STRING) /\ Len(w) = E[Len(L)]
            /\ \A n \in 1..Len(L) : \A i \in 1..Len(L[n]) : w[E[n - 1] + i] = L[n][i]
            /\ \A n \in 0..Len(L) : \A k \in 0..(n - 1) : E[k] < E[n]
<1> DEFINE L == f.lines
           N == Len(L)
           S == Seq(STRING)
           E == Ends(L)
           Def(g) == g = [n \in 0..N |-> IF n = 0 THEN <<>> ELSE g[n - 1] \o L[n]]
           upTo == CHOOSE g : Def(g)
           step == [x \in S \X (1..N) |-> x[1] \o L[x[2]]]
           lens == [n \in 0..N |-> Len(upTo[n])]
<1>1. Words(f) = upTo[N]
  BY DEF Words
<1>2. N \in Nat /\ \A n \in 1..N : L[n] \in S /\ Len(L[n]) \in Nat /\ Len(L[n]) >= 1
  BY FileIs
<1> HIDE DEF L, N
<1>3. \A x \in S, n \in 1..N : x \o L[n] \in S
  BY <1>2, ConcatProperties
<1>4. \E g : Def(g)
  <2>1. step \in Steps(S, N)
    BY <1>3 DEF Steps
  <2>2. PICK g \in [0..N -> S] : Follows(g, <<>>, N, step)
    <3> HIDE DEF S, step
    <3>1. <<>> \in S
      BY DEF S
    <3> QED
      BY <1>2, <2>1, <3>1, Recursion
  <2>3. \A k \in 1..N : g[k - 1] \in S
    BY <1>2
  <2>4. \A k \in 1..N : g[k] = g[k - 1] \o L[k]
    BY <2>2, <2>3 DEF Follows
  <2>5. g[0] = <<>>
    BY <2>2 DEF Follows
  <2>6. \A k \in 0..N : k = 0 \/ k \in 1..N
    BY <1>2
  <2> QED
    BY <2>4, <2>5, <2>6
<1>5. Def(upTo)
  BY <1>4
<1> HIDE DEF upTo
<1>6. upTo[0] = <<>> /\ \A n \in 1..N : upTo[n] = upTo[n - 1] \o L[n]
  <2>1. 0 \in 0..N /\ \A n \in 1..N : n \in 0..N /\ n # 0
    BY <1>2
  <2> QED
    BY <1>5, <2>1
<1>7. \A n \in 0..N : upTo[n] \in S /\ Len(upTo[n]) \in Nat
  <2> DEFINE P == {n \in 0..N : upTo[n] \in S}
  <2>1. 0 \in P
    <3>1. <<>> \in S /\ 0 \in 0..N
      BY <1>2
    <3> HIDE DEF S
    <3> QED
      BY <1>6, <3>1
  <2>2. ASSUME NEW n \in 1..N, n - 1 \in P PROVE n \in P
    <3>1. upTo[n - 1] \in S /\ n \in 0..N
      BY <1>2, <2>2
    <3>2. upTo[n - 1] \o L[n] \in S
      BY <1>3, <3>1
    <3> HIDE DEF S
    <3> QED
      BY <1>6, <3>1, <3>2
  <2> HIDE DEF P
  <2>3. 0..N \subseteq P
    BY <1>2, <2>1, <2>2, UpTo
  <2>4. \A n \in 0..N : upTo[n] \in S
    BY <2>3 DEF P
  <2> QED
    BY <2>4, LenProperties
<1>8. \A n \in 1..N : Len(upTo[n]) = Len(upTo[n - 1]) + Len(L[n])
      /\ \A i \in 1..Len(upTo[n - 1]) + Len(L[n]) :
           upTo[n][i] = IF i <= Len(upTo[n - 1]) THEN upTo[n - 1][i] ELSE L[n][i - Len(upTo[n - 1])]
  <2>1. TAKE n \in 1..N
  <2>2. n - 1 \in 0..N
    BY <1>2
  <2>3. upTo[n - 1] \in S /\ L[n] \in S /\ upTo[n] = upTo[n - 1] \o L[n]
    BY <1>2, <1>6, <1>7, <2>2
  <2> DEFINE a == upTo[n - 1]
             b == L[n]
             c == upTo[n]
  <2>4. a \in Seq(STRING) /\ b \in Seq(STRING) /\ c = a \o b
    BY <2>3
  <2> HIDE DEF a, b, c
  <2>5. Len(c) = Len(a) + Len(b)
        /\ \A i \in 1..Len(a) + Len(b) : c[i] = IF i <= Len(a) THEN a[i] ELSE b[i - Len(a)]
    BY <2>4, ConcatProperties
  <2> QED
    BY <2>5 DEF a, b, c
<1>9. Len(upTo[0]) = 0
  BY <1>6
<1>10. IsEnds(lens, L)
  <2>1. \A n \in 1..N : n \in 0..N /\ n - 1 \in 0..N
    BY <1>2
  <2>2. lens \in [0..N -> Nat] /\ lens[0] = 0 /\ \A n \in 1..N : lens[n] = lens[n - 1] + Len(L[n])
    <3>1. lens \in [0..N -> Nat] /\ \A n \in 0..N : lens[n] = Len(upTo[n])
      BY <1>7
    <3>2. 0 \in 0..N
      BY <1>2
    <3> HIDE DEF lens
    <3> QED
      BY <1>8, <1>9, <2>1, <3>1, <3>2
  <2> HIDE DEF lens
  <2> QED
    BY <2>2 DEF IsEnds, N
<1>11. IsEnds(E, L)
  BY <1>10 DEF Ends
<1> HIDE DEF E
<1>12. E \in [0..N -> Nat] /\ E[0] = 0 /\ \A n \in 1..N : E[n] = E[n - 1] + Len(L[n])
  BY <1>11 DEF IsEnds, N
<1> DEFINE Q(n) == /\ Len(upTo[n]) = E[n]
                   /\ \A k \in 0..(n - 1) : E[k] < E[n]
                   /\ \A m \in 1..n : \A i \in 1..Len(L[m]) : upTo[n][E[m - 1] + i] = L[m][i]
           P == {n \in 0..N : Q(n)}
<1>13. 0 \in P
  BY <1>2, <1>9, <1>12
<1>14. ASSUME NEW n \in 1..N, n - 1 \in P PROVE n \in P
  <2>1. n - 1 \in 0..N /\ n \in 0..N /\ Q(n - 1)
    BY <1>2, <1>14
  <2>2. E[n] = E[n - 1] + Len(L[n]) /\ E[n - 1] \in Nat /\ Len(L[n]) \in Nat /\ Len(L[n]) >= 1
        /\ E[n] \in Nat
    BY <1>2, <1>12, <2>1
  <2>3. Len(upTo[n]) = E[n]
    BY <1>8, <2>1, <2>2
  <2>4. ASSUME NEW k \in 0..(n - 1) PROVE E[k] < E[n] /\ E[k] <= E[n - 1] /\ E[k] \in Nat
    <3>1. k \in 0..N
      BY <1>2
    <3>2. k = n - 1 \/ k \in 0..((n - 1) - 1)
      OBVIOUS
    <3>3. E[k] = E[n - 1] \/ E[k] < E[n - 1]
      BY <2>1, <3>2
    <3>4. E[k] \in Nat
      BY <1>12, <3>1
    <3> QED
      BY <2>2, <3>3, <3>4
  <2>5. ASSUME NEW m \in 1..n, NEW i \in 1..Len(L[m])
        PROVE  upTo[n][E[m - 1] + i] = L[m][i]
    <3>1. CASE m = n
      <4>1. E[n - 1] + i \in 1..Len(upTo[n - 1]) + Len(L[n]) /\ ~(E[n - 1] + i <= Len(upTo[n - 1]))
            /\ (E[n - 1] + i) - Len(upTo[n - 1]) = i
        BY <2>1, <2>2, <3>1
      <4> QED
        BY <1>8, <3>1, <4>1
    <3>2. CASE m # n
      <4>1. m \in 1..(n - 1) /\ m \in 1..N /\ m - 1 \in 0..(n - 1) /\ m \in 0..(n - 1)
        BY <1>2, <3>2
      <4>2. E[m] = E[m - 1] + Len(L[m]) /\ Len(L[m]) \in Nat
        BY <1>2, <1>12, <4>1
      <4>3. E[m] <= E[n - 1] /\ E[m - 1] \in Nat /\ E[m] \in Nat
        BY <2>4, <4>1
      <4>4. E[m - 1] + i \in 1..Len(upTo[n - 1]) + Len(L[n]) /\ E[m - 1] + i <= Len(upTo[n - 1])
        <5>1. i \in Nat /\ i >= 1 /\ i <= Len(L[m])
          BY <4>2
        <5>2. E[m - 1] + i <= E[n - 1] /\ E[m - 1] + i \in Nat /\ E[m - 1] + i >= 1
          <6> DEFINE a == E[m - 1]
                     b == E[m]
                     c == E[n - 1]
                     l == Len(L[m])
          <6>1. b = a + l /\ l \in Nat /\ b <= c /\ a \in Nat /\ b \in Nat /\ c \in Nat
                /\ i \in Nat /\ i >= 1 /\ i <= l
            BY <2>2, <4>2, <4>3, <5>1
          <6> HIDE DEF a, b, c, l
          <6>2. a + i <= c /\ a + i \in Nat /\ a + i >= 1
            BY <6>1
          <6> QED
            BY <6>2 DEF a, c
        <5>3. Len(upTo[n - 1]) = E[n - 1]
          BY <2>1
        <5> QED
          BY <2>2, <5>2, <5>3
      <4>5. upTo[n][E[m - 1] + i] = upTo[n - 1][E[m - 1] + i]
        BY <1>8, <4>4
      <4> QED
        BY <2>1, <4>1, <4>5
    <3> QED
      BY <3>1, <3>2
  <2>6. Q(n)
    BY <2>3, <2>4, <2>5
  <2> QED
    BY <2>1, <2>6
<1> HIDE DEF P
<1>15. 0..N \subseteq P
  BY <1>2, <1>13, <1>14, UpTo
<1>16. \A n \in 0..N : Q(n)
  BY <1>15 DEF P
<1>17. N \in 0..N
  BY <1>2
<1>18. /\ upTo[N] \in Seq(STRING) /\ Len(upTo[N]) = E[N]
       /\ \A n \in 1..N : \A i \in 1..Len(L[n]) : upTo[N][E[n - 1] + i] = L[n][i]
       /\ \A n \in 0..N : \A k \in 0..(n - 1) : E[k] < E[n]
  BY <1>7, <1>16, <1>17
<1> QED
  BY <1>1, <1>11, <1>18 DEF L, N, E

------------------------------------------------------------------------------
(* What the lines up to one say.                                           *)
Gives(L, r, p, n) == L[n][1] = p /\ Complete(r, L[n])

NoneUpTo(L, r, p, d) == \A n \in 1..d : ~Gives(L, r, p, n)
LastUpTo(L, r, p, n, d) == Gives(L, r, p, n) /\ \A k \in (n + 1)..d : ~Gives(L, r, p, k)

RowsAt(L, n) == [i \in 0..NRow-1 |-> [c \in 1..NColumn |-> Dec[L[n][1 + NColumn * i + c]]]]
ValueAt(L, r, p, n) ==
  IF Settings[r][p] = "rows" THEN RowsAt(L, n)
  ELSE IF Settings[r][p] = "hex" THEN Hex[L[n][2]] ELSE Dec[L[n][2]]

(* v is what the first d lines say of p: the last of them that gives it,   *)
(* or else what it was at the start.                                       *)
Right(L, r, p, d, v, start) ==
  /\ NoneUpTo(L, r, p, d) => v = start
  /\ \A n \in 1..d : LastUpTo(L, r, p, n, d) => v = ValueAt(L, r, p, n)

LEMMA RightNone == ASSUME NEW L, NEW r, NEW p, NEW v PROVE Right(L, r, p, 0, v, v)
<1>1. \A n : n \notin 1..0
  OBVIOUS
<1> QED
  BY <1>1 DEF Right

LEMMA RightSkip ==
  ASSUME NEW L, NEW r, NEW p, NEW d \in Nat \ {0}, NEW v, NEW start,
         ~Gives(L, r, p, d), Right(L, r, p, d - 1, v, start)
  PROVE  Right(L, r, p, d, v, start)
<1>1. \A n \in 1..(d - 1) : n \in 1..d
  OBVIOUS
<1>2. \A n \in 1..d : n \in 1..(d - 1) \/ n = d
  OBVIOUS
<1>3. NoneUpTo(L, r, p, d) => NoneUpTo(L, r, p, d - 1)
  BY <1>1 DEF NoneUpTo
<1>4. ASSUME NEW n \in 1..d, LastUpTo(L, r, p, n, d) PROVE n \in 1..(d - 1) /\ LastUpTo(L, r, p, n, d - 1)
  <2>1. Gives(L, r, p, n) /\ \A k \in (n + 1)..d : ~Gives(L, r, p, k)
    BY <1>4 DEF LastUpTo
  <2>2. n \in 1..(d - 1)
    BY <1>2, <2>1
  <2>3. \A k \in (n + 1)..(d - 1) : k \in (n + 1)..d
    BY <2>2
  <2> QED
    BY <2>1, <2>2, <2>3 DEF LastUpTo
<1> QED
  BY <1>3, <1>4 DEF Right

LEMMA RightGive ==
  ASSUME NEW L, NEW r, NEW p, NEW d \in Nat \ {0}, NEW start, Gives(L, r, p, d)
  PROVE  Right(L, r, p, d, ValueAt(L, r, p, d), start)
<1>1. d \in 1..d
  OBVIOUS
<1>2. ~NoneUpTo(L, r, p, d)
  BY <1>1 DEF NoneUpTo
<1>3. ASSUME NEW n \in 1..d, LastUpTo(L, r, p, n, d) PROVE n = d
  <2>1. n # d => d \in (n + 1)..d
    OBVIOUS
  <2> QED
    BY <1>3, <2>1 DEF LastUpTo
<1> QED
  BY <1>2, <1>3 DEF Right

(* To read a file again changes nothing.                                   *)
LEMMA RightAgain ==
  ASSUME NEW L, NEW r, NEW p, NEW d, NEW v, NEW start, NEW init,
         Right(L, r, p, d, start, init), Right(L, r, p, d, v, start)
  PROVE  Right(L, r, p, d, v, init)
BY DEF Right

(* The last line that gives a setting is there if any is.                  *)
LEMMA LastIs ==
  ASSUME NEW L, NEW r, NEW p, NEW d \in Nat, ~NoneUpTo(L, r, p, d)
  PROVE  \E n \in 1..d : LastUpTo(L, r, p, n, d)
<1> DEFINE S == {d - n : n \in {k \in 1..d : Gives(L, r, p, k)}}
<1>1. S \in SUBSET Nat /\ S # {}
  BY DEF NoneUpTo
<1>2. PICK x \in S : \A y \in S : x <= y
  BY <1>1, LeastNumber
<1>3. PICK n \in 1..d : Gives(L, r, p, n) /\ x = d - n
  OBVIOUS
<1>4. ASSUME NEW k \in (n + 1)..d PROVE ~Gives(L, r, p, k)
  <2>1. SUFFICES ASSUME Gives(L, r, p, k) PROVE FALSE
    OBVIOUS
  <2>2. k \in 1..d
    OBVIOUS
  <2>3. d - k \in S
    BY <2>1, <2>2
  <2>4. x <= d - k
    BY <1>2, <2>3
  <2> HIDE DEF S
  <2> QED
    BY <1>3, <2>4
<1> QED
  BY <1>3, <1>4 DEF LastUpTo

------------------------------------------------------------------------------
(* How far a reader has come.                                              *)
NLines == Len(file.lines)
End(n) == Ends(file.lines)[n]

(* The first word of line d is behind the reader, and that of the next one *)
(* before it.                                                              *)
Begun(d) ==
  /\ d \in 0..NLines /\ pos <= End(d) + 1
  /\ IF d = 0 THEN pos = 1 ELSE pos > End(d - 1) + 1

Earlier(r) == \E s \in 1..turn - 1 : Order[process][s] = r

(* What a setting was when the reader began: it may have read the file     *)
(* before.                                                                 *)
AtStart(r, p, start) ==
  IF Earlier(r) THEN Right(file.lines, r, p, NLines, start, Initial(r)) ELSE start = Initial(r)

SettingsUpTo(r, d) ==
  InOrder(r) => \A p \in Known(r) : Settings[r][p] # "rows" =>
    \E start : AtStart(r, p, start) /\ Right(file.lines, r, p, d, setting[r][p], start)

RowsUpTo(r, d) ==
  r = "hitMap" => \A p \in Known(r) : Settings[r][p] = "rows" =>
    Right(file.lines, r, p, d, rows, NoRows)

SoundUpTo(r, d) ==
  \A n \in 1..d : file.lines[n][1] \notin Known(r) \/ Complete(r, file.lines[n])

(* Integers are hexadecimal only after a trigger bit.                      *)
BaseUpTo(r, d) ==
  base = 16 => \E m \in 1..d : KindOf(r, m) = "hex" /\ \A k \in m..d : KindOf(r, k) # "dec"

UpToLine(r, d) == SettingsUpTo(r, d) /\ RowsUpTo(r, d) /\ SoundUpTo(r, d) /\ BaseUpTo(r, d)

(* A reader has read the whole file; the last line may break off in the    *)
(* middle of the rows.                                                     *)
CutOff(L, r, p) == L # <<>> /\ L[Len(L)][1] = p /\ ~Complete(r, L[Len(L)])

SettingsRead(r) ==
  InOrder(r) => \A p \in Known(r) : Settings[r][p] # "rows" =>
    Right(file.lines, r, p, NLines, setting[r][p], Initial(r))

RowsRead(r) ==
  r = "hitMap" => \A p \in Known(r) : Settings[r][p] = "rows" =>
    CutOff(file.lines, r, p) \/ Right(file.lines, r, p, NLines, rows, NoRows)

SoundRead(r) == \A n \in 1..NLines : Sound(r, n)

ReadWell(r) == SettingsRead(r) /\ RowsRead(r) /\ SoundRead(r)

Untouched(r) ==
  /\ \A p \in Known(r) : setting[r][p] = Initial(r)
  /\ r = "hitMap" => rows = NoRows

(* The readers that have read, and those that have not.                    *)
Others ==
  \A r \in Reader : (stage # "closed" => r # reader) =>
    IF Earlier(r) THEN ReadWell(r) ELSE Untouched(r)

AtHead(r) == \E d \in 0..NLines : Begun(d) /\ UpToLine(r, d)

AtName(r) ==
  \/ \E d \in 1..NLines : /\ pos = End(d - 1) + 2 /\ parameterName = file.lines[d][1]
                          /\ UpToLine(r, d - 1)
  \/ parameterName \notin Known(r) /\ AtHead(r)

InRows(d) ==
  /\ pos = End(d - 1) + 2 + NColumn * row /\ 1 + NColumn * row <= Len(file.lines[d])
  /\ \A i \in 2..1 + NColumn * row : file.lines[d][i] \in Number
  /\ \A i \in 0..row - 1 : rows[i] = RowsAt(file.lines, d)[i]

AtRows(r) ==
  \E d \in 1..NLines :
    /\ KindOf(r, d) = "rows" /\ InRows(d)
    /\ SettingsUpTo(r, d - 1) /\ SoundUpTo(r, d - 1) /\ BaseUpTo(r, d - 1)

(* While the stream is good, the reader is in step with the lines.  A read *)
(* that failed elsewhere than at the end is followed by nothing.           *)
Progress ==
  stage # "closed" =>
    IF fail THEN eof => ReadWell(reader)
    ELSE /\ eof => pos > Len(words)
         /\ stage = "head" => AtHead(reader)
         /\ stage = "name" => AtName(reader)
         /\ stage = "rows" => AtRows(reader)

ParInv == ParTypeOK /\ (stage # "closed" => turn \in Turns) /\ Others /\ Progress

LEMMA StreamIs ==
  ASSUME file \in File
  PROVE  /\ NLines \in Nat /\ DOMAIN file.lines = 1..NLines
         /\ \A n \in 1..NLines : /\ Len(file.lines[n]) \in Nat /\ Len(file.lines[n]) >= 1
                                 /\ file.lines[n][1] \notin Number
                                 /\ \A i \in 2..Len(file.lines[n]) :
                                      \A r \in Reader : file.lines[n][i] \notin Known(r)
         /\ \A n \in 0..NLines : End(n) \in Nat
         /\ End(0) = 0 /\ \A n \in 1..NLines : End(n) = End(n - 1) + Len(file.lines[n])
         /\ \A n \in 0..NLines : \A k \in 0..(n - 1) : End(k) < End(n)
         /\ words \in Seq(STRING) /\ Len(words) = End(NLines)
         /\ \A n \in 1..NLines : \A i \in 1..Len(file.lines[n]) : words[End(n - 1) + i] = file.lines[n][i]
<1>1. /\ NLines \in Nat /\ DOMAIN file.lines = 1..NLines
      /\ \A n \in 1..NLines : /\ Len(file.lines[n]) \in Nat /\ Len(file.lines[n]) >= 1
                              /\ file.lines[n][1] \notin Number
                              /\ \A i \in 2..Len(file.lines[n]) :
                                   \A r \in Reader : file.lines[n][i] \notin Known(r)
  BY FileIs DEF NLines
<1>2. /\ IsEnds(Ends(file.lines), file.lines) /\ words \in Seq(STRING)
      /\ Len(words) = Ends(file.lines)[Len(file.lines)]
      /\ \A n \in 1..Len(file.lines) : \A i \in 1..Len(file.lines[n]) :
           words[Ends(file.lines)[n - 1] + i] = file.lines[n][i]
      /\ \A n \in 0..Len(file.lines) : \A k \in 0..(n - 1) : Ends(file.lines)[k] < Ends(file.lines)[n]
  BY WordsAre DEF words
<1>3. /\ Ends(file.lines) \in [0..NLines -> Nat] /\ Ends(file.lines)[0] = 0
      /\ \A n \in 1..NLines : Ends(file.lines)[n] = Ends(file.lines)[n - 1] + Len(file.lines[n])
  BY <1>2 DEF IsEnds, NLines
<1>4. \A n \in 0..NLines : End(n) \in Nat
  BY <1>3 DEF End
<1>5. End(0) = 0 /\ \A n \in 1..NLines : End(n) = End(n - 1) + Len(file.lines[n])
  BY <1>3 DEF End
<1>6. \A n \in 0..NLines : \A k \in 0..(n - 1) : End(k) < End(n)
  <2>1. \A n \in 0..Len(file.lines) : \A k \in 0..(n - 1) : Ends(file.lines)[k] < Ends(file.lines)[n]
    BY <1>2
  <2> QED
    BY <2>1 DEF End, NLines
<1>7. words \in Seq(STRING) /\ Len(words) = End(NLines)
  BY <1>2 DEF End, NLines
<1>8. \A n \in 1..NLines : \A i \in 1..Len(file.lines[n]) : words[End(n - 1) + i] = file.lines[n][i]
  BY <1>2 DEF End, NLines
<1> QED
  BY <1>1, <1>4, <1>5, <1>6, <1>7, <1>8

(* A line that is not the last is followed by a word that is no number.    *)
LEMMA NextLine ==
  ASSUME file \in File, NEW d \in 0..NLines, d # NLines
  PROVE  /\ d + 1 \in 1..NLines /\ (d + 1) - 1 = d /\ End(d) + 1 <= Len(words)
         /\ words[End(d) + 1] = file.lines[d + 1][1] /\ words[End(d) + 1] \notin Number
<1>1. NLines \in Nat /\ Len(words) = End(NLines)
  BY StreamIs
<1>2. d + 1 \in 1..NLines /\ (d + 1) - 1 = d
  BY <1>1
<1>3. Len(file.lines[d + 1]) \in Nat /\ Len(file.lines[d + 1]) >= 1 /\ file.lines[d + 1][1] \notin Number
  BY <1>2, StreamIs
<1>4. 1 \in 1..Len(file.lines[d + 1])
  BY <1>3
<1>5. words[End(d) + 1] = file.lines[d + 1][1]
  <2>1. words[End((d + 1) - 1) + 1] = file.lines[d + 1][1]
    BY <1>2, <1>4, StreamIs
  <2> QED
    BY <1>2, <2>1
<1>6. End(d) + 1 <= Len(words)
  <2>1. NLines \in 0..NLines /\ d \in 0..(NLines - 1)
    BY <1>1
  <2>2. End(d) < End(NLines)
    BY <2>1, StreamIs
  <2>3. End(d) \in Nat /\ End(NLines) \in Nat
    BY <2>1, StreamIs
  <2> QED
    BY <1>1, <2>2, <2>3
<1> QED
  BY <1>2, <1>3, <1>5, <1>6

(* Nothing is left to be read: the line is the last one.                   *)
LEMMA LastLine ==
  ASSUME file \in File, NEW d \in 0..NLines, pos \in Nat, pos <= End(d) + 1, pos > Len(words)
  PROVE  d = NLines /\ pos = End(NLines) + 1
<1>1. SUFFICES ASSUME d # NLines PROVE FALSE
  <2>1. End(NLines) \in Nat /\ Len(words) = End(NLines)
    BY StreamIs
  <2> QED
    BY <2>1
<1>2. End(d) + 1 <= Len(words) /\ Len(words) = End(NLines)
  BY <1>1, NextLine, StreamIs
<1>3. End(d) \in Nat /\ End(NLines) \in Nat
  BY StreamIs
<1>4. NLines \in Nat /\ NLines \in 0..NLines /\ d \in 0..(NLines - 1)
  BY <1>1, StreamIs
<1>5. End(d) < End(NLines)
  BY <1>4, StreamIs
<1>6. pos = End(d) + 1
  BY <1>2, <1>3
<1> QED
  BY <1>2, <1>3, <1>6

LEMMA OrderIs ==
  ASSUME process \in Process
  PROVE  /\ Turns = 1..Len(Order[process]) /\ Len(Order[process]) \in Nat
         /\ turn \in Turns => reader \in Reader
         /\ \A t \in Turns : Order[process][t] \in Reader
         /\ \A t \in Turns : Order[process][t] = "hitMap" => t = 1
<1>1. process = "node" \/ process = "server"
  BY DEF Process
<1>2. CASE process = "node"
  BY <1>2 DEF Order, Turns, reader, Reader
<1>3. CASE process = "server"
  BY <1>3 DEF Order, Turns, reader, Reader
<1> QED
  BY <1>1, <1>2, <1>3

LEMMA ParSizes ==
  /\ Dec \in [Number -> Nat] /\ Hex \in [Number -> Nat] /\ NRow \in Nat \ {0} /\ NColumn \in Nat \ {0}
BY ParametersAssumption

(* The numbers that are read of a row.                                     *)
LEMMA ReadableIs ==
  ASSUME file \in File, pos \in Nat, pos >= 1
  PROVE  /\ Readable \in 0..NColumn
         /\ ~Good => Readable = 0
         /\ Good => /\ pos + Readable - 1 <= Len(words)
                    /\ \A i \in 0..Readable - 1 : words[pos + i] \in Number
                    /\ Readable < NColumn => (pos + Readable > Len(words) \/ words[pos + Readable] \notin Number)
<1>1. NColumn \in Nat /\ Len(words) \in Nat
  BY ParSizes, StreamIs, LenProperties
<1>2. CASE ~Good
  BY <1>1, <1>2 DEF Readable
<1>3. CASE Good
  <2> DEFINE Q(n) == /\ pos + n - 1 <= Len(words) /\ \A i \in 0..n-1 : words[pos+i] \in Number
                     /\ n < NColumn => (pos + n > Len(words) \/ words[pos+n] \notin Number)
             S == {n \in 0..NColumn : n = NColumn \/ pos + n > Len(words) \/ words[pos + n] \notin Number}
  <2>1. S \in SUBSET Nat /\ NColumn \in S
    BY <1>1
  <2>2. PICK n \in S : \A k \in S : n <= k
    BY <2>1, LeastNumber
  <2>3. n \in 0..NColumn /\ (n < NColumn => (pos + n > Len(words) \/ words[pos+n] \notin Number))
    BY <1>1
  <2>4. ASSUME NEW i \in 0..n-1 PROVE pos + i <= Len(words) /\ words[pos + i] \in Number
    <3>1. i \in 0..NColumn /\ i \in Nat /\ ~(n <= i) /\ i # NColumn
      BY <1>1, <2>3
    <3>2. i \notin S
      BY <2>2, <3>1
    <3>3. ~(pos + i > Len(words)) /\ words[pos + i] \in Number
      BY <3>1, <3>2
    <3> QED
      BY <1>1, <3>1, <3>3
  <2>5. pos + n - 1 <= Len(words)
    <3>1. CASE n = 0
      BY <1>1, <1>3, <3>1 DEF Good
    <3>2. CASE n # 0
      <4>1. n - 1 \in 0..n-1 /\ pos + (n - 1) = pos + n - 1
        BY <2>3, <3>2
      <4> QED
        BY <2>4, <4>1
    <3> QED
      BY <3>1, <3>2
  <2>6. Q(n)
    BY <2>3, <2>4, <2>5
  <2>7. Readable = CHOOSE m \in 0..NColumn : Q(m)
    BY <1>3 DEF Readable
  <2> HIDE DEF Q
  <2>8. Readable \in 0..NColumn /\ Q(Readable)
    BY <2>3, <2>6, <2>7
  <2> QED
    BY <1>3, <2>8 DEF Q
<1> QED
  BY <1>2, <1>3

------------------------------------------------------------------------------
(* Types.                                                                  *)
LEMMA ParInitTypeOK == ParInit => ParTypeOK
<1> SUFFICES ASSUME ParInit PROVE ParTypeOK
  OBVIOUS
<1>1. file \in File /\ process \in Process
  BY DEF ParInit
<1>2. Len(words) \in Nat /\ Len(Order[process]) \in Nat
  BY <1>1, StreamIs, OrderIs, LenProperties
<1>3. DOMAIN setting = Reader /\ \A r \in Reader : setting[r] \in [Known(r) -> {Initial(r)} \cup Nat]
  BY DEF ParInit
<1>4. rows \in [0..NRow-1 -> [1..NColumn -> Nat]]
  BY DEF ParInit, NoRows
<1>5. row \in 0..NRow
  <2>1. 0 \in 0..NRow
    BY ParSizes
  <2>2. row = 0
    BY DEF ParInit
  <2> QED
    BY <2>1, <2>2
<1>6. turn \in 1..Len(Order[process])+1 /\ pos \in 1..Len(words)+1
  <2>1. \A n \in Nat : 1 \in 1..n+1
    OBVIOUS
  <2>2. turn = 1 /\ pos = 1
    BY DEF ParInit
  <2> QED
    BY <1>2, <2>1, <2>2
<1>7. /\ stage \in {"closed", "head", "name", "rows"} /\ base \in {10, 16} /\ fail \in BOOLEAN
      /\ eof \in BOOLEAN /\ use8rowSpaceChargeMethod \in BOOLEAN
  BY DEF ParInit
<1>8. parameterName \in {""} \cup {words[i] : i \in 1..Len(words)}
  BY DEF ParInit
<1> QED
  BY <1>1, <1>3, <1>4, <1>5, <1>6, <1>7, <1>8 DEF ParTypeOK

(* What a step that reads nothing leaves as it is.                         *)
LEMMA OtherStepsTypeOK ==
  ParTypeOK /\ (stage # "closed" => turn \in Turns)
    /\ (Open \/ NotFound \/ PassOver \/ StartRows \/ EndRows \/ Close) => ParTypeOK'
<1> SUFFICES ASSUME ParTypeOK, stage # "closed" => turn \in Turns,
                    Open \/ NotFound \/ PassOver \/ StartRows \/ EndRows \/ Close
             PROVE  ParTypeOK'
  OBVIOUS
<1>1. /\ file \in File /\ process \in Process /\ file' = file /\ process' = process
      /\ setting' = setting /\ rows' = rows
  BY DEF ParTypeOK, Open, NotFound, PassOver, StartRows, EndRows, Close
<1>2. words' = words /\ Len(words) \in Nat /\ 0 \in 0..NRow
  BY <1>1, StreamIs, LenProperties, ParSizes DEF words
<1>3. turn' \in 1..Len(Order[process])+1
  <2>1. turn \in Turns => turn + 1 \in 1..Len(Order[process])+1
    BY <1>1, OrderIs
  <2> QED
    BY <2>1 DEF ParTypeOK, Open, NotFound, PassOver, StartRows, EndRows, Close
<1>4. /\ stage' \in {"closed", "head", "name", "rows"}
      /\ parameterName' \in {""} \cup {words[i] : i \in 1..Len(words)} /\ row' \in 0..NRow
      /\ use8rowSpaceChargeMethod' \in BOOLEAN
  <2>1. /\ stage \in {"closed", "head", "name", "rows"}
        /\ parameterName \in {""} \cup {words[i] : i \in 1..Len(words)} /\ row \in 0..NRow
        /\ use8rowSpaceChargeMethod \in BOOLEAN
    BY DEF ParTypeOK
  <2>2. stage' \in {"closed", "head", "name", "rows"}
    BY <2>1 DEF Open, NotFound, PassOver, StartRows, EndRows, Close
  <2>3. parameterName' \in {""} \cup {words[i] : i \in 1..Len(words)}
    <3>1. parameterName' = "" \/ parameterName' = parameterName
      BY DEF Open, NotFound, PassOver, StartRows, EndRows, Close
    <3> QED
      BY <2>1, <3>1
  <2>4. row' = row \/ row' = 0
    BY DEF Open, NotFound, PassOver, StartRows, EndRows, Close
  <2>5. use8rowSpaceChargeMethod' \in BOOLEAN
    BY <2>1 DEF Open, NotFound, PassOver, StartRows, EndRows, Close
  <2> QED
    BY <1>2, <2>1, <2>2, <2>3, <2>4, <2>5
<1>5. pos' \in 1..Len(words)+1 /\ base' \in {10, 16} /\ fail' \in BOOLEAN /\ eof' \in BOOLEAN
  <2>1. pos \in 1..Len(words)+1 /\ base \in {10, 16} /\ fail \in BOOLEAN /\ eof \in BOOLEAN
    BY DEF ParTypeOK
  <2>2. CASE Open
    <3>1. 1 \in 1..Len(words)+1
      BY <1>2
    <3> QED
      BY <2>2, <3>1 DEF Open
  <2>3. CASE NotFound \/ PassOver \/ StartRows \/ EndRows \/ Close
    <3>1. pos' = pos /\ base' = base /\ fail' = fail /\ eof' = eof
      BY <2>3 DEF NotFound, PassOver, StartRows, EndRows, Close, stream
    <3> QED
      BY <2>1, <3>1
  <2> QED
    BY <2>2, <2>3
<1> QED
  BY <1>1, <1>2, <1>3, <1>4, <1>5 DEF ParTypeOK

LEMMA TakeIs ==
  ASSUME ParTypeOK, NEW n \in Nat, pos + n - 1 <= Len(words), Take(n)
  PROVE  pos' \in 1..Len(words)+1 /\ fail' = fail /\ eof' \in BOOLEAN
         /\ pos' = pos + n /\ (eof' => pos' > Len(words))
<1>1. Len(words) \in Nat /\ pos \in Nat /\ pos >= 1 /\ file.newline \in BOOLEAN
  <2>1. file \in File /\ pos \in 1..Len(words)+1
    BY DEF ParTypeOK
  <2>2. Len(words) \in Nat /\ file.newline \in BOOLEAN
    BY <2>1, StreamIs, FileIs, LenProperties
  <2> QED
    BY <2>1, <2>2
<1>2. pos' = pos + n /\ fail' = fail /\ eof' = (pos + n > Len(words) /\ ~file.newline)
  BY DEF Take
<1>3. pos' \in 1..Len(words)+1
  <2> HIDE DEF Take
  <2> QED
    BY <1>1, <1>2
<1> QED
  BY <1>1, <1>2, <1>3

LEMMA ReadStepsTypeOK ==
  ParTypeOK /\ turn \in Turns /\ (ReadName \/ ReadValue) => ParTypeOK'
<1> SUFFICES ASSUME ParTypeOK, turn \in Turns, ReadName \/ ReadValue PROVE ParTypeOK'
  OBVIOUS
<1>1. /\ file \in File /\ process \in Process /\ file' = file /\ process' = process /\ turn' = turn
      /\ rows' = rows /\ row' = row /\ use8rowSpaceChargeMethod' = use8rowSpaceChargeMethod
      /\ stage' \in {"closed", "head", "name", "rows"}
  BY DEF ParTypeOK, ReadName, ReadValue
<1>2. words' = words /\ Len(words) \in Nat /\ words \in Seq(STRING) /\ pos \in Nat /\ pos >= 1
      /\ pos \in 1..Len(words)+1
  <2>1. words' = words
    BY <1>1 DEF words
  <2>2. words \in Seq(STRING) /\ Len(words) \in Nat
    BY <1>1, StreamIs, LenProperties
  <2>3. pos \in 1..Len(words)+1
    BY DEF ParTypeOK
  <2> QED
    BY <2>1, <2>2, <2>3
<1>3. Good => pos \in 1..Len(words) /\ words[pos] \in STRING /\ pos + 1 - 1 <= Len(words)
  <2>1. Good => pos \in 1..Len(words) /\ pos + 1 - 1 <= Len(words)
    BY <1>2 DEF Good
  <2> QED
    BY <1>2, <2>1, ElementOfSeq
<1>4. pos' \in 1..Len(words)+1 /\ fail' \in BOOLEAN /\ eof' \in BOOLEAN
  <2>1. (Good /\ Take(1)) \/ TakeNone
    BY DEF ReadName, ReadValue
  <2>2. CASE Good /\ Take(1)
    <3>1. pos' \in 1..Len(words)+1 /\ fail' = fail /\ eof' \in BOOLEAN
      BY <1>3, <2>2, TakeIs
    <3> QED
      BY <3>1 DEF ParTypeOK
  <2>3. CASE TakeNone
    BY <1>2, <2>3 DEF TakeNone, ParTypeOK
  <2> QED
    BY <2>1, <2>2, <2>3
<1>5. parameterName' \in {""} \cup {words[i] : i \in 1..Len(words)} /\ base' \in {10, 16}
  <2>1. parameterName \in {""} \cup {words[i] : i \in 1..Len(words)} /\ base \in {10, 16}
    BY DEF ParTypeOK
  <2>2. CASE ReadName
    BY <1>3, <2>1, <2>2 DEF ReadName
  <2>3. CASE ReadValue
    BY <2>1, <2>3 DEF ReadValue, BaseFor
  <2> QED
    BY <2>2, <2>3
<1>6. DOMAIN setting' = Reader /\ \A r \in Reader : setting'[r] \in [Known(r) -> {Initial(r)} \cup Nat]
  <2>1. DOMAIN setting = Reader /\ \A r \in Reader : setting[r] \in [Known(r) -> {Initial(r)} \cup Nat]
    BY DEF ParTypeOK
  <2>2. CASE setting' = setting
    BY <2>1, <2>2
  <2>3. CASE setting' # setting
    <3> DEFINE v == IF words[pos] \in Number THEN ValueOf(words[pos], Kind) ELSE 0
    <3>1. Good /\ setting' = [setting EXCEPT ![reader][parameterName] = v] /\ reader \in Reader
          /\ parameterName \in Known(reader)
      BY <1>1, <2>3, OrderIs DEF ReadName, ReadValue
    <3>2. v \in Nat
      BY ParSizes DEF ValueOf
    <3> HIDE DEF v
    <3>3. ASSUME NEW r \in Reader PROVE setting'[r] \in [Known(r) -> {Initial(r)} \cup Nat]
      <4>1. CASE r = reader
        <5>1. setting'[r] = [setting[r] EXCEPT ![parameterName] = v]
          BY <2>1, <3>1, <4>1
        <5> QED
          BY <2>1, <3>2, <5>1
      <4>2. CASE r # reader
        BY <2>1, <3>1, <4>2
      <4> QED
        BY <4>1, <4>2
    <3> QED
      BY <2>1, <3>1, <3>3
  <2> QED
    BY <2>2, <2>3
<1> QED
  BY <1>1, <1>2, <1>4, <1>5, <1>6 DEF ParTypeOK

LEMMA ReadRowTypeOK == ParTypeOK /\ ReadRow => ParTypeOK'
<1> SUFFICES ASSUME ParTypeOK, ReadRow PROVE ParTypeOK'
  OBVIOUS
<1> DEFINE n == Readable
<1>1. /\ file \in File /\ process \in Process /\ file' = file /\ process' = process /\ turn' = turn
      /\ UNCHANGED <<stage, base, parameterName, setting, use8rowSpaceChargeMethod>>
      /\ row' = row + 1 /\ row < NRow /\ row \in Nat
  <2>1. NRow \in Nat /\ row \in 0..NRow /\ file \in File /\ process \in Process
    BY ParSizes DEF ParTypeOK
  <2>2. /\ file' = file /\ process' = process /\ turn' = turn
        /\ UNCHANGED <<stage, base, parameterName, setting, use8rowSpaceChargeMethod>>
        /\ row' = row + 1 /\ row < NRow
    BY DEF ReadRow, MoreRows
  <2> QED
    BY <2>1, <2>2
<1>2. words' = words /\ Len(words) \in Nat /\ words \in Seq(STRING) /\ pos \in Nat /\ pos >= 1
      /\ pos \in 1..Len(words)+1
  <2>1. words' = words
    BY <1>1 DEF words
  <2>2. words \in Seq(STRING) /\ Len(words) \in Nat
    BY <1>1, StreamIs, LenProperties
  <2>3. pos \in 1..Len(words)+1
    BY DEF ParTypeOK
  <2> QED
    BY <2>1, <2>2, <2>3
<1>3. /\ n \in 0..NColumn /\ (~Good => n = 0)
      /\ Good => pos + n - 1 <= Len(words) /\ \A i \in 0..n - 1 : words[pos + i] \in Number
  BY <1>1, <1>2, ReadableIs
<1>4. pos + n - 1 <= Len(words)
  BY <1>2, <1>3
<1>5. row' \in 0..NRow
  BY <1>1, ParSizes
<1>6. pos' \in 1..Len(words)+1 /\ fail' \in BOOLEAN /\ eof' \in BOOLEAN
  <2>1. CASE n = NColumn
    <3>1. Take(n) /\ n \in Nat
      BY <2>1, ParSizes DEF ReadRow
    <3>2. pos' \in 1..Len(words)+1 /\ fail' = fail /\ eof' \in BOOLEAN
      BY <1>4, <3>1, TakeIs
    <3> QED
      BY <3>2 DEF ParTypeOK
  <2>2. CASE n # NColumn
    <3>1. pos' = pos + n /\ fail' = TRUE /\ eof' = (eof \/ (~fail /\ pos + n > Len(words)))
      BY <2>2 DEF ReadRow
    <3> HIDE DEF n
    <3> QED
      <4>1. eof \in BOOLEAN /\ fail \in BOOLEAN
        BY DEF ParTypeOK
      <4>2. n \in Nat
        BY <1>3, ParSizes
      <4>3. pos' \in 1..Len(words)+1
        BY <1>2, <1>4, <3>1, <4>2
      <4> QED
        BY <3>1, <4>1, <4>3
  <2> QED
    BY <2>1, <2>2
<1>7. rows' \in [0..NRow-1 -> [1..NColumn -> Nat]]
  <2>1. rows \in [0..NRow-1 -> [1..NColumn -> Nat]] /\ row \in 0..NRow-1
    <3>1. rows \in [0..NRow-1 -> [1..NColumn -> Nat]]
      BY DEF ParTypeOK
    <3> QED
      BY <1>1, <3>1, ParSizes
  <2> DEFINE v == [c \in 1..NColumn |->
                     IF c <= n THEN Dec[words[pos+c-1]]
                     ELSE IF c = n+1 /\ Good /\ pos+n <= Len(words) THEN 0 ELSE rows[row][c]]
  <2>2. rows' = [rows EXCEPT ![row] = v]
    BY <2>1 DEF ReadRow
  <2> HIDE DEF n
  <2>3. ASSUME NEW c \in 1..NColumn, c <= n PROVE Dec[words[pos+c-1]] \in Nat
    <3>1. c - 1 \in 0..n-1 /\ pos + (c - 1) = pos+c-1 /\ Good
      BY <1>2, <1>3, <2>3
    <3>2. words[pos+c-1] \in Number
      BY <1>3, <3>1
    <3> QED
      BY <3>2, ParSizes
  <2>4. v \in [1..NColumn -> Nat]
    BY <2>1, <2>3
  <2> HIDE DEF v
  <2> QED
    BY <2>1, <2>2, <2>4
<1> QED
  BY <1>1, <1>2, <1>5, <1>6, <1>7 DEF ParTypeOK

------------------------------------------------------------------------------
(* What depends on the file and the turn alone stays.                      *)
LEMMA SameFile ==
  ASSUME file' = file, process' = process
  PROVE  /\ NLines' = NLines /\ words' = words /\ Turns' = Turns
         /\ \A n : End(n)' = End(n)
         /\ \A r : InOrder(r)' <=> InOrder(r)
         /\ \A r, n : KindOf(r, n)' = KindOf(r, n)
         /\ \A r, n : Sound(r, n)' <=> Sound(r, n)
         /\ \A r, n : SoundUpTo(r, n)' <=> SoundUpTo(r, n)
         /\ \A r : SoundRead(r)' <=> SoundRead(r)
<1>1. NLines' = NLines /\ words' = words /\ Turns' = Turns
  BY DEF NLines, words, Turns
<1>2. \A n : End(n)' = End(n)
  BY DEF End
<1>3. \A r, n : KindOf(r, n)' = KindOf(r, n)
  BY DEF KindOf
<1>4. \A r : InOrder(r)' <=> InOrder(r)
  BY <1>3 DEF InOrder
<1>5. \A r, n : Sound(r, n)' <=> Sound(r, n)
  BY DEF Sound
<1>6. \A r, n : SoundUpTo(r, n)' <=> SoundUpTo(r, n)
  BY DEF SoundUpTo
<1>7. \A r : SoundRead(r)' <=> SoundRead(r)
  BY <1>1, <1>5 DEF SoundRead
<1> QED
  BY <1>1, <1>2, <1>3, <1>4, <1>5, <1>6, <1>7

LEMMA SameTurn ==
  ASSUME file' = file, process' = process, turn' = turn
  PROVE  /\ reader' = reader
         /\ \A r : Earlier(r)' <=> Earlier(r)
         /\ \A r, p, start : AtStart(r, p, start)' <=> AtStart(r, p, start)
<1>1. reader' = reader
  BY DEF reader
<1>2. \A r : Earlier(r)' <=> Earlier(r)
  BY DEF Earlier
<1>3. \A r, p, start : AtStart(r, p, start)' <=> AtStart(r, p, start)
  BY <1>2 DEF AtStart, NLines
<1> QED
  BY <1>1, <1>2, <1>3

LEMMA KeepWell ==
  ASSUME file' = file, process' = process, NEW r, setting'[r] = setting[r],
         r = "hitMap" => rows' = rows
  PROVE  ReadWell(r) => ReadWell(r)'
<1>1. NLines' = NLines /\ (InOrder(r)' <=> InOrder(r)) /\ (SoundRead(r)' <=> SoundRead(r))
  BY SameFile
<1>2. SettingsRead(r) => SettingsRead(r)'
  BY <1>1 DEF SettingsRead
<1>3. RowsRead(r) => RowsRead(r)'
  BY <1>1 DEF RowsRead
<1> QED
  BY <1>1, <1>2, <1>3 DEF ReadWell

LEMMA KeepUntouched ==
  ASSUME NEW r, setting'[r] = setting[r], r = "hitMap" => rows' = rows
  PROVE  Untouched(r) => Untouched(r)'
BY DEF Untouched

(* The other readers while one reads.                                      *)
LEMMA OthersKept ==
  ASSUME Others, process \in Process, stage' # "closed",
         file' = file, process' = process, turn' = turn,
         \A r \in Reader : r # reader => setting'[r] = setting[r],
         rows' = rows \/ reader = "hitMap"
  PROVE  Others'
<1>1. reader' = reader /\ \A r : Earlier(r)' <=> Earlier(r)
  BY SameTurn
<1>2. ASSUME NEW r \in Reader, r # reader
      PROVE  IF Earlier(r)' THEN ReadWell(r)' ELSE Untouched(r)'
  <2>1. setting'[r] = setting[r] /\ (r = "hitMap" => rows' = rows)
    BY <1>2
  <2>2. IF Earlier(r) THEN ReadWell(r) ELSE Untouched(r)
    BY <1>2 DEF Others
  <2>3. ReadWell(r) => ReadWell(r)'
    BY <2>1, KeepWell
  <2>4. Untouched(r) => Untouched(r)'
    BY <2>1, KeepUntouched
  <2> QED
    BY <1>1, <2>2, <2>3, <2>4
<1> QED
  BY <1>1, <1>2 DEF Others

(* What a step keeps that changes no setting.                              *)
LEMMA KeepUpTo ==
  ASSUME file' = file, process' = process, turn' = turn, setting' = setting, NEW r, NEW d
  PROVE  /\ SettingsUpTo(r, d) => SettingsUpTo(r, d)'
         /\ SoundUpTo(r, d) => SoundUpTo(r, d)'
         /\ rows' = rows /\ RowsUpTo(r, d) => RowsUpTo(r, d)'
         /\ base' = base /\ BaseUpTo(r, d) => BaseUpTo(r, d)'
<1>1. /\ InOrder(r)' <=> InOrder(r)
      /\ \A n : KindOf(r, n)' = KindOf(r, n)
      /\ SoundUpTo(r, d)' <=> SoundUpTo(r, d)
      /\ \A p, start : AtStart(r, p, start)' <=> AtStart(r, p, start)
  BY SameFile, SameTurn
<1>2. SettingsUpTo(r, d) => SettingsUpTo(r, d)'
  BY <1>1 DEF SettingsUpTo
<1>3. rows' = rows /\ RowsUpTo(r, d) => RowsUpTo(r, d)'
  BY DEF RowsUpTo
<1>4. base' = base /\ BaseUpTo(r, d) => BaseUpTo(r, d)'
  BY <1>1 DEF BaseUpTo
<1> QED
  BY <1>1, <1>2, <1>3, <1>4

LEMMA KeepUpToLine ==
  ASSUME file' = file, process' = process, turn' = turn, setting' = setting, rows' = rows,
         base' = base, NEW r, NEW d, UpToLine(r, d)
  PROVE  UpToLine(r, d)'
BY KeepUpTo DEF UpToLine

------------------------------------------------------------------------------
(* The end of the file.                                                    *)
LEMMA FromStart ==
  ASSUME NEW r, NEW p \in Known(r), NEW start, AtStart(r, p, start),
         Right(file.lines, r, p, NLines, setting[r][p], start)
  PROVE  Right(file.lines, r, p, NLines, setting[r][p], Initial(r))
<1>1. CASE Earlier(r)
  <2>1. Right(file.lines, r, p, NLines, start, Initial(r))
    BY <1>1 DEF AtStart
  <2> QED
    BY <2>1, RightAgain
<1>2. CASE ~Earlier(r)
  BY <1>2 DEF AtStart
<1> QED
  BY <1>1, <1>2

LEMMA WellAtEnd ==
  ASSUME NEW r, UpToLine(r, NLines)
  PROVE  ReadWell(r)
<1>1. SettingsRead(r)
  <2>1. SettingsUpTo(r, NLines)
    BY DEF UpToLine
  <2>2. ASSUME InOrder(r), NEW p \in Known(r), Settings[r][p] # "rows"
        PROVE  Right(file.lines, r, p, NLines, setting[r][p], Initial(r))
    <3>1. PICK start : AtStart(r, p, start) /\ Right(file.lines, r, p, NLines, setting[r][p], start)
      BY <2>1, <2>2 DEF SettingsUpTo
    <3> QED
      BY <3>1, FromStart
  <2> QED
    BY <2>2 DEF SettingsRead
<1>2. RowsRead(r)
  BY DEF UpToLine, RowsUpTo, RowsRead
<1>3. SoundRead(r)
  BY DEF UpToLine, SoundUpTo, SoundRead, Sound
<1> QED
  BY <1>1, <1>2, <1>3 DEF ReadWell

(* The last line breaks off before its numbers are complete.               *)
LEMMA WellCut ==
  ASSUME file \in File, NEW r \in Reader, NEW d \in 1..NLines, d = NLines,
         SettingsUpTo(r, d - 1), SoundUpTo(r, d - 1), ~Complete(r, file.lines[d]),
         \A i \in 2..Len(file.lines[d]) : file.lines[d][i] \in Number
  PROVE  /\ SettingsRead(r) /\ SoundRead(r)
         /\ RowsUpTo(r, d - 1) => RowsRead(r)
         /\ KindOf(r, d) = "rows" => \A p \in Known(r) : Settings[r][p] = "rows" => CutOff(file.lines, r, p)
<1>1. NLines \in Nat /\ NLines = Len(file.lines) /\ d \in Nat \ {0} /\ file.lines # <<>>
  <2>1. NLines \in Nat /\ NLines = Len(file.lines)
    BY StreamIs DEF NLines
  <2>2. Len(<<>>) = 0
    OBVIOUS
  <2> QED
    BY <2>1, <2>2
<1>2. \A p : ~Gives(file.lines, r, p, d)
  BY DEF Gives
<1>3. \A p, v, start : Right(file.lines, r, p, d - 1, v, start) => Right(file.lines, r, p, d, v, start)
  BY <1>1, <1>2, RightSkip
<1>4. SettingsRead(r)
  <2>1. ASSUME InOrder(r), NEW p \in Known(r), Settings[r][p] # "rows"
        PROVE  Right(file.lines, r, p, NLines, setting[r][p], Initial(r))
    <3>1. PICK start : AtStart(r, p, start) /\ Right(file.lines, r, p, d - 1, setting[r][p], start)
      BY <2>1 DEF SettingsUpTo
    <3>2. Right(file.lines, r, p, NLines, setting[r][p], start)
      BY <1>3, <3>1
    <3> QED
      BY <3>1, <3>2, FromStart
  <2> QED
    BY <2>1 DEF SettingsRead
<1>5. SoundRead(r)
  <2>1. ASSUME NEW n \in 1..NLines PROVE Sound(r, n)
    <3>1. CASE n = d
      BY <1>1, <3>1 DEF Sound
    <3>2. CASE n # d
      <4>1. n \in 1..(d - 1)
        BY <1>1, <3>2
      <4> QED
        BY <4>1 DEF SoundUpTo, Sound
    <3> QED
      BY <3>1, <3>2
  <2> QED
    BY <2>1 DEF SoundRead
<1>6. RowsUpTo(r, d - 1) => RowsRead(r)
  BY <1>3 DEF RowsUpTo, RowsRead
<1>7. ASSUME KindOf(r, d) = "rows", NEW p \in Known(r), Settings[r][p] = "rows"
      PROVE  CutOff(file.lines, r, p)
  <2>1. file.lines[d][1] \in Known(r) /\ Settings[r][file.lines[d][1]] = "rows"
    BY <1>7 DEF KindOf
  <2>2. file.lines[d][1] = p
    BY <1>7, <2>1, KindIs
  <2> QED
    BY <1>1, <2>2 DEF CutOff
<1> QED
  BY <1>4, <1>5, <1>6, <1>7

(* A line that sets nothing.                                               *)
LEMMA LinePassed ==
  ASSUME file \in File, NEW r \in Reader, NEW d \in 1..NLines, UpToLine(r, d - 1),
         file.lines[d][1] \notin Known(r)
  PROVE  UpToLine(r, d)
<1>1. NLines \in Nat /\ d \in Nat \ {0} /\ \A n \in 1..d : n \in 1..(d - 1) \/ n = d
  BY StreamIs
<1>2. \A p \in Known(r) : ~Gives(file.lines, r, p, d)
  BY DEF Gives
<1>3. \A p \in Known(r) : \A v, start :
        Right(file.lines, r, p, d - 1, v, start) => Right(file.lines, r, p, d, v, start)
  BY <1>1, <1>2, RightSkip
<1>4. SettingsUpTo(r, d)
  BY <1>3 DEF UpToLine, SettingsUpTo
<1>5. RowsUpTo(r, d)
  BY <1>3 DEF UpToLine, RowsUpTo
<1>6. SoundUpTo(r, d)
  BY <1>1 DEF UpToLine, SoundUpTo
<1>7. BaseUpTo(r, d)
  <2>1. SUFFICES ASSUME base = 16
                 PROVE \E m \in 1..d : KindOf(r, m) = "hex" /\ \A k \in m..d : KindOf(r, k) # "dec"
    BY DEF BaseUpTo
  <2>2. PICK m \in 1..(d - 1) : KindOf(r, m) = "hex" /\ \A k \in m..(d - 1) : KindOf(r, k) # "dec"
    BY <2>1 DEF UpToLine, BaseUpTo
  <2>3. KindOf(r, d) # "dec"
    BY DEF KindOf
  <2>4. m \in 1..d /\ \A k \in m..d : k \in m..(d - 1) \/ k = d
    BY <1>1
  <2> QED
    BY <2>2, <2>3, <2>4
<1> QED
  BY <1>4, <1>5, <1>6, <1>7 DEF UpToLine

------------------------------------------------------------------------------
(* The invariant, action by action.                                        *)
LEMMA ProcessIs == ASSUME ParInv PROVE process \in Process /\ file \in File /\ Turns = 1..Len(Order[process])
BY OrderIs DEF ParInv, ParTypeOK

LEMMA PosIs ==
  ASSUME ParTypeOK
  PROVE  pos \in Nat /\ pos >= 1 /\ pos <= Len(words) + 1 /\ Len(words) \in Nat
<1>1. file \in File /\ pos \in 1..Len(words)+1
  BY DEF ParTypeOK
<1>2. Len(words) \in Nat
  BY <1>1, StreamIs, LenProperties
<1> QED
  BY <1>1, <1>2

LEMMA EarlierIs ==
  ASSUME process \in Process, process' = process, turn \in Turns, turn' = turn + 1
  PROVE  \A r : Earlier(r)' <=> (Earlier(r) \/ r = reader)
<1>1. turn \in Nat /\ turn >= 1
  BY OrderIs
<1>2. \A s : s \in 1..(turn + 1) - 1 <=> (s \in 1..turn - 1 \/ s = turn)
  BY <1>1
<1> QED
  BY <1>2 DEF Earlier, reader

LEMMA OpenKeeps == ParInv /\ Open => Others' /\ Progress'
<1> SUFFICES ASSUME ParInv, Open PROVE Others' /\ Progress'
  OBVIOUS
<1>1. /\ stage = "closed" /\ turn \in Turns /\ stage' = "head"
      /\ pos' = 1 /\ base' = 10 /\ fail' = FALSE /\ eof' = FALSE
      /\ file' = file /\ process' = process /\ turn' = turn /\ setting' = setting /\ rows' = rows
  BY DEF Open
<1>2. process \in Process /\ file \in File /\ reader \in Reader /\ Others
  BY <1>1, ProcessIs, OrderIs DEF ParInv
<1>3. Others'
  BY <1>1, <1>2, OthersKept
<1>4. PICK r \in Reader : r = reader
  BY <1>2
<1>5. SettingsUpTo(r, 0)
  <2>1. ASSUME InOrder(r), NEW p \in Known(r), Settings[r][p] # "rows"
        PROVE  AtStart(r, p, setting[r][p]) /\ Right(file.lines, r, p, 0, setting[r][p], setting[r][p])
    <3>1. AtStart(r, p, setting[r][p])
      <4>1. CASE Earlier(r)
        <5>1. ReadWell(r)
          BY <1>1, <1>2, <4>1 DEF Others
        <5> QED
          BY <2>1, <4>1, <5>1 DEF ReadWell, SettingsRead, AtStart
      <4>2. CASE ~Earlier(r)
        <5>1. Untouched(r)
          BY <1>1, <1>2, <4>2 DEF Others
        <5> QED
          BY <4>2, <5>1 DEF Untouched, AtStart
      <4> QED
        BY <4>1, <4>2
    <3> QED
      BY <3>1, RightNone
  <2> QED
    BY <2>1 DEF SettingsUpTo
<1>6. RowsUpTo(r, 0)
  <2>1. ASSUME r = "hitMap" PROVE rows = NoRows
    <3>1. turn = 1
      BY <1>1, <1>2, <1>4, <2>1, OrderIs DEF reader
    <3>2. ~Earlier(r)
      BY <3>1 DEF Earlier
    <3>3. Untouched(r)
      BY <1>1, <1>2, <3>2 DEF Others
    <3> QED
      BY <2>1, <3>3 DEF Untouched
  <2> QED
    BY <2>1, RightNone DEF RowsUpTo
<1>7. SoundUpTo(r, 0)
  BY DEF SoundUpTo
<1>8. UpToLine(r, 0)'
  <2>1. SettingsUpTo(r, 0)' /\ RowsUpTo(r, 0)' /\ SoundUpTo(r, 0)'
    BY <1>1, <1>5, <1>6, <1>7, KeepUpTo
  <2>2. BaseUpTo(r, 0)'
    BY <1>1 DEF BaseUpTo
  <2> QED
    BY <2>1, <2>2 DEF UpToLine
<1>9. Begun(0)'
  <2>1. NLines' = NLines /\ End(0)' = End(0) /\ NLines \in Nat /\ End(0) = 0
    BY <1>1, <1>2, SameFile, StreamIs
  <2>2. 0 \in 0..NLines
    BY <2>1
  <2> QED
    BY <1>1, <2>1, <2>2 DEF Begun
<1>10. AtHead(r)'
  <2>1. 0 \in 0..NLines'
    BY <1>9 DEF Begun
  <2> QED
    BY <1>8, <1>9, <2>1 DEF AtHead
<1>11. reader' = r
  BY <1>1, <1>4, SameTurn
<1>12. AtHead(reader)'
  BY <1>10, <1>11
<1> QED
  BY <1>1, <1>3, <1>12 DEF Progress

LEMMA NotFoundKeeps == ParInv /\ NotFound => Others' /\ Progress'
<1> SUFFICES ASSUME ParInv, NotFound PROVE Others' /\ Progress'
  OBVIOUS
<1>1. /\ stage = "closed" /\ turn \in Turns /\ ~file.found /\ turn' = turn + 1 /\ stage' = stage
      /\ file' = file /\ process' = process /\ setting' = setting /\ rows' = rows
  BY DEF NotFound
<1>2. process \in Process /\ file \in File /\ reader \in Reader /\ Others
  BY <1>1, ProcessIs, OrderIs DEF ParInv
<1>3. NLines = 0
  <2>1. file.lines = <<>>
    BY <1>1, <1>2, FileIs
  <2> QED
    BY <2>1 DEF NLines
<1>4. ASSUME NEW r \in Reader, Untouched(r) PROVE ReadWell(r)
  <2>1. SettingsRead(r)
    BY <1>3, <1>4, RightNone DEF SettingsRead, Untouched
  <2>2. RowsRead(r)
    BY <1>3, <1>4, RightNone DEF RowsRead, Untouched
  <2>3. SoundRead(r)
    BY <1>3 DEF SoundRead
  <2> QED
    BY <2>1, <2>2, <2>3 DEF ReadWell
<1>5. ASSUME NEW r \in Reader
      PROVE  IF Earlier(r)' THEN ReadWell(r)' ELSE Untouched(r)'
  <2>1. IF Earlier(r) THEN ReadWell(r) ELSE Untouched(r)
    BY <1>1, <1>2 DEF Others
  <2>2. (ReadWell(r) => ReadWell(r)') /\ (Untouched(r) => Untouched(r)')
    BY <1>1, KeepWell, KeepUntouched
  <2>3. Earlier(r) => Earlier(r)'
    BY <1>1, <1>2, EarlierIs
  <2> QED
    BY <1>4, <2>1, <2>2, <2>3
<1> QED
  BY <1>1, <1>5 DEF Others, Progress

LEMMA CloseKeeps == ParInv /\ Close => Others' /\ Progress'
<1> SUFFICES ASSUME ParInv, Close PROVE Others' /\ Progress'
  OBVIOUS
<1>1. /\ stage = "head" /\ eof /\ stage' = "closed" /\ turn' = turn + 1 /\ turn \in Turns
      /\ file' = file /\ process' = process /\ setting' = setting /\ rows' = rows
  BY DEF Close, Ended, ParInv
<1>2. process \in Process /\ file \in File /\ reader \in Reader /\ Others /\ Progress
  BY <1>1, ProcessIs, OrderIs DEF ParInv
<1>3. PICK r \in Reader : r = reader
  BY <1>2
<1>4. ReadWell(r)
  <2>1. CASE fail
    BY <1>1, <1>2, <1>3, <2>1 DEF Progress
  <2>2. CASE ~fail
    <3>1. pos > Len(words) /\ AtHead(r)
      BY <1>1, <1>2, <1>3, <2>2 DEF Progress
    <3>2. PICK d \in 0..NLines : Begun(d) /\ UpToLine(r, d)
      BY <3>1 DEF AtHead
    <3>3. pos \in Nat
      BY PosIs DEF ParInv
    <3>4. d = NLines
      BY <1>2, <3>1, <3>2, <3>3, LastLine DEF Begun
    <3> QED
      BY <3>2, <3>4, WellAtEnd
  <2> QED
    BY <2>1, <2>2
<1>5. ASSUME NEW q \in Reader
      PROVE  IF Earlier(q)' THEN ReadWell(q)' ELSE Untouched(q)'
  <2>1. q # reader => IF Earlier(q) THEN ReadWell(q) ELSE Untouched(q)
    BY <1>2 DEF Others
  <2>2. (ReadWell(q) => ReadWell(q)') /\ (Untouched(q) => Untouched(q)')
    BY <1>1, KeepWell, KeepUntouched
  <2>3. Earlier(q)' <=> (Earlier(q) \/ q = reader)
    BY <1>1, <1>2, EarlierIs
  <2> QED
    BY <1>3, <1>4, <2>1, <2>2, <2>3
<1> QED
  BY <1>1, <1>5 DEF Others, Progress

LEMMA ReadNameKeeps == ParInv /\ ReadName => Others' /\ Progress'
<1> SUFFICES ASSUME ParInv, ReadName PROVE Others' /\ Progress'
  OBVIOUS
<1>1. /\ stage = "head" /\ ~eof /\ stage' = "name" /\ turn \in Turns
      /\ file' = file /\ process' = process /\ turn' = turn /\ setting' = setting /\ rows' = rows
      /\ base' = base
  BY DEF ReadName, Ended, ParInv
<1>2. process \in Process /\ file \in File /\ reader \in Reader /\ Others /\ Progress /\ ParTypeOK
  BY <1>1, ProcessIs, OrderIs DEF ParInv
<1>3. pos \in Nat /\ pos >= 1 /\ Len(words) \in Nat
  BY <1>2, PosIs
<1>4. Others'
  BY <1>1, <1>2, OthersKept
<1>5. PICK r \in Reader : r = reader
  BY <1>2
<1>6. /\ reader' = r /\ NLines' = NLines /\ words' = words /\ \A n : End(n)' = End(n)
      /\ NLines \in Nat
  BY <1>1, <1>2, <1>5, SameFile, SameTurn, StreamIs
<1>7. CASE fail
  <2>1. fail' /\ ~eof'
    BY <1>1, <1>7 DEF ReadName, Good, TakeNone
  <2> QED
    BY <1>1, <1>4, <2>1 DEF Progress
<1>8. CASE ~fail
  <2>1. PICK d \in 0..NLines : Begun(d) /\ UpToLine(r, d)
    BY <1>1, <1>2, <1>5, <1>8 DEF Progress, AtHead
  <2>2. UpToLine(r, d)' /\ pos <= End(d) + 1 /\ End(d) \in Nat
    BY <1>1, <1>2, <2>1, KeepUpToLine, StreamIs DEF Begun
  <2>3. CASE ~Good
    <3>1. fail' /\ pos > Len(words)
      BY <1>1, <1>3, <1>8, <2>3 DEF ReadName, Good, TakeNone
    <3>2. d = NLines
      BY <1>2, <1>3, <2>2, <3>1, LastLine
    <3>3. ReadWell(r)
      BY <2>1, <3>2, WellAtEnd
    <3>4. ReadWell(r)'
      BY <1>1, <3>3, KeepWell
    <3>5. ReadWell(reader)'
      BY <1>6, <3>4
    <3> QED
      BY <1>4, <3>1, <3>5 DEF Progress
  <2>4. CASE Good
    <3>1. parameterName' = words[pos] /\ Take(1) /\ pos <= Len(words)
      BY <2>4 DEF ReadName, Good
    <3>2. pos' = pos + 1 /\ fail' = FALSE /\ (eof' => pos' > Len(words))
      <4>1. pos + 1 - 1 <= Len(words) /\ 1 \in Nat
        BY <1>3, <3>1
      <4> QED
        BY <1>2, <1>8, <3>1, <4>1, TakeIs
    <3>3. AtName(r)'
      <4>1. CASE pos = End(d) + 1
        <5>1. d # NLines
          BY <1>2, <2>2, <3>1, <4>1, StreamIs
        <5>2. d + 1 \in 1..NLines /\ (d + 1) - 1 = d /\ words[End(d) + 1] = file.lines[d + 1][1]
          BY <1>2, <5>1, NextLine
        <5>3. /\ d + 1 \in 1..NLines' /\ pos' = End((d + 1) - 1)' + 2
              /\ parameterName' = file'.lines[d + 1][1] /\ UpToLine(r, (d + 1) - 1)'
          <6>1. pos' = End(d) + 2
            BY <2>2, <3>2, <4>1
          <6> QED
            BY <1>1, <1>6, <2>2, <3>1, <4>1, <5>2, <6>1
        <5> QED
          BY <5>3 DEF AtName
      <4>2. CASE pos # End(d) + 1
        <5>1. d # 0
          BY <1>2, <1>3, <2>2, <4>2, StreamIs
        <5>2. d \in 1..NLines /\ d - 1 \in 0..NLines
          BY <1>6, <5>1
        <5>3. /\ pos > End(d - 1) + 1 /\ End(d - 1) \in Nat /\ End(d) = End(d - 1) + Len(file.lines[d])
              /\ Len(file.lines[d]) \in Nat
          BY <1>2, <2>1, <5>1, <5>2, StreamIs DEF Begun
        <5> DEFINE i == pos - End(d - 1)
        <5>4. i \in 2..Len(file.lines[d]) /\ i \in 1..Len(file.lines[d]) /\ pos = End(d - 1) + i
          BY <1>3, <2>2, <4>2, <5>3
        <5> HIDE DEF i
        <5>5. words[pos] = file.lines[d][i] /\ file.lines[d][i] \notin Known(r)
          BY <1>2, <5>2, <5>4, StreamIs
        <5>6. Begun(d)'
          <6>1. pos' <= End(d) + 1 /\ pos' > End(d - 1) + 1
            BY <1>3, <2>2, <3>2, <4>2, <5>3
          <6> QED
            BY <1>6, <2>1, <5>1, <6>1 DEF Begun
        <5>7. AtHead(r)'
          <6>1. d \in 0..NLines'
            BY <1>6
          <6> QED
            BY <2>2, <5>6, <6>1 DEF AtHead
        <5>8. parameterName' \notin Known(r)
          BY <3>1, <5>5
        <5> QED
          BY <5>7, <5>8 DEF AtName
      <4> QED
        BY <4>1, <4>2
    <3>4. AtName(reader)'
      BY <1>6, <3>3
    <3> QED
      BY <1>1, <1>4, <1>6, <3>2, <3>4 DEF Progress
  <2> QED
    BY <2>3, <2>4
<1> QED
  BY <1>7, <1>8

(* The stream is where it was, and so is the reader when it failed.        *)
LEMMA FailedStays ==
  ASSUME ParInv, stage # "closed", fail, fail' = fail, eof' = eof, file' = file, process' = process,
         turn' = turn, setting' = setting, rows' = rows, Others'
  PROVE  Others' /\ Progress'
<1>1. process \in Process /\ file \in File /\ reader \in Reader /\ Progress
  BY ProcessIs, OrderIs DEF ParInv
<1>2. PICK r \in Reader : r = reader
  BY <1>1
<1>3. reader' = r
  BY <1>2, SameTurn
<1>4. eof => ReadWell(r)
  BY <1>1, <1>2 DEF Progress
<1>5. ReadWell(r) => ReadWell(r)'
  BY KeepWell
<1>6. eof' => ReadWell(reader)'
  BY <1>3, <1>4, <1>5
<1> QED
  BY <1>6 DEF Progress

(* A line whose first word alone was read.                                 *)
LEMMA BegunIs ==
  ASSUME file \in File, NEW d \in 1..NLines, pos \in Nat, pos > End(d - 1) + 1, pos <= End(d) + 1
  PROVE  d \in 0..NLines /\ Begun(d)
<1>1. NLines \in Nat
  BY StreamIs
<1>2. d \in 0..NLines /\ d # 0
  BY <1>1
<1> QED
  BY <1>2 DEF Begun

LEMMA PassOverKeeps == ParInv /\ PassOver => Others' /\ Progress'
<1> SUFFICES ASSUME ParInv, PassOver PROVE Others' /\ Progress'
  OBVIOUS
<1>1. /\ stage = "name" /\ stage' = "head" /\ turn \in Turns /\ parameterName \notin Known(reader)
      /\ file' = file /\ process' = process /\ turn' = turn /\ setting' = setting /\ rows' = rows
      /\ base' = base /\ pos' = pos /\ fail' = fail /\ eof' = eof
  BY DEF PassOver, ParInv, stream
<1>2. process \in Process /\ file \in File /\ reader \in Reader /\ Others /\ Progress /\ ParTypeOK
  BY <1>1, ProcessIs, OrderIs DEF ParInv
<1>3. pos \in Nat /\ Len(words) \in Nat
  BY <1>2, PosIs
<1>4. Others'
  BY <1>1, <1>2, OthersKept
<1>5. PICK r \in Reader : r = reader
  BY <1>2
<1>6. /\ reader' = r /\ NLines' = NLines /\ words' = words /\ \A n : End(n)' = End(n)
      /\ NLines \in Nat
  BY <1>1, <1>2, <1>5, SameFile, SameTurn, StreamIs
<1>7. CASE fail
  BY <1>1, <1>4, <1>7, FailedStays
<1>8. CASE ~fail
  <2>1. AtName(r) /\ (eof => pos > Len(words))
    BY <1>1, <1>2, <1>5, <1>8 DEF Progress
  <2>2. AtHead(r)
    <3>1. SUFFICES ASSUME NEW d \in 1..NLines, pos = End(d - 1) + 2,
                          parameterName = file.lines[d][1], UpToLine(r, d - 1)
                   PROVE  AtHead(r)
      BY <2>1 DEF AtName
    <3>2. UpToLine(r, d)
      BY <1>1, <1>2, <1>5, <3>1, LinePassed
    <3>3. d - 1 \in 0..NLines /\ d \in 0..NLines
      BY <1>6
    <3>4. /\ End(d - 1) \in Nat /\ End(d) = End(d - 1) + Len(file.lines[d]) /\ Len(file.lines[d]) \in Nat
          /\ Len(file.lines[d]) >= 1
      BY <1>2, <3>3, StreamIs
    <3>5. pos > End(d - 1) + 1 /\ pos <= End(d) + 1
      BY <3>1, <3>4
    <3>6. Begun(d)
      BY <1>2, <1>3, <3>5, BegunIs
    <3> QED
      BY <3>2, <3>3, <3>6 DEF AtHead
  <2>3. PICK d \in 0..NLines : Begun(d) /\ UpToLine(r, d)
    BY <2>2 DEF AtHead
  <2>4. UpToLine(r, d)' /\ d \in 0..NLines'
    BY <1>1, <1>6, <2>3, KeepUpToLine
  <2>5. Begun(d)'
    BY <1>1, <1>6, <2>3 DEF Begun
  <2>6. AtHead(r)'
    BY <2>4, <2>5 DEF AtHead
  <2>7. AtHead(reader)'
    BY <1>6, <2>6
  <2> QED
    BY <1>1, <1>4, <1>6, <1>8, <2>1, <2>7 DEF Progress
<1> QED
  BY <1>7, <1>8

LEMMA StartRowsKeeps == ParInv /\ StartRows => Others' /\ Progress'
<1> SUFFICES ASSUME ParInv, StartRows PROVE Others' /\ Progress'
  OBVIOUS
<1>1. /\ stage = "name" /\ stage' = "rows" /\ turn \in Turns /\ parameterName \in Known(reader)
      /\ Settings[reader][parameterName] = "rows"
      /\ file' = file /\ process' = process /\ turn' = turn /\ setting' = setting /\ rows' = rows
      /\ base' = base /\ pos' = pos /\ fail' = fail /\ eof' = eof /\ row' = 0
  BY DEF StartRows, ParInv, stream, Kind
<1>2. process \in Process /\ file \in File /\ reader \in Reader /\ Others /\ Progress /\ ParTypeOK
  BY <1>1, ProcessIs, OrderIs DEF ParInv
<1>4. Others'
  BY <1>1, <1>2, OthersKept
<1>5. PICK r \in Reader : r = reader
  BY <1>2
<1>6. /\ reader' = r /\ NLines' = NLines /\ words' = words /\ \A n : End(n)' = End(n)
      /\ \A n : KindOf(r, n)' = KindOf(r, n)
  BY <1>1, <1>2, <1>5, SameFile, SameTurn
<1>7. CASE fail
  BY <1>1, <1>4, <1>7, FailedStays
<1>8. CASE ~fail
  <2>1. AtName(r) /\ (eof => pos > Len(words))
    BY <1>1, <1>2, <1>5, <1>8 DEF Progress
  <2>2. PICK d \in 1..NLines : /\ pos = End(d - 1) + 2 /\ parameterName = file.lines[d][1]
                               /\ UpToLine(r, d - 1)
    BY <1>1, <1>5, <2>1 DEF AtName
  <2>3. KindOf(r, d) = "rows" /\ Len(file.lines[d]) \in Nat /\ Len(file.lines[d]) >= 1
    BY <1>1, <1>2, <1>5, <2>2, StreamIs DEF KindOf
  <2>4. InRows(d)'
    <3>1. NColumn * 0 = 0 /\ End(d - 1) \in Nat
      <4>1. NColumn \in Nat /\ NLines \in Nat
        BY <1>2, ParSizes, StreamIs
      <4>2. d - 1 \in 0..NLines
        BY <4>1
      <4>3. NColumn * 0 = 0
        BY <4>1
      <4>4. End(d - 1) \in Nat
        BY <1>2, <4>2, StreamIs
      <4> QED
        BY <4>3, <4>4
    <3>2. pos' = End(d - 1)' + 2 + NColumn * row' /\ 1 + NColumn * row' <= Len(file'.lines[d])
      BY <1>1, <1>6, <2>2, <2>3, <3>1
    <3>3. \A i \in 2..1 + NColumn * row' : FALSE
      BY <1>1, <3>1
    <3>4. \A i \in 0..row' - 1 : FALSE
      BY <1>1
    <3> QED
      BY <3>2, <3>3, <3>4 DEF InRows
  <2>5. SettingsUpTo(r, d - 1)' /\ SoundUpTo(r, d - 1)' /\ BaseUpTo(r, d - 1)'
    BY <1>1, <2>2, KeepUpTo DEF UpToLine
  <2>6. AtRows(r)'
    <3>1. d \in 1..NLines' /\ KindOf(r, d)' = "rows"
      BY <1>6, <2>3
    <3> QED
      BY <2>4, <2>5, <3>1 DEF AtRows
  <2>7. AtRows(reader)'
    BY <1>6, <2>6
  <2> QED
    BY <1>1, <1>4, <1>6, <1>8, <2>1, <2>7 DEF Progress
<1> QED
  BY <1>7, <1>8

(* A line that gives a setting.                                            *)
LEMMA LineGives ==
  ASSUME file \in File, NEW r \in Reader, NEW d \in 1..NLines, NEW p \in Known(r),
         file.lines[d][1] = p, Complete(r, file.lines[d])
  PROVE  /\ Gives(file.lines, r, p, d) /\ KindOf(r, d) = Settings[r][p] /\ d \in Nat \ {0}
         /\ \A q : q # p => ~Gives(file.lines, r, q, d)
         /\ \A q, v, start : q # p /\ Right(file.lines, r, q, d - 1, v, start) =>
              Right(file.lines, r, q, d, v, start)
         /\ \A start : Right(file.lines, r, p, d, ValueAt(file.lines, r, p, d), start)
         /\ SoundUpTo(r, d - 1) => SoundUpTo(r, d)
<1>1. NLines \in Nat /\ d \in Nat \ {0} /\ \A n \in 1..d : n \in 1..(d - 1) \/ n = d
  BY StreamIs
<1>2. Gives(file.lines, r, p, d) /\ \A q : q # p => ~Gives(file.lines, r, q, d)
  BY DEF Gives
<1>3. KindOf(r, d) = Settings[r][p]
  BY DEF KindOf
<1>4. \A q, v, start : q # p /\ Right(file.lines, r, q, d - 1, v, start) =>
        Right(file.lines, r, q, d, v, start)
  BY <1>1, <1>2, RightSkip
<1>5. \A start : Right(file.lines, r, p, d, ValueAt(file.lines, r, p, d), start)
  BY <1>1, <1>2, RightGive
<1>6. SoundUpTo(r, d - 1) => SoundUpTo(r, d)
  BY <1>1 DEF SoundUpTo
<1> QED
  BY <1>1, <1>2, <1>3, <1>4, <1>5, <1>6

(* In a file in order, an integer is read with the base of its kind.       *)
LEMMA ValueIs ==
  ASSUME file \in File, NEW r \in Reader, NEW d \in 1..NLines, NEW p \in Known(r),
         KindOf(r, d) = Settings[r][p], Settings[r][p] # "rows", InOrder(r), BaseUpTo(r, d - 1),
         base \in {10, 16}
  PROVE  ValueOf(file.lines[d][2], Settings[r][p]) = ValueAt(file.lines, r, p, d)
<1>1. Settings[r][p] \in {"int", "hex", "dec", "real"}
  BY KindIs
<1>2. ASSUME Settings[r][p] = "int" PROVE base = 10
  <2>1. SUFFICES ASSUME base = 16 PROVE FALSE
    OBVIOUS
  <2>2. PICK m \in 1..(d - 1) : KindOf(r, m) = "hex" /\ \A k \in m..(d - 1) : KindOf(r, k) # "dec"
    BY <2>1 DEF BaseUpTo
  <2>3. m \in DOMAIN file.lines /\ d \in DOMAIN file.lines /\ m < d
    BY StreamIs
  <2>4. PICK k \in m..d : KindOf(r, k) = "dec"
    BY <1>2, <2>2, <2>3 DEF InOrder
  <2>5. k # d /\ (k # d => k \in m..(d - 1))
    BY <1>2, <2>4
  <2> QED
    BY <2>2, <2>4, <2>5
<1>3. CASE Settings[r][p] = "int"
  BY <1>2, <1>3 DEF ValueOf, ValueAt, BaseFor
<1>4. CASE Settings[r][p] = "hex"
  BY <1>4 DEF ValueOf, ValueAt, BaseFor
<1>5. CASE Settings[r][p] = "dec"
  BY <1>5 DEF ValueOf, ValueAt, BaseFor
<1>6. CASE Settings[r][p] = "real"
  BY <1>6 DEF ValueOf, ValueAt, BaseFor
<1> QED
  BY <1>1, <1>3, <1>4, <1>5, <1>6

(* A setting is read from the line that the reader is at.                  *)
LEMMA LineRead ==
  ASSUME file \in File, base \in {10, 16}, NEW r \in Reader, NEW d \in 1..NLines, NEW p \in Known(r),
         file.lines[d][1] = p, Settings[r][p] # "rows", Complete(r, file.lines[d]),
         UpToLine(r, d - 1), DOMAIN setting = Reader, DOMAIN setting[r] = Known(r),
         file' = file, process' = process, turn' = turn, rows' = rows,
         base' = BaseFor(Settings[r][p]),
         setting' = [setting EXCEPT ![r][p] = ValueOf(file.lines[d][2], Settings[r][p])]
  PROVE  UpToLine(r, d)'
<1>1. KindOf(r, d) = Settings[r][p] /\ d \in Nat \ {0}
  BY StreamIs DEF KindOf
<1>10. SoundUpTo(r, d - 1) => SoundUpTo(r, d)
  BY LineGives
<1>8. \A q, v, start : q # p /\ Right(file.lines, r, q, d - 1, v, start) =>
        Right(file.lines, r, q, d, v, start)
  BY LineGives
<1>9. \A start : Right(file.lines, r, p, d, ValueAt(file.lines, r, p, d), start)
  BY LineGives
<1>2. /\ InOrder(r)' <=> InOrder(r)
      /\ \A n : KindOf(r, n)' = KindOf(r, n)
      /\ SoundUpTo(r, d)' <=> SoundUpTo(r, d)
      /\ \A q, start : AtStart(r, q, start)' <=> AtStart(r, q, start)
  BY SameFile, SameTurn
<1>3. /\ setting'[r][p] = ValueOf(file.lines[d][2], Settings[r][p])
      /\ \A q \in Known(r) : q # p => setting'[r][q] = setting[r][q]
  OBVIOUS
<1>4. SettingsUpTo(r, d)'
  <2>1. ASSUME InOrder(r), NEW q \in Known(r), Settings[r][q] # "rows"
        PROVE  \E start : AtStart(r, q, start) /\ Right(file.lines, r, q, d, setting'[r][q], start)
    <3>1. PICK start : AtStart(r, q, start) /\ Right(file.lines, r, q, d - 1, setting[r][q], start)
      BY <2>1 DEF UpToLine, SettingsUpTo
    <3>2. Right(file.lines, r, q, d, setting'[r][q], start)
      <4>1. CASE q = p
        <5>1. setting'[r][p] = ValueAt(file.lines, r, p, d)
          <6>1. BaseUpTo(r, d - 1)
            BY DEF UpToLine
          <6>2. ValueOf(file.lines[d][2], Settings[r][p]) = ValueAt(file.lines, r, p, d)
            BY <1>1, <2>1, <6>1, ValueIs
          <6> QED
            BY <1>3, <6>2
        <5> QED
          BY <1>9, <4>1, <5>1
      <4>2. CASE q # p
        BY <1>8, <1>3, <3>1, <4>2
      <4> QED
        BY <4>1, <4>2
    <3> QED
      BY <3>1, <3>2
  <2> QED
    BY <1>2, <2>1 DEF SettingsUpTo
<1>5. RowsUpTo(r, d)'
  <2>1. ASSUME r = "hitMap", NEW q \in Known(r), Settings[r][q] = "rows"
        PROVE  Right(file.lines, r, q, d, rows, NoRows)
    <3>1. Right(file.lines, r, q, d - 1, rows, NoRows)
      BY <2>1 DEF UpToLine, RowsUpTo
    <3> QED
      BY <1>8, <2>1, <3>1
  <2> QED
    BY <2>1 DEF RowsUpTo
<1>6. SoundUpTo(r, d)'
  BY <1>2, <1>10 DEF UpToLine
<1>7. BaseUpTo(r, d)'
  <2>1. SUFFICES ASSUME base' = 16
                 PROVE \E m \in 1..d : KindOf(r, m) = "hex" /\ \A k \in m..d : KindOf(r, k) # "dec"
    BY <1>2 DEF BaseUpTo
  <2>2. CASE Settings[r][p] = "hex"
    <3>1. d \in 1..d /\ \A k \in d..d : k = d
      BY <1>1
    <3> QED
      BY <1>1, <2>2, <3>1
  <2>3. CASE Settings[r][p] # "hex"
    <3>1. Settings[r][p] # "dec" /\ base = 16
      BY <2>1, <2>3 DEF BaseFor
    <3>2. PICK m \in 1..(d - 1) : KindOf(r, m) = "hex" /\ \A k \in m..(d - 1) : KindOf(r, k) # "dec"
      BY <3>1 DEF UpToLine, BaseUpTo
    <3>3. m \in 1..d /\ \A k \in m..d : k \in m..(d - 1) \/ k = d
      BY <1>1
    <3> QED
      BY <1>1, <3>1, <3>2, <3>3
  <2> QED
    BY <2>2, <2>3
<1> QED
  BY <1>4, <1>5, <1>6, <1>7 DEF UpToLine

(* Where the reader is in a line of which it has read the first q words.   *)
LEMMA InLine ==
  ASSUME file \in File, NEW d \in 1..NLines, NEW q \in Nat, q >= 1, q <= Len(file.lines[d])
  PROVE  /\ Len(file.lines[d]) \in Nat /\ End(d - 1) \in Nat /\ End(d) \in Nat
         /\ End(d) = End(d - 1) + Len(file.lines[d])
         /\ q < Len(file.lines[d]) => /\ words[End(d - 1) + q + 1] = file.lines[d][q + 1]
                                      /\ End(d - 1) + q + 1 <= Len(words)
         /\ q = Len(file.lines[d]) =>
              \/ d = NLines /\ End(d - 1) + q + 1 > Len(words)
              \/ d # NLines /\ words[End(d - 1) + q + 1] \notin Number
<1>1. NLines \in Nat /\ Len(words) = End(NLines)
  BY StreamIs
<1>2. d - 1 \in 0..NLines /\ d \in 0..NLines
  BY <1>1
<1>3. Len(file.lines[d]) \in Nat
  BY StreamIs
<1>4. End(d - 1) \in Nat /\ End(d) \in Nat /\ End(NLines) \in Nat
  <2>1. NLines \in 0..NLines
    BY <1>1
  <2> QED
    BY <1>2, <2>1, StreamIs
<1>5. End(d) = End(d - 1) + Len(file.lines[d])
  BY StreamIs
<1>6. End(d) <= End(NLines)
  <2>1. CASE d = NLines
    BY <1>4, <2>1
  <2>2. CASE d # NLines
    <3>1. NLines \in 0..NLines /\ d \in 0..(NLines - 1)
      BY <1>1, <2>2
    <3>2. End(d) < End(NLines)
      BY <3>1, StreamIs
    <3> QED
      BY <1>4, <3>2
  <2> QED
    BY <2>1, <2>2
<1>7. ASSUME q < Len(file.lines[d])
      PROVE  words[End(d - 1) + q + 1] = file.lines[d][q + 1] /\ End(d - 1) + q + 1 <= Len(words)
  <2>1. q + 1 \in 1..Len(file.lines[d]) /\ End(d - 1) + (q + 1) = End(d - 1) + q + 1
    BY <1>3, <1>4, <1>7
  <2>2. words[End(d - 1) + (q + 1)] = file.lines[d][q + 1]
    BY <2>1, StreamIs
  <2>3. End(d - 1) + q + 1 <= End(NLines)
    BY <1>3, <1>4, <1>5, <1>6, <1>7
  <2> QED
    BY <1>1, <2>1, <2>2, <2>3
<1>8. ASSUME q = Len(file.lines[d]), d = NLines PROVE End(d - 1) + q + 1 > Len(words)
  <2>1. End(d - 1) + q + 1 = End(NLines) + 1
    BY <1>4, <1>5, <1>8
  <2> QED
    BY <1>1, <1>4, <2>1
<1>9. ASSUME q = Len(file.lines[d]), d # NLines PROVE words[End(d - 1) + q + 1] \notin Number
  <2>1. words[End(d) + 1] \notin Number
    BY <1>2, <1>9, NextLine
  <2>2. End(d - 1) + q + 1 = End(d) + 1
    BY <1>4, <1>5, <1>9
  <2> QED
    BY <2>1, <2>2
<1> QED
  BY <1>3, <1>4, <1>5, <1>7, <1>8, <1>9

LEMMA ReadValueKeeps == ParInv /\ ReadValue => Others' /\ Progress'
<1> SUFFICES ASSUME ParInv, ReadValue PROVE Others' /\ Progress'
  OBVIOUS
<1> DEFINE p == parameterName
<1>1. /\ stage = "name" /\ stage' = "head" /\ turn \in Turns
      /\ file' = file /\ process' = process /\ turn' = turn /\ rows' = rows
  BY DEF ReadValue, ParInv
<1>2. process \in Process /\ file \in File /\ reader \in Reader /\ Others /\ Progress /\ ParTypeOK
  BY <1>1, ProcessIs, OrderIs DEF ParInv
<1>3. pos \in Nat /\ pos >= 1 /\ Len(words) \in Nat
  BY <1>2, PosIs
<1>4. base \in {10, 16} /\ DOMAIN setting = Reader /\ \A r \in Reader : DOMAIN setting[r] = Known(r)
  BY <1>2 DEF ParTypeOK
<1>5. PICK r \in Reader : r = reader
  BY <1>2
<1>6. p \in Known(r) /\ Settings[r][p] # "rows" /\ base' = BaseFor(Settings[r][p])
      /\ Kind = Settings[r][p]
  BY <1>5 DEF ReadValue, Kind
<1>7. \A q \in Reader : q # reader => setting'[q] = setting[q]
  <2>1. \/ setting' = setting
        \/ setting' = [setting EXCEPT ![reader][p] = ValueOf(words[pos], Kind)]
        \/ setting' = [setting EXCEPT ![reader][p] = 0]
    BY DEF ReadValue
  <2> HIDE DEF p
  <2> QED
    BY <1>4, <2>1
<1>8. Others'
  BY <1>1, <1>2, <1>7, OthersKept
<1>9. /\ reader' = r /\ NLines' = NLines /\ words' = words /\ \A n : End(n)' = End(n)
      /\ NLines \in Nat
  BY <1>1, <1>2, <1>5, SameFile, SameTurn, StreamIs
<1>10. CASE fail
  <2>1. fail' = fail /\ eof' = eof /\ setting' = setting
    BY <1>10, <1>2 DEF ReadValue, Good, TakeNone, ParTypeOK
  <2> QED
    BY <1>1, <1>8, <1>10, <2>1, FailedStays
<1>11. CASE ~fail
  <2>1. AtName(r) /\ (eof => pos > Len(words))
    BY <1>1, <1>2, <1>5, <1>11 DEF Progress
  <2>2. PICK d \in 1..NLines : pos = End(d - 1) + 2 /\ p = file.lines[d][1] /\ UpToLine(r, d - 1)
    BY <1>6, <2>1 DEF AtName
  <2> DEFINE l == file.lines[d]
  <2>3. Len(l) \in Nat /\ Len(l) >= 1 /\ d - 1 \in 0..NLines /\ d \in 0..NLines
    BY <1>2, <1>9, StreamIs
  <2>4. /\ End(d - 1) \in Nat /\ End(d) \in Nat /\ End(d) = End(d - 1) + Len(l)
        /\ 1 < Len(l) => words[End(d - 1) + 1 + 1] = l[1 + 1] /\ End(d - 1) + 1 + 1 <= Len(words)
        /\ 1 = Len(l) => \/ d = NLines /\ End(d - 1) + 1 + 1 > Len(words)
                         \/ d # NLines /\ words[End(d - 1) + 1 + 1] \notin Number
    <3>1. 1 \in Nat /\ 1 >= 1 /\ 1 <= Len(file.lines[d])
      BY <2>3
    <3> QED
      BY <1>2, <3>1, InLine
  <2>5. End(d - 1) + 1 + 1 = pos /\ 1 + 1 = 2
    BY <2>2, <2>4
  <2>6. Needs(r, p) = 1 /\ (Complete(r, l) <=> (Len(l) > 1 /\ l[2] \in Number))
    <3>1. Needs(r, p) = 1
      BY <1>6 DEF Needs
    <3>2. \A i : i \in 2..1+1 <=> i = 2
      OBVIOUS
    <3>3. l[1] = p
      BY <2>2
    <3>4. Complete(r, l) <=> (l[1] \in Known(r) /\ Len(l) > Needs(r, l[1])
                              /\ \A i \in 2..Needs(r, l[1])+1 : l[i] \in Number)
      BY DEF Complete
    <3> HIDE DEF l, p
    <3> QED
      BY <1>6, <3>1, <3>2, <3>3, <3>4
  <2>7. CASE pos > Len(words)
    <3>1. Len(l) = 1 /\ d = NLines
      <4>1. pos <= End(d) + 1
        BY <2>2, <2>3, <2>4
      <4>2. d = NLines /\ pos = End(NLines) + 1
        BY <1>2, <1>3, <2>3, <2>7, <4>1, LastLine
      <4>3. pos = End(d) + 1
        BY <4>2
      <4>4. End(d - 1) \in Nat /\ End(d) = End(d - 1) + Len(l) /\ pos = End(d - 1) + 2
        BY <2>2, <2>4
      <4>5. Len(l) \in Nat
        BY <2>3
      <4>6. Len(l) = 1
        <5>1. PICK k \in Nat : k = Len(l)
          BY <4>5
        <5>2. End(d - 1) + 2 = (End(d - 1) + k) + 1
          BY <4>3, <4>4, <5>1
        <5>3. k = 1
          BY <4>4, <5>2
        <5> QED
          BY <5>1, <5>3
      <4> QED
        BY <4>2, <4>6
    <3>2. /\ SettingsRead(r) /\ SoundRead(r) /\ (RowsUpTo(r, d - 1) => RowsRead(r))
      <4>1. ~Complete(r, file.lines[d]) /\ \A i \in 2..Len(file.lines[d]) : file.lines[d][i] \in Number
        BY <2>6, <3>1
      <4>2. SettingsUpTo(r, d - 1) /\ SoundUpTo(r, d - 1)
        BY <2>2 DEF UpToLine
      <4> QED
        BY <1>2, <3>1, <4>1, <4>2, WellCut
    <3>3. ReadWell(r)
      BY <2>2, <3>2 DEF UpToLine, ReadWell
    <3>4. setting' = setting /\ fail'
      BY <1>3, <2>7 DEF ReadValue, Good, TakeNone
    <3>5. ReadWell(r)'
      BY <1>1, <3>3, <3>4, KeepWell
    <3>6. ReadWell(reader)'
      BY <1>9, <3>5
    <3> QED
      BY <1>8, <3>4, <3>6 DEF Progress
  <2>8. CASE pos <= Len(words)
    <3>1. Good
      BY <1>3, <1>11, <2>1, <2>8 DEF Good
    <3>2. CASE words[pos] \notin Number
      <4>1. fail' /\ ~eof'
        <5>1. TakeNone
          BY <3>2 DEF ReadValue
        <5>2. ~eof
          BY <3>1 DEF Good
        <5> QED
          <6>1. fail' = TRUE /\ eof' = (eof \/ (~fail /\ pos > Len(words)))
            BY <5>1 DEF TakeNone
          <6>2. ~(pos > Len(words))
            BY <1>3, <2>8
          <6> QED
            BY <5>2, <6>1, <6>2
      <4> QED
        BY <1>8, <4>1 DEF Progress
    <3>3. CASE words[pos] \in Number
      <4>1. Len(l) > 1 /\ words[pos] = l[2]
        <5>1. /\ 1 < Len(l) => words[pos] = l[2]
              /\ 1 = Len(l) => pos > Len(words) \/ words[pos] \notin Number
          BY <2>4, <2>5
        <5>2. 1 # Len(l)
          BY <1>3, <2>8, <3>3, <5>1
        <5>3. 1 < Len(l)
          <6>1. \A k \in Nat : k >= 1 /\ 1 # k => 1 < k
            OBVIOUS
          <6> QED
            BY <2>3, <5>2, <6>1
        <5> QED
          BY <5>1, <5>3
      <4>2. setting' = [setting EXCEPT ![r][p] = ValueOf(l[2], Settings[r][p])] /\ Take(1)
        BY <1>5, <1>6, <3>1, <3>3, <4>1 DEF ReadValue
      <4>3. Complete(r, l)
        BY <2>6, <3>3, <4>1
      <4>4. UpToLine(r, d)'
        BY <1>1, <1>2, <1>4, <1>6, <2>2, <4>2, <4>3, LineRead
      <4>5. pos' = pos + 1 /\ fail' = FALSE /\ (eof' => pos' > Len(words))
        <5>1. pos + 1 - 1 <= Len(words) /\ 1 \in Nat
          BY <1>3, <2>8
        <5> QED
          BY <1>2, <1>11, <4>2, <5>1, TakeIs
      <4>6. Begun(d)'
        <5>1. pos' <= End(d) + 1 /\ pos' > End(d - 1) + 1 /\ d # 0
          <6>1. End(d - 1) \in Nat /\ End(d) = End(d - 1) + Len(l) /\ pos = End(d - 1) + 2
            BY <2>2, <2>4
          <6>2. Len(l) \in Nat /\ Len(l) > 1 /\ pos' = pos + 1
            BY <2>3, <4>1, <4>5
          <6>3. \A k \in Nat, e \in Nat : k > 1 => (e + 2) + 1 <= (e + k) + 1 /\ (e + 2) + 1 > e + 1
            OBVIOUS
          <6> QED
            BY <2>3, <6>1, <6>2, <6>3
        <5> QED
          BY <1>9, <2>3, <5>1 DEF Begun
      <4>7. AtHead(r)'
        <5>1. d \in 0..NLines'
          BY <1>9, <2>3
        <5> QED
          BY <4>4, <4>6, <5>1 DEF AtHead
      <4>8. AtHead(reader)'
        BY <1>9, <4>7
      <4> QED
        BY <1>1, <1>8, <1>9, <4>5, <4>8 DEF Progress
    <3> QED
      BY <3>2, <3>3
  <2> QED
    BY <1>3, <2>7, <2>8
<1> QED
  BY <1>10, <1>11

LEMMA ReadRowKeeps == ParInv /\ ReadRow => Others' /\ Progress'
<1> SUFFICES ASSUME ParInv, ReadRow PROVE Others' /\ Progress'
  OBVIOUS
<1> DEFINE n == Readable
<1>1. /\ stage = "rows" /\ stage' = "rows" /\ turn \in Turns /\ row < NRow /\ row' = row + 1
      /\ file' = file /\ process' = process /\ turn' = turn /\ setting' = setting /\ base' = base
  BY DEF ReadRow, MoreRows, ParInv
<1>2. process \in Process /\ file \in File /\ reader \in Reader /\ Others /\ Progress /\ ParTypeOK
  BY <1>1, ProcessIs, OrderIs DEF ParInv
<1>3. pos \in Nat /\ pos >= 1 /\ Len(words) \in Nat /\ NColumn \in Nat /\ NColumn # 0 /\ NRow \in Nat
  BY <1>2, PosIs, ParSizes
<1>4. row \in 0..NRow-1 /\ row \in Nat /\ rows \in [0..NRow-1 -> [1..NColumn -> Nat]]
  <2>1. row \in 0..NRow /\ rows \in [0..NRow-1 -> [1..NColumn -> Nat]]
    BY <1>2 DEF ParTypeOK
  <2> QED
    BY <1>1, <1>3, <2>1
<1>5. PICK r \in Reader : r = reader
  BY <1>2
<1>6. /\ reader' = r /\ NLines' = NLines /\ words' = words /\ \A k : End(k)' = End(k)
      /\ \A k : KindOf(r, k)' = KindOf(r, k)
      /\ NLines \in Nat
  BY <1>1, <1>2, <1>5, SameFile, SameTurn, StreamIs
<1>7. /\ n \in 0..NColumn /\ (~Good => n = 0)
      /\ Good => /\ pos + n - 1 <= Len(words) /\ \A i \in 0..n - 1 : words[pos + i] \in Number
  BY <1>2, <1>3, ReadableIs
<1> DEFINE new == [c \in 1..NColumn |->
                     IF c <= n THEN Dec[words[pos+c-1]]
                     ELSE IF c = n+1 /\ Good /\ pos+n <= Len(words) THEN 0 ELSE rows[row][c]]
<1>8. rows' = [rows EXCEPT ![row] = new]
  BY <1>4 DEF ReadRow
<1>9. CASE fail
  <2>1. n = 0 /\ n # NColumn /\ ~Good
    BY <1>3, <1>7, <1>9 DEF Good
  <2>2. rows' = rows
    <3>1. new = rows[row]
      <4> HIDE DEF n
      <4>1. \A c \in 1..NColumn : new[c] = rows[row][c]
        BY <2>1
      <4>2. rows[row] \in [1..NColumn -> Nat] /\ new = [c \in 1..NColumn |-> new[c]]
        BY <1>4
      <4> HIDE DEF new
      <4> QED
        BY <4>1, <4>2
    <3> HIDE DEF new
    <3> QED
      BY <1>4, <1>8, <3>1
  <2>3. fail' = fail /\ eof' = eof
    <3>1. fail' = TRUE /\ eof' = (eof \/ (~fail /\ pos + n > Len(words)))
      BY <2>1 DEF ReadRow
    <3>2. eof \in BOOLEAN /\ fail \in BOOLEAN
      BY <1>2 DEF ParTypeOK
    <3> QED
      BY <1>9, <3>1, <3>2
  <2>4. Others'
    BY <1>1, <1>2, <2>2, OthersKept
  <2> QED
    BY <1>1, <1>9, <2>2, <2>3, <2>4, FailedStays
<1>10. CASE ~fail
  <2>1. AtRows(r) /\ (eof => pos > Len(words))
    BY <1>1, <1>2, <1>5, <1>10 DEF Progress
  <2>2. PICK d \in 1..NLines :
          /\ KindOf(r, d) = "rows" /\ InRows(d)
          /\ SettingsUpTo(r, d - 1) /\ SoundUpTo(r, d - 1) /\ BaseUpTo(r, d - 1)
    BY <2>1 DEF AtRows
  <2> DEFINE l == file.lines[d]
             q == 1 + NColumn * row
  <2>3. /\ q \in Nat /\ q >= 1 /\ q <= Len(l) /\ pos = End(d - 1) + q + 1
        /\ \A i \in 2..q : l[i] \in Number
        /\ \A i \in 0..row - 1 : rows[i] = RowsAt(file.lines, d)[i]
    <3>1. NColumn * row \in Nat
      BY <1>3, <1>4
    <3>2. End(d - 1) \in Nat
      <4>1. d - 1 \in 0..NLines
        BY <1>6
      <4> QED
        BY <1>2, <4>1, StreamIs
    <3>3. pos = End(d - 1) + 2 + NColumn * row
      BY <2>2 DEF InRows
    <3>4. pos = End(d - 1) + q + 1
      BY <3>1, <3>2, <3>3
    <3>5. q <= Len(l) /\ \A i \in 2..q : l[i] \in Number
      BY <2>2 DEF InRows
    <3>6. \A i \in 0..row - 1 : rows[i] = RowsAt(file.lines, d)[i]
      BY <2>2 DEF InRows
    <3> QED
      BY <3>1, <3>4, <3>5, <3>6
  <2>4. r = "hitMap" /\ l[1] \in Known(r) /\ Settings[r][l[1]] = "rows"
    <3>1. l[1] \in Known(r) /\ Settings[r][l[1]] = "rows"
      BY <2>2 DEF KindOf
    <3> HIDE DEF l
    <3> QED
      BY <3>1, KindIs
  <2>5. Others'
    BY <1>1, <1>2, <1>5, <2>4, OthersKept
  <2>6. Len(l) \in Nat /\ End(d - 1) \in Nat /\ End(d) \in Nat /\ End(d) = End(d - 1) + Len(l)
    BY <1>2, <2>3, InLine
  <2> HIDE DEF n, q, l
  <2>7. q + n <= Len(l) /\ \A i \in 0..n - 1 : words[pos + i] = l[q + 1 + i] /\ l[q + 1 + i] \in Number
    <3>1. q + n <= Len(l)
      <4>1. SUFFICES ASSUME q + n > Len(l) PROVE FALSE
        BY <1>3, <1>7, <2>3, <2>6
      <4> DEFINE i == Len(l) - q
      <4>2. i \in 0..n - 1 /\ Good
        BY <1>3, <1>7, <2>3, <2>6, <4>1
      <4>3. words[pos + i] \in Number /\ pos + i <= Len(words)
        <5> HIDE DEF i
        <5>1. pos + n - 1 <= Len(words) /\ \A k \in 0..n - 1 : words[pos + k] \in Number
          BY <1>7, <4>2
        <5>2. n \in Nat
          BY <1>3, <1>7
        <5>3. \A k \in 0..n - 1 : pos + k <= Len(words)
          BY <1>3, <5>1, <5>2
        <5> QED
          BY <4>2, <5>1, <5>3
      <4>4. pos + i = End(d - 1) + Len(l) + 1
        BY <2>3, <2>6
      <4>5. \/ d = NLines /\ End(d - 1) + Len(l) + 1 > Len(words)
            \/ d # NLines /\ words[End(d - 1) + Len(l) + 1] \notin Number
        <5>1. Len(l) \in Nat /\ Len(l) >= 1 /\ Len(l) <= Len(l)
          BY <2>3, <2>6
        <5> QED
          BY <1>2, <5>1, InLine DEF l
      <4> HIDE DEF i
      <4>6. End(d - 1) + Len(l) + 1 <= Len(words) /\ words[End(d - 1) + Len(l) + 1] \in Number
        BY <4>3, <4>4
      <4> QED
        BY <1>3, <2>6, <4>5, <4>6
    <3>2. ASSUME NEW i \in 0..n - 1 PROVE words[pos + i] = l[q + 1 + i] /\ l[q + 1 + i] \in Number
      <4>1. words[pos + i] \in Number /\ i \in Nat /\ i < n
        BY <1>3, <1>7
      <4>2. q + i \in Nat /\ q + i >= 1 /\ q + i < Len(l) /\ q + i <= Len(l)
        BY <1>3, <1>7, <2>3, <2>6, <3>1, <4>1
      <4>3. words[End(d - 1) + (q + i) + 1] = l[(q + i) + 1]
        BY <1>2, <4>2, InLine DEF l
      <4>4. End(d - 1) + (q + i) + 1 = pos + i /\ (q + i) + 1 = q + 1 + i
        BY <2>3, <2>6, <4>1
      <4> QED
        BY <4>1, <4>3, <4>4
    <3> QED
      BY <3>1, <3>2
  <2>8. CASE n = NColumn
    <3>1. pos' = pos + n /\ fail' = FALSE /\ (eof' => pos' > Len(words))
      <4>1. Take(n) /\ n \in Nat
        BY <1>3, <2>8 DEF ReadRow, n
      <4>2. pos + n - 1 <= Len(words)
        <5>1. CASE Good
          BY <1>7, <5>1
        <5>2. CASE ~Good
          BY <1>3, <1>7, <2>8, <5>2
        <5> QED
          BY <5>1, <5>2
      <4> QED
        BY <1>2, <1>10, <4>1, <4>2, TakeIs
    <3>2. 1 + NColumn * (row + 1) = q + n /\ q + n \in Nat
      BY <1>3, <1>4, <2>3, <2>8 DEF q
    <3>3. \A i \in 2..q + n : l[i] \in Number
      <4>1. TAKE i \in 2..q + n
      <4>2. CASE i \in 2..q
        BY <2>3, <4>2
      <4>3. CASE i \notin 2..q
        <5>1. i - (q + 1) \in 0..n - 1 /\ q + 1 + (i - (q + 1)) = i
          BY <1>3, <2>3, <2>8, <4>3
        <5> QED
          BY <2>7, <5>1
      <4> QED
        BY <4>2, <4>3
    <3>4. \A i \in 0..row : rows'[i] = RowsAt(file.lines, d)[i]
      <4>1. ASSUME NEW i \in 0..row - 1 PROVE rows'[i] = RowsAt(file.lines, d)[i]
        <5>1. i # row /\ i \in 0..NRow-1
          BY <1>3, <1>4
        <5>2. rows'[i] = rows[i]
          BY <1>4, <1>8, <5>1
        <5> QED
          BY <2>3, <5>2
      <4>2. rows'[row] = RowsAt(file.lines, d)[row]
        <5>1. rows'[row] = new
          BY <1>4, <1>8
        <5>2. RowsAt(file.lines, d)[row] = [c \in 1..NColumn |-> Dec[l[q + c]]]
          BY <1>4 DEF RowsAt, l, q
        <5>3. ASSUME NEW c \in 1..NColumn PROVE Dec[words[pos+c-1]] = Dec[l[q + c]] /\ c <= n
          <6>1. c - 1 \in 0..n - 1 /\ pos + (c - 1) = pos+c-1 /\ q + 1 + (c - 1) = q + c /\ c <= n
            BY <1>3, <2>3, <2>8
          <6>2. words[pos + (c - 1)] = l[q + 1 + (c - 1)]
            BY <2>7, <6>1
          <6> QED
            BY <6>1, <6>2
        <5> QED
          BY <5>1, <5>2, <5>3
      <4> QED
        BY <1>4, <4>1, <4>2
    <3>5. InRows(d)'
      <4>1. pos' = End(d - 1) + 2 + NColumn * (row + 1)
        <5>1. NColumn * (row + 1) \in Nat
          BY <1>3, <1>4
        <5> QED
          <6>1. pos' = pos + n /\ 1 + NColumn * (row + 1) = q + n
            BY <3>1, <3>2
          <6>2. pos = End(d - 1) + q + 1 /\ q \in Nat /\ End(d - 1) \in Nat /\ n \in Nat
            BY <1>3, <2>3, <2>6, <2>8
          <6> QED
            BY <5>1, <6>1, <6>2
      <4>2. 1 + NColumn * (row + 1) <= Len(l)
        BY <2>7, <3>2
      <4>3. \A i \in 2..1 + NColumn * (row + 1) : l[i] \in Number
        BY <3>2, <3>3
      <4>4. (row + 1) - 1 = row
        BY <1>4
      <4> QED
        BY <1>1, <1>6, <3>4, <4>1, <4>2, <4>3, <4>4 DEF InRows, l
    <3>6. SettingsUpTo(r, d - 1)' /\ SoundUpTo(r, d - 1)' /\ BaseUpTo(r, d - 1)'
      BY <1>1, <2>2, KeepUpTo
    <3>7. AtRows(r)'
      <4>1. d \in 1..NLines' /\ KindOf(r, d)' = "rows"
        BY <1>6, <2>2
      <4> QED
        BY <3>5, <3>6, <4>1 DEF AtRows
    <3>8. AtRows(reader)'
      BY <1>6, <3>7
    <3> QED
      BY <1>1, <1>6, <2>5, <3>1, <3>8 DEF Progress
  <2>9. CASE n # NColumn
    <3>1. fail' = TRUE /\ eof' = (eof \/ (~fail /\ pos + n > Len(words)))
      BY <2>9 DEF ReadRow, n
    <3>2. ASSUME eof' PROVE ReadWell(r)'
      <4>1. pos + n > Len(words)
        <5>1. eof \/ pos + n > Len(words)
          BY <3>1, <3>2
        <5>2. n \in Nat
          BY <1>3, <1>7
        <5>3. CASE eof
          <6>1. pos > Len(words)
            BY <2>1, <5>3
          <6> QED
            BY <1>3, <5>2, <6>1
        <5> QED
          BY <5>1, <5>3
      <4>2. d = NLines /\ q + n = Len(l)
        <5>1. q + n \in Nat /\ q + n >= 1
          BY <1>3, <1>7, <2>3
        <5>2. CASE q + n < Len(l)
          <6>1. End(d - 1) + (q + n) + 1 <= Len(words)
            BY <1>2, <2>7, <5>1, <5>2, InLine DEF l
          <6>2. End(d - 1) + (q + n) + 1 = pos + n
            BY <1>3, <1>7, <2>3, <2>6
          <6> QED
            BY <1>3, <1>7, <4>1, <6>1, <6>2
        <5>3. CASE q + n = Len(l)
          <6>1. CASE d # NLines
            <7>1. d \in 0..NLines
              BY <1>6
            <7>2. End(d) + 1 <= Len(words)
              BY <1>2, <6>1, <7>1, NextLine
            <7>3. End(d) + 1 = pos + n
              <8>1. pos = End(d - 1) + q + 1 /\ q \in Nat /\ End(d - 1) \in Nat
                BY <2>3, <2>6
              <8>2. End(d) = End(d - 1) + Len(l) /\ Len(l) = q + n /\ n \in Nat
                BY <1>3, <1>7, <2>6, <5>3
              <8> QED
                BY <8>1, <8>2
            <7> QED
              BY <1>3, <1>7, <2>6, <4>1, <7>2, <7>3
          <6> QED
            BY <5>3, <6>1
        <5> QED
          BY <2>6, <2>7, <5>1, <5>2, <5>3
      <4>3. \A i \in 2..Len(l) : l[i] \in Number
        <5>1. TAKE i \in 2..Len(l)
        <5>2. CASE i \in 2..q
          BY <2>3, <5>2
        <5>3. CASE i \notin 2..q
          <6>1. i - (q + 1) \in 0..n - 1 /\ q + 1 + (i - (q + 1)) = i
            BY <1>3, <1>7, <2>3, <2>6, <4>2, <5>3
          <6> QED
            BY <2>7, <6>1
        <5> QED
          BY <5>2, <5>3
      <4>4. ~Complete(r, l)
        <5>1. Needs(r, l[1]) = NRow * NColumn
          BY <2>4 DEF Needs
        <5>2. NColumn * row + NColumn <= NRow * NColumn
          <6>1. NColumn * (row + 1) <= NColumn * NRow
            <7>1. row + 1 <= NRow
              BY <1>3, <1>4
            <7> QED
              BY <1>3, <1>4, <7>1
          <6>2. NColumn * (row + 1) = NColumn * row + NColumn /\ NColumn * NRow = NRow * NColumn
            BY <1>3, <1>4
          <6> QED
            BY <6>1, <6>2
        <5>3. Len(l) <= NRow * NColumn
          <6>1. n \in Nat /\ n + 1 <= NColumn /\ NColumn * row \in Nat /\ NRow * NColumn \in Nat
            BY <1>3, <1>4, <1>7, <2>9
          <6>2. q = 1 + NColumn * row
            BY DEF q
          <6> QED
            BY <1>3, <2>3, <4>2, <5>2, <6>1, <6>2
        <5>4. NRow * NColumn \in Nat
          BY <1>3
        <5> QED
          BY <2>6, <5>1, <5>3, <5>4 DEF Complete
      <4>5. /\ SettingsRead(r) /\ SoundRead(r)
            /\ \A p \in Known(r) : Settings[r][p] = "rows" => CutOff(file.lines, r, p)
        BY <1>2, <2>2, <4>2, <4>3, <4>4, WellCut DEF l
      <4>6. SettingsRead(r)'
        <5>1. InOrder(r)' <=> InOrder(r)
          BY <1>1, SameFile
        <5> QED
          BY <1>1, <1>6, <4>5, <5>1 DEF SettingsRead
      <4>7. SoundRead(r)'
        BY <1>1, <4>5, SameFile
      <4>8. RowsRead(r)'
        BY <1>1, <4>5 DEF RowsRead
      <4> QED
        BY <4>6, <4>7, <4>8 DEF ReadWell
    <3>3. eof' => ReadWell(reader)'
      BY <1>6, <3>2
    <3> QED
      BY <2>5, <3>1, <3>3 DEF Progress
  <2> QED
    BY <2>8, <2>9
<1> QED
  BY <1>9, <1>10

LEMMA EndRowsKeeps == ParInv /\ EndRows => Others' /\ Progress'
<1> SUFFICES ASSUME ParInv, EndRows PROVE Others' /\ Progress'
  OBVIOUS
<1>1. /\ stage = "rows" /\ stage' = "head" /\ turn \in Turns /\ ~(row < NRow)
      /\ file' = file /\ process' = process /\ turn' = turn /\ setting' = setting /\ rows' = rows
      /\ base' = base /\ pos' = pos /\ fail' = fail /\ eof' = eof
  BY DEF EndRows, MoreRows, ParInv, stream
<1>2. process \in Process /\ file \in File /\ reader \in Reader /\ Others /\ Progress /\ ParTypeOK
  BY <1>1, ProcessIs, OrderIs DEF ParInv
<1>3. NColumn \in Nat /\ NColumn # 0 /\ NRow \in Nat /\ NRow # 0 /\ pos \in Nat
  BY <1>2, PosIs, ParSizes
<1>4. row = NRow /\ rows \in [0..NRow-1 -> [1..NColumn -> Nat]]
  <2>1. row \in 0..NRow /\ rows \in [0..NRow-1 -> [1..NColumn -> Nat]]
    BY <1>2 DEF ParTypeOK
  <2> QED
    BY <1>1, <1>3, <2>1
<1>5. PICK r \in Reader : r = reader
  BY <1>2
<1>6. /\ reader' = r /\ NLines' = NLines /\ words' = words /\ \A n : End(n)' = End(n)
      /\ NLines \in Nat
  BY <1>1, <1>2, <1>5, SameFile, SameTurn, StreamIs
<1>7. Others'
  BY <1>1, <1>2, OthersKept
<1>8. CASE fail
  BY <1>1, <1>7, <1>8, FailedStays
<1>9. CASE ~fail
  <2>1. AtRows(r) /\ (eof => pos > Len(words))
    BY <1>1, <1>2, <1>5, <1>9 DEF Progress
  <2>2. PICK d \in 1..NLines :
          /\ KindOf(r, d) = "rows" /\ InRows(d)
          /\ SettingsUpTo(r, d - 1) /\ SoundUpTo(r, d - 1) /\ BaseUpTo(r, d - 1)
    BY <2>1 DEF AtRows
  <2>3. PICK p \in Known(r) : p = file.lines[d][1]
    BY <2>2 DEF KindOf
  <2>4. Settings[r][p] = "rows" /\ r = "hitMap" /\ \A q \in Known(r) : Settings[r][q] = "rows" => q = p
    <3>1. Settings[r][p] = "rows"
      BY <2>2, <2>3 DEF KindOf
    <3> QED
      BY <3>1, KindIs
  <2>5. Needs(r, p) = NRow * NColumn /\ NRow * NColumn = NColumn * row /\ NColumn * row \in Nat
    <3>1. Needs(r, p) = NRow * NColumn
      BY <2>4 DEF Needs
    <3>2. NRow * NColumn = NColumn * row /\ NColumn * row \in Nat
      BY <1>3, <1>4
    <3> QED
      BY <3>1, <3>2
  <2>6. /\ pos = End(d - 1) + 2 + NColumn * row /\ 1 + NColumn * row <= Len(file.lines[d])
        /\ \A i \in 2..1 + NColumn * row : file.lines[d][i] \in Number
        /\ \A i \in 0..row - 1 : rows[i] = RowsAt(file.lines, d)[i]
    BY <2>2 DEF InRows
  <2>7. /\ Len(file.lines[d]) \in Nat /\ End(d - 1) \in Nat
        /\ End(d) = End(d - 1) + Len(file.lines[d]) /\ d \in 0..NLines /\ d # 0
    <3>1. d - 1 \in 0..NLines /\ d \in 0..NLines /\ d # 0
      BY <1>6
    <3> QED
      BY <1>2, <3>1, StreamIs
  <2>8. Complete(r, file.lines[d])
    <3>1. Len(file.lines[d]) > NRow * NColumn
      BY <2>5, <2>6, <2>7
    <3>2. NRow * NColumn + 1 = 1 + NColumn * row
      BY <2>5
    <3> QED
      BY <2>3, <2>5, <2>6, <3>1, <3>2 DEF Complete
  <2>9. rows = ValueAt(file.lines, r, p, d)
    <3>1. ValueAt(file.lines, r, p, d) = RowsAt(file.lines, d)
      BY <2>4 DEF ValueAt
    <3>2. RowsAt(file.lines, d) = [i \in 0..NRow-1 |-> RowsAt(file.lines, d)[i]]
      BY DEF RowsAt
    <3>3. \A i \in 0..NRow-1 : rows[i] = RowsAt(file.lines, d)[i]
      BY <1>4, <2>6
    <3> QED
      BY <1>4, <3>1, <3>2, <3>3
  <2>10. KindOf(r, d) = "rows" /\ \A n \in 1..d : n \in 1..(d - 1) \/ n = d
    BY <2>2, <2>7
  <2>11. \A q, v, start : q # p /\ Right(file.lines, r, q, d - 1, v, start) =>
           Right(file.lines, r, q, d, v, start)
    BY <1>2, <2>3, <2>8, LineGives
  <2>12. Right(file.lines, r, p, d, rows, NoRows)
    BY <1>2, <2>3, <2>8, <2>9, LineGives
  <2>13. SettingsUpTo(r, d)
    <3>1. ASSUME InOrder(r), NEW q \in Known(r), Settings[r][q] # "rows"
          PROVE  \E start : AtStart(r, q, start) /\ Right(file.lines, r, q, d, setting[r][q], start)
      <4>1. PICK start : AtStart(r, q, start) /\ Right(file.lines, r, q, d - 1, setting[r][q], start)
        BY <2>2, <3>1 DEF SettingsUpTo
      <4>2. q # p
        BY <2>4, <3>1
      <4> QED
        BY <2>11, <4>1, <4>2
    <3> QED
      BY <3>1 DEF SettingsUpTo
  <2>14. RowsUpTo(r, d)
    BY <2>4, <2>12 DEF RowsUpTo
  <2>15. SoundUpTo(r, d)
    BY <1>2, <2>2, <2>3, <2>8, LineGives
  <2>16. BaseUpTo(r, d)
    <3>1. SUFFICES ASSUME base = 16
                   PROVE \E m \in 1..d : KindOf(r, m) = "hex" /\ \A k \in m..d : KindOf(r, k) # "dec"
      BY DEF BaseUpTo
    <3>2. PICK m \in 1..(d - 1) : KindOf(r, m) = "hex" /\ \A k \in m..(d - 1) : KindOf(r, k) # "dec"
      BY <2>2, <3>1 DEF BaseUpTo
    <3>3. m \in 1..d /\ \A k \in m..d : k \in m..(d - 1) \/ k = d
      BY <2>7
    <3> QED
      BY <2>10, <3>2, <3>3
  <2>17. UpToLine(r, d)'
    <3>1. UpToLine(r, d)
      BY <2>13, <2>14, <2>15, <2>16 DEF UpToLine
    <3> QED
      BY <1>1, <3>1, KeepUpToLine
  <2>18. pos <= End(d) + 1 /\ pos > End(d - 1) + 1
    BY <2>5, <2>6, <2>7
  <2>19. AtHead(r)'
    <3>1. Begun(d)'
      BY <1>1, <1>6, <2>7, <2>18 DEF Begun
    <3>2. d \in 0..NLines'
      BY <1>6, <2>7
    <3> QED
      BY <2>17, <3>1, <3>2 DEF AtHead
  <2>20. AtHead(reader)'
    BY <1>6, <2>19
  <2> QED
    BY <1>1, <1>6, <1>7, <1>9, <2>1, <2>20 DEF Progress
<1> QED
  BY <1>8, <1>9

------------------------------------------------------------------------------
LEMMA ParInitInv == ParInit => ParInv
<1> SUFFICES ASSUME ParInit PROVE ParInv
  OBVIOUS
<1>1. ParTypeOK
  BY ParInitTypeOK
<1>2. /\ stage = "closed" /\ turn = 1 /\ rows = NoRows
      /\ \A r \in Reader : \A p \in Known(r) : setting[r][p] = Initial(r)
  BY DEF ParInit
<1>3. \A r : ~Earlier(r)
  BY <1>2 DEF Earlier
<1>4. Others
  BY <1>2, <1>3 DEF Others, Untouched
<1> QED
  BY <1>1, <1>2, <1>4 DEF ParInv, Progress

LEMMA ParStepInv == ParInv /\ [ParNext]_parVars => ParInv'
<1> SUFFICES ASSUME ParInv, [ParNext]_parVars PROVE ParInv'
  OBVIOUS
<1>1. ParTypeOK /\ (stage # "closed" => turn \in Turns)
  BY DEF ParInv
<1>2. CASE UNCHANGED parVars
  <2>1. file' = file /\ process' = process /\ turn' = turn /\ stage' = stage /\ pos' = pos /\ base' = base
        /\ fail' = fail /\ eof' = eof /\ parameterName' = parameterName /\ row' = row
        /\ setting' = setting /\ rows' = rows /\ use8rowSpaceChargeMethod' = use8rowSpaceChargeMethod
    BY <1>2 DEF parVars, stream
  <2>2. ParTypeOK' /\ (stage # "closed" => turn \in Turns)'
    BY <1>1, <2>1 DEF ParTypeOK, Turns, words
  <2>3. /\ reader' = reader /\ NLines' = NLines /\ words' = words /\ \A n : End(n)' = End(n)
        /\ \A r : Earlier(r)' <=> Earlier(r)
        /\ \A r, n : KindOf(r, n)' = KindOf(r, n)
    BY <2>1, SameFile, SameTurn
  <2>4. \A r : (ReadWell(r) => ReadWell(r)') /\ (Untouched(r) => Untouched(r)')
    BY <2>1, KeepWell, KeepUntouched
  <2>5. Others'
    BY <2>1, <2>3, <2>4 DEF ParInv, Others
  <2>6. \A r, d : UpToLine(r, d) => UpToLine(r, d)'
    BY <2>1, KeepUpToLine
  <2>7. \A r : AtHead(r) => AtHead(r)'
    BY <2>1, <2>3, <2>6 DEF AtHead, Begun
  <2>8. \A r : AtName(r) => AtName(r)'
    BY <2>1, <2>3, <2>6, <2>7 DEF AtName
  <2>9. \A r, d : SettingsUpTo(r, d) /\ SoundUpTo(r, d) /\ BaseUpTo(r, d) =>
                   (SettingsUpTo(r, d) /\ SoundUpTo(r, d) /\ BaseUpTo(r, d))'
    BY <2>1, KeepUpTo
  <2>10. \A r : AtRows(r) => AtRows(r)'
    BY <2>1, <2>3, <2>9 DEF AtRows, InRows
  <2>11. PICK r : r = reader
    OBVIOUS
  <2>12. reader' = r
    BY <2>3, <2>11
  <2>13. Progress'
    <3>1. Progress
      BY DEF ParInv
    <3>2. /\ ReadWell(reader) => ReadWell(reader)'
          /\ AtHead(reader) => AtHead(reader)'
          /\ AtName(reader) => AtName(reader)'
          /\ AtRows(reader) => AtRows(reader)'
      BY <2>4, <2>7, <2>8, <2>10, <2>11, <2>12
    <3> QED
      BY <2>1, <2>3, <3>1, <3>2 DEF Progress
  <2> QED
    BY <2>2, <2>5, <2>13 DEF ParInv
<1>3. CASE Open \/ NotFound \/ PassOver \/ StartRows \/ EndRows \/ Close
  <2>1. ParTypeOK'
    BY <1>1, <1>3, OtherStepsTypeOK
  <2>2. Others' /\ Progress'
    BY <1>3, OpenKeeps, NotFoundKeeps, PassOverKeeps, StartRowsKeeps, EndRowsKeeps, CloseKeeps
  <2>3. (stage # "closed" => turn \in Turns)'
    BY <1>1, <1>3 DEF Open, NotFound, PassOver, StartRows, EndRows, Close, Turns
  <2> QED
    BY <2>1, <2>2, <2>3 DEF ParInv
<1>4. CASE ReadName \/ ReadValue \/ ReadRow
  <2>1. turn \in Turns /\ (stage # "closed" => turn \in Turns)'
    BY <1>1, <1>4 DEF ReadName, ReadValue, ReadRow, Turns
  <2>2. ParTypeOK'
    BY <1>1, <1>4, <2>1, ReadStepsTypeOK, ReadRowTypeOK
  <2>3. Others' /\ Progress'
    BY <1>4, ReadNameKeeps, ReadValueKeeps, ReadRowKeeps
  <2> QED
    BY <2>1, <2>2, <2>3 DEF ParInv
<1> QED
  BY <1>2, <1>3, <1>4 DEF ParNext

(* A reader that has read has what the file says.                          *)
LEMMA MeantIs ==
  ASSUME file \in File, NEW r \in Reader, NEW p \in Known(r), NEW v, NEW start,
         Right(file.lines, r, p, NLines, v, start)
  PROVE  /\ Given(r, p) = {} => v = start
         /\ Given(r, p) # {} =>
              \E n \in 1..NLines : v = ValueAt(file.lines, r, p, n) /\ LastOf(r, p) = file.lines[n]
<1>1. NLines \in Nat /\ DOMAIN file.lines = 1..NLines
  BY StreamIs
<1>2. Given(r, p) = {n \in 1..NLines : Gives(file.lines, r, p, n)}
  BY <1>1 DEF Given, Gives
<1>3. ASSUME Given(r, p) = {} PROVE v = start
  BY <1>2, <1>3 DEF Right, NoneUpTo
<1>4. ASSUME Given(r, p) # {}
      PROVE \E n \in 1..NLines : v = ValueAt(file.lines, r, p, n) /\ LastOf(r, p) = file.lines[n]
  <2>1. PICK n \in 1..NLines : LastUpTo(file.lines, r, p, n, NLines)
    BY <1>1, <1>2, <1>4, LastIs DEF NoneUpTo
  <2>2. v = ValueAt(file.lines, r, p, n)
    BY <2>1 DEF Right
  <2>3. n \in Given(r, p) /\ \A k \in Given(r, p) : k <= n
    <3>1. Gives(file.lines, r, p, n) /\ \A k \in (n + 1)..NLines : ~Gives(file.lines, r, p, k)
      BY <2>1 DEF LastUpTo
    <3>2. ASSUME NEW k \in Given(r, p) PROVE k <= n
      <4>1. k \in 1..NLines /\ k \notin (n + 1)..NLines
        BY <1>2, <3>1
      <4> QED
        BY <1>1, <4>1
    <3> QED
      BY <1>2, <3>1, <3>2
  <2>4. \A m \in Given(r, p) : (\A k \in Given(r, p) : k <= m) => m = n
    <3>1. Given(r, p) \subseteq Nat
      BY <1>2
    <3>2. TAKE m \in Given(r, p)
    <3>3. HAVE \A k \in Given(r, p) : k <= m
    <3> QED
      BY <2>3, <3>1, <3>3
  <2>5. (CHOOSE m \in Given(r, p) : \A k \in Given(r, p) : k <= m) = n
    BY <2>3, <2>4
  <2> QED
    BY <2>2, <2>5 DEF LastOf
<1> QED
  BY <1>3, <1>4

LEMMA InvAsWritten == ParInv => AsWritten /\ StartsOnlyIfSound
<1> SUFFICES ASSUME ParInv, Started PROVE AsWritten /\ FileSound
  BY DEF AsWritten, StartsOnlyIfSound
<1>1. process \in Process /\ file \in File /\ ParTypeOK /\ stage = "closed" /\ Others
  BY ProcessIs DEF ParInv, Started
<1>2. NLines \in Nat /\ NLines = Len(file.lines) /\ DOMAIN file.lines = 1..NLines
  BY <1>1, StreamIs DEF NLines
<1>3. \A t \in Turns : Order[process][t] \in Reader /\ ReadWell(Order[process][t])
  <2>1. TAKE t \in Turns
  <2>2. Order[process][t] \in Reader
    BY <1>1, OrderIs
  <2>3. t \in 1..turn - 1
    <3>1. Turns = 1..Len(Order[process]) /\ Len(Order[process]) \in Nat
      BY <1>1, OrderIs
    <3>2. turn \in 1..Len(Order[process])+1 /\ turn \notin Turns
      BY <1>1 DEF ParTypeOK, Started
    <3> QED
      BY <3>1, <3>2
  <2>4. Earlier(Order[process][t])
    BY <2>3 DEF Earlier
  <2> QED
    BY <1>1, <2>2, <2>4 DEF Others
<1>4. FileSound
  BY <1>2, <1>3 DEF FileSound, ReadWell, SoundRead
<1>5. ASSUME NEW r \in Reader, ReadWell(r), InOrder(r), NEW p \in Known(r)
      PROVE  IF Settings[r][p] = "rows" THEN RowsMeant(p) ELSE setting[r][p] = Meant(r, p)
  <2>1. CASE Settings[r][p] # "rows"
    <3>1. Right(file.lines, r, p, NLines, setting[r][p], Initial(r))
      BY <1>5, <2>1 DEF ReadWell, SettingsRead
    <3>2. CASE Given(r, p) = {}
      BY <1>1, <2>1, <3>1, <3>2, MeantIs DEF Meant
    <3>3. CASE Given(r, p) # {}
      <4>1. PICK n \in 1..NLines : setting[r][p] = ValueAt(file.lines, r, p, n)
                                   /\ LastOf(r, p) = file.lines[n]
        BY <1>1, <3>1, <3>3, MeantIs
      <4> QED
        BY <2>1, <3>3, <4>1 DEF Meant, ValueAt
    <3> QED
      BY <3>2, <3>3
  <2>2. CASE Settings[r][p] = "rows"
    <3>1. r = "hitMap"
      BY <2>2, KindIs
    <3>2. CASE CutOff(file.lines, r, p)
      BY <1>2, <2>2, <3>1, <3>2 DEF CutOff, RowsMeant, NLines
    <3>3. CASE Right(file.lines, r, p, NLines, rows, NoRows)
      <4>1. CASE Given(r, p) = {}
        BY <1>1, <2>2, <3>1, <3>3, <4>1, MeantIs DEF RowsMeant
      <4>2. CASE Given(r, p) # {}
        <5>1. PICK n \in 1..NLines : rows = ValueAt(file.lines, r, p, n)
                                     /\ LastOf(r, p) = file.lines[n]
          BY <1>1, <3>3, <4>2, MeantIs
        <5>2. rows = [i \in 0..NRow-1 |-> [c \in 1..NColumn |-> Dec[LastOf(r, p)[1 + NColumn * i + c]]]]
          BY <2>2, <5>1 DEF ValueAt, RowsAt
        <5> QED
          BY <2>2, <3>1, <4>2, <5>2 DEF RowsMeant
      <4> QED
        BY <4>1, <4>2
    <3> QED
      BY <1>5, <2>2, <3>1, <3>2, <3>3 DEF ReadWell, RowsRead
  <2> QED
    BY <2>1, <2>2
<1> QED
  BY <1>3, <1>4, <1>5 DEF AsWritten

LEMMA ParInvariant == ParSpec => []ParInv
BY ParInitInv, ParStepInv, PTL DEF ParSpec

(* Reading HLTparameters stays inside the file and the arrays; what the    *)
(* readers hold are numbers.                                               *)
THEOREM ParTypeCorrect == ParSpec => []ParTypeOK
<1>1. ParInv => ParTypeOK
  BY DEF ParInv
<1> QED
  BY <1>1, ParInvariant, PTL

(* A process that has started has what the file says: of several lines     *)
(* with one name the last, of the trigger bits the hexadecimal number, and *)
(* of what the file does not name the value of the constructor; for every  *)
(* file in the order that the decider expects.                             *)
THEOREM SettingsAsWritten == ParSpec => []AsWritten
BY InvAsWritten, ParInvariant, PTL

(* A process never starts with a file in which a word that is no number    *)
(* stands where a reader takes one, but for a last line that is cut off.   *)
THEOREM StartedMeansSound == ParSpec => []StartsOnlyIfSound
BY InvAsWritten, ParInvariant, PTL
=============================================================================
