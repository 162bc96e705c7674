------------------------------- MODULE L4Server -------------------------------
(***************************************************************************)
(* The calibration server process: L4ServerTask, which run control drives, *)
(* and the network thread it creates for every run, which loops over       *)
(* L4_Server::run() on the server object it finds in l4Server              *)
(* (src/L4_HLT/L4ServerTask.cxx, src/L4_HLT/L4_Server.cxx).                *)
(*                                                                         *)
(* The network thread is cancelled with deferred cancellation, so a step   *)
(* of it is the stretch of run() between two calls that can act on a       *)
(* cancellation: recvfrom, LOG, sendto.  Server objects and threads are    *)
(* numbered by the configureRun that made them; 0 is NULL.  The members    *)
(* of the server object are those of the object l4Server points to.  As in *)
(* CalibData, a name that ends in _Something is a deliberate fault.        *)
(***************************************************************************)
EXTENDS CalibData

CONSTANTS
  Client,          \* HLT nodes
  RunNumber,       \* run numbers carried by CALB messages
  NPri,            \* values of hltCaliData::npri
  NMip,            \* values of hltCaliData::nMipTracks
  Vertex,          \* vertex positions carried by CALB messages
  Scale,           \* scaleFactor, in percent, that a dE/dx fit may return
  nTracksCutUpdateBeamline,
  nTracksCutUpdatedEdxGainPara,
  BroadcastEvery,  \* CALB messages between two broadcasts, 100 in the code
  BeamFiles,       \* contents the beam-line file may have at the start
  GainFiles,       \* contents the gain file may have at the start
  MaxObj,          \* bound: calls of configureRun
  MaxInbox         \* bound: datagrams queued in the listen socket

ASSUME ServerAssumption ==
  /\ RunNumber \subseteq Nat
  /\ NPri \subseteq Int /\ NMip \subseteq Int
  /\ Vertex \subseteq Int
  /\ Scale \subseteq Nat
  /\ nTracksCutUpdateBeamline \in Nat /\ nTracksCutUpdatedEdxGainPara \in Nat
  /\ BroadcastEvery \in Nat \ {0}
  /\ BeamFiles \subseteq Seq(BeamLine) /\ GainFiles \subseteq Seq(GainLine)
  /\ MaxObj \in Nat \ {0} /\ MaxInbox \in Nat

VARIABLES
  (* run-control thread *)
  rc,              \* what it is doing: "idle", "running", "stopping", "flushing"
  nObj,            \* server objects created so far
  l4Server,        \* L4ServerTask::l4Server
  (* sockets *)
  portOwner,       \* the object whose socket is bound to listenPort
  inbox,           \* datagrams queued in that socket
  wire,            \* the last datagram the server sent
  (* network threads *)
  pc,              \* the next cancellation point: "recv", "log", "mip", "reply", "bcast", or "dead"
  self,            \* the object whose run() the thread executes
  msg,             \* *ReceivedInfo, once recvfrom returned
  cancel,          \* a cancellation is pending
  (* members of *l4Server *)
  beamline, gain, SendInfo, nReceivedEvents, runnumber, nEntries,
  (* files *)
  beamFile, gainFile

ctrl    == <<rc, nObj, l4Server>>
net     == <<portOwner, inbox, wire>>
threads == <<pc, self, msg, cancel>>
members == <<beamline, gain, SendInfo, nReceivedEvents, runnumber, nEntries>>
files   == <<beamFile, gainFile>>
vars    == <<ctrl, net, threads, members, files>>

Obj  == 1..MaxObj
None == [type |-> "none"]

InitMsg == [type : {"INIT"}, from : Client]
CalbMsg == [type : {"CALB"}, run : RunNumber, npri : NPri, v : Vertex, nMip : NMip]
Msg     == InitMsg \cup CalbMsg

(* struct hltCaliResult: the two calibration values it carries             *)
CaliResult == [pos : Position, gain : Gain \cup {Junk}]
(* A datagram of the server: to one node, or to the broadcast address      *)
Datagram   == [to : Client \cup {"all"}, by : 0..MaxObj, data : CaliResult]

Fresh == [pos |-> Junk, gain |-> Junk]     \* new hltCaliResult, never written

------------------------------------------------------------------------------
Init ==
  /\ rc = "idle" /\ nObj = 0 /\ l4Server = 0
  /\ portOwner = 0 /\ inbox = <<>> /\ wire = None
  /\ pc     = [t \in Obj |-> "dead"]
  /\ self   = [t \in Obj |-> 0]
  /\ msg    = [t \in Obj |-> None]
  /\ cancel = [t \in Obj |-> FALSE]
  /\ beamline = Junk /\ gain = NominalGain /\ SendInfo = Fresh
  /\ nReceivedEvents = 0 /\ runnumber = 0 /\ nEntries = 0
  /\ beamFile \in BeamFiles /\ gainFile \in GainFiles

------------------------------------------------------------------------------
NewServer_KeepsOld ==
  /\ beamline' = IF l4Server = 0 THEN Junk ELSE beamline
  /\ gain' \in ReadGain(gainFile)
  /\ SendInfo' = Fresh
  /\ nReceivedEvents' = 0 /\ runnumber' = 0 /\ nEntries' = 0

(* The constructor: setup, then the two files are read. *)
NewServer ==
  /\ beamline' \in ReadBeamline(beamFile)
  /\ gain' \in ReadGain(gainFile)
  /\ SendInfo' = Fresh
  /\ nReceivedEvents' = 0 /\ runnumber' = 0 /\ nEntries' = 0

(* run_start: a port somebody still holds makes bind fail, which is logged *)
(* and ignored by configureRun.                                            *)
Listen(o) == portOwner' = IF portOwner = 0 THEN o ELSE portOwner

CreateThread(t) ==
  /\ pc'   = [pc EXCEPT ![t] = "recv"]
  /\ self' = [self EXCEPT ![t] = t]
  /\ UNCHANGED <<msg, cancel>>

(* configureRun: delete the previous object, make a new one, listen, start *)
(* its thread.  Run control stops a run before it configures the next.     *)
ConfigureRun ==
  /\ rc = "idle" /\ nObj < MaxObj
  /\ rc' = "running" /\ nObj' = nObj + 1 /\ l4Server' = nObj + 1
  /\ NewServer
  /\ Listen(nObj + 1)
  /\ CreateThread(nObj + 1)
  /\ UNCHANGED <<inbox, wire, files>>

(* killThread, first half: pthread_cancel marks the thread made last.      *)
KillThread == cancel' = [cancel EXCEPT ![nObj] = TRUE]

Joined_NotWaited == TRUE

(* killThread, second half: pthread_join has returned.                     *)
Joined == pc[nObj] = "dead"

StopRun ==
  /\ rc = "running"
  /\ rc' = "stopping"
  /\ KillThread
  /\ UNCHANGED <<nObj, l4Server, net, pc, self, msg, members, files>>

(* CalibGainParameters with a fit that returned the scale s *)
CalibGainParameters(s) ==
  gainFile' = IF nEntries >= nTracksCutUpdatedEdxGainPara /\ s \in 91..109
              THEN Append(gainFile, [run |-> runnumber, gain |-> (gain * s) \div 100])
              ELSE gainFile

WriteBeamline == beamFile' = Append(beamFile, [run |-> runnumber, pos |-> beamline])

CloseSocket ==
  /\ portOwner' = IF portOwner = l4Server THEN 0 ELSE portOwner
  /\ inbox' = IF portOwner = l4Server THEN <<>> ELSE inbox

(* The rest of stopRun, run_stop(), on a thread that is gone.              *)
RunStop ==
  /\ rc = "stopping" /\ Joined
  /\ rc' = "idle"
  /\ \E s \in Scale : CalibGainParameters(s)
  /\ WriteBeamline
  /\ CloseSocket
  /\ UNCHANGED <<nObj, l4Server, wire, threads, members>>

(* restart(), called on a flush token: kill the thread of a run that was   *)
(* not stopped ...                                                         *)
Restart ==
  /\ rc = "running"
  /\ rc' = "flushing"
  /\ KillThread
  /\ UNCHANGED <<nObj, l4Server, net, pc, self, msg, members, files>>

(* ... delete the object without run_stop, and exit(1).  The next state is *)
(* that of the process started in its place.                               *)
Exit ==
  /\ \/ rc = "flushing" /\ Joined
     \/ rc = "idle" /\ l4Server # 0
  /\ rc' = "idle" /\ l4Server' = 0
  /\ portOwner' = 0 /\ inbox' = <<>>
  /\ pc' = [t \in Obj |-> "dead"] /\ self' = [t \in Obj |-> 0]
  /\ msg' = [t \in Obj |-> None] /\ cancel' = [t \in Obj |-> FALSE]
  /\ beamline' = Junk /\ gain' = NominalGain /\ SendInfo' = Fresh
  /\ nReceivedEvents' = 0 /\ runnumber' = 0 /\ nEntries' = 0
  /\ UNCHANGED <<nObj, wire, files>>

------------------------------------------------------------------------------
(* A datagram reaches the bound port; without one it is lost.              *)
Arrive(m) ==
  /\ portOwner # 0 /\ Len(inbox) < MaxInbox
  /\ inbox' = Append(inbox, m)
  /\ UNCHANGED <<ctrl, portOwner, wire, threads, members, files>>

(* run() returns, and the thread calls it again on the object l4Server     *)
(* points to now.                                                          *)
Again(t) ==
  /\ pc'   = [pc EXCEPT ![t] = "recv"]
  /\ self' = [self EXCEPT ![t] = l4Server]
  /\ msg'  = [msg EXCEPT ![t] = None]
  /\ UNCHANGED cancel

Goto(t, label) == pc' = [pc EXCEPT ![t] = label] /\ UNCHANGED <<self, msg, cancel>>

Receive(t) ==
  /\ pc[t] = "recv" /\ ~cancel[t]
  /\ self[t] = portOwner /\ inbox # <<>>
  /\ msg' = [msg EXCEPT ![t] = Head(inbox)]
  /\ inbox' = Tail(inbox)
  /\ pc' = [pc EXCEPT ![t] = "log"]
  /\ UNCHANGED <<ctrl, portOwner, wire, self, cancel, members, files>>

(* SO_RCVTIMEO: recvfrom gives up after ten seconds, run() returns 1.      *)
RecvTimeout(t) ==
  /\ pc[t] = "recv" /\ ~cancel[t]
  /\ self[t] = portOwner /\ inbox = <<>>
  /\ Again(t)
  /\ UNCHANGED <<ctrl, net, members, files>>

IsInit_AnyHeader(m) == TRUE

IsInit(m) == m.type = "INIT"

HandleInit(t) ==
  /\ pc[t] = "log" /\ IsInit(msg[t])
  /\ SendInfo' = [pos |-> beamline, gain |-> gain]
  /\ Goto(t, "reply")
  /\ UNCHANGED <<ctrl, net, beamline, gain, nReceivedEvents, runnumber, nEntries, files>>

(* The reply goes back to the address the request came from.               *)
ReplyTo_Broadcast(m) == "all"

ReplyTo(m) == m.from

SendReply(t) ==
  /\ pc[t] = "reply" /\ ~cancel[t]
  /\ wire' = [to |-> ReplyTo(msg[t]), by |-> self[t], data |-> SendInfo]
  /\ Again(t)
  /\ UNCHANGED <<ctrl, portOwner, inbox, members, files>>

(* The dE/dx histogram gets the tracks of a message with a sane count; how *)
(* full it is matters only up to the cut.                                  *)
FillHistogram(n) ==
  nEntries' = IF n \in 0..500 /\ nEntries < nTracksCutUpdatedEdxGainPara
              THEN nEntries + n ELSE nEntries

(* The guard at the call of updateBeamline, and the one inside.            *)
UpdatesBeamline(m) == m.v # 0 /\ m.npri > nTracksCutUpdateBeamline

NewBeamline(m) == IF UpdatesBeamline(m) THEN Blend(beamline, m.v) ELSE beamline

(* CALB writes the position into SendInfo, and only the position.          *)
SetSendInfo_Anew(p) == SendInfo' = [Fresh EXCEPT !.pos = p]

SetSendInfo(p) == SendInfo' = [SendInfo EXCEPT !.pos = p]

(* The rest of run() for a CALB message whose run number is noted.         *)
ApplyCalb(t, m) ==
  /\ beamline' = NewBeamline(m)
  /\ SetSendInfo(NewBeamline(m))
  /\ nReceivedEvents' = nReceivedEvents + 1
  /\ IF (nReceivedEvents + 1) % BroadcastEvery = 0 THEN Goto(t, "bcast") ELSE Again(t)

(* A track count outside 0..500 is logged before the vertex is looked at:  *)
(* the thread may end there, with the run number of the message and none   *)
(* of the rest.                                                            *)
HandleCalb(t) ==
  LET m == msg[t] IN
  /\ pc[t] = "log" /\ m.type = "CALB"
  /\ runnumber' = m.run
  /\ FillHistogram(m.nMip)
  /\ IF m.nMip \in 0..500
     THEN ApplyCalb(t, m)
     ELSE Goto(t, "mip") /\ UNCHANGED <<beamline, SendInfo, nReceivedEvents>>
  /\ UNCHANGED <<ctrl, net, gain, files>>

ResumeCalb(t) ==
  /\ pc[t] = "mip"
  /\ ApplyCalb(t, msg[t])
  /\ UNCHANGED <<ctrl, net, gain, runnumber, nEntries, files>>

Broadcast(t) ==
  /\ pc[t] = "bcast" /\ ~cancel[t]
  /\ wire' = [to |-> "all", by |-> self[t], data |-> SendInfo]
  /\ nReceivedEvents' = 0
  /\ Again(t)
  /\ UNCHANGED <<ctrl, portOwner, inbox, beamline, gain, SendInfo, runnumber, nEntries, files>>

Cancelled_OnlySending(t) ==
  /\ pc[t] \in {"reply", "bcast"} /\ cancel[t]
  /\ pc' = [pc EXCEPT ![t] = "dead"]
  /\ self' = [self EXCEPT ![t] = 0]
  /\ msg' = [msg EXCEPT ![t] = None]
  /\ cancel' = [cancel EXCEPT ![t] = FALSE]
  /\ UNCHANGED <<ctrl, net, members, files>>

(* A pending cancellation acts where the thread waits or is about to call; *)
(* whatever message it had taken is dropped.                               *)
Cancelled(t) ==
  /\ pc[t] # "dead" /\ cancel[t]
  /\ pc' = [pc EXCEPT ![t] = "dead"]
  /\ self' = [self EXCEPT ![t] = 0]
  /\ msg' = [msg EXCEPT ![t] = None]
  /\ cancel' = [cancel EXCEPT ![t] = FALSE]
  /\ UNCHANGED <<ctrl, net, members, files>>

------------------------------------------------------------------------------
RunControl == ConfigureRun \/ StopRun \/ RunStop \/ Restart \/ Exit

NetworkThread(t) ==
  \/ Receive(t) \/ RecvTimeout(t)
  \/ HandleInit(t) \/ SendReply(t)
  \/ HandleCalb(t) \/ ResumeCalb(t) \/ Broadcast(t)
  \/ Cancelled(t)

ServerNext == RunControl \/ \E t \in Obj : NetworkThread(t)

Next == ServerNext \/ \E m \in Msg : Arrive(m)

(* The thread loops for ever and the kernel schedules it; run control      *)
(* finishes a stop it has begun.                                           *)
Fairness == /\ \A t \in Obj : WF_vars(NetworkThread(t))
            /\ WF_vars(RunStop)
            /\ WF_vars(rc = "flushing" /\ Exit)

Spec     == Init /\ [][Next]_vars
LiveSpec == Spec /\ Fairness

------------------------------------------------------------------------------
(* Every variable keeps to the values its C++ counterpart can hold.        *)
TypeOK ==
  /\ rc \in {"idle", "running", "stopping", "flushing"}
  /\ nObj \in 0..MaxObj /\ l4Server \in 0..MaxObj /\ portOwner \in 0..MaxObj
  /\ inbox \in Seq(Msg)
  /\ wire \in Datagram \cup {None}
  /\ pc \in [Obj -> {"recv", "log", "mip", "reply", "bcast", "dead"}]
  /\ self \in [Obj -> 0..MaxObj]
  /\ msg \in [Obj -> Msg \cup {None}]
  /\ cancel \in [Obj -> BOOLEAN]
  /\ \A t \in Obj : pc[t] = "reply" => msg[t] \in InitMsg
  /\ \A t \in Obj : pc[t] = "mip" => msg[t] \in CalbMsg
  /\ beamline \in Position /\ gain \in Gain /\ SendInfo \in CaliResult
  /\ nReceivedEvents \in Nat /\ runnumber \in Nat /\ nEntries \in Nat
  /\ beamFile \in Seq(BeamLine) /\ gainFile \in Seq(GainLine)

(* The life of a run: only the thread of the newest object is ever alive,  *)
(* and only between configureRun and the end of stopRun or restart; during *)
(* that time its object is the one l4Server points to and holds the port,  *)
(* and outside it nobody holds the port.  Inductive; the three invariants  *)
(* about threads and sockets follow from it.                               *)
Lifecycle ==
  /\ \A t \in Obj : pc[t] # "dead" => rc # "idle" /\ t = nObj /\ self[t] = l4Server
  /\ rc # "idle" => l4Server = nObj /\ nObj # 0 /\ portOwner = nObj
  /\ rc = "idle" => portOwner = 0 /\ inbox = <<>>

(* A network thread that is still alive runs the object l4Server points    *)
(* to: configureRun and restart never delete an object a thread is inside  *)
(* of, although stopRun leaves the pointer in place.                       *)
NoUseAfterDelete ==
  \A t \in Obj : pc[t] # "dead" => self[t] = l4Server /\ l4Server # 0

(* Every run hears its clients: the bind of run_start, whose failure       *)
(* configureRun does not look at, never meets a port an earlier run holds. *)
Listening == rc = "running" => portOwner = l4Server

(* No position the server holds or has written lies outside the span of    *)
(* the readers' window and the vertices reported to it, over any number of *)
(* runs, averages and trips through the file.                              *)
Within(p) ==
  p # Junk => \E a, b \in (PosLo..PosHi) \cup Vertex : a <= p /\ p <= b
BeamlineWithinSpan == Within(beamline)

(* A new run may be off by 10% of the nominal gain and no more, although   *)
(* every stop may write a line 10% away from the gain of its run.          *)
GainWithinTenPercent == gain \in 90..110

(* Threads, objects, port and calibration of a server, for run control     *)
(* that stops, flushes and starts runs at any point of the network thread. *)
Safety ==
  /\ Lifecycle /\ NoUseAfterDelete /\ Listening
  /\ BeamlineWithinSpan /\ GainWithinTenPercent

(* Once a server object has sent real gains it never sends unwritten ones. *)
GainsStayWritten ==
  [][(/\ wire # None /\ wire'.by = wire.by
      /\ wire.data.gain # Junk) => wire'.data.gain # Junk]_wire

(* The two files are appended to only while no thread can touch the        *)
(* members they are written from, one beam line at a time.                 *)
FilesWrittenAlone ==
  [][/\ \A t \in Obj : pc[t] = "dead"
     /\ Len(beamFile') = Len(beamFile) + 1
     /\ \A i \in 1..Len(beamFile) : beamFile'[i] = beamFile[i]]_files

(* What leaves the server, in files and in datagrams.                      *)
WritesSound == FilesWrittenAlone /\ GainsStayWritten

(* The server implements the store of beam lines, which learns from whole  *)
(* messages while the thread of the run lives and writes what it has when  *)
(* that thread is gone; of the message a stop fell on it may have taken    *)
(* the run number alone.                                                   *)
On == rc # "idle"
Store == INSTANCE CalibStore WITH
           Unset <- Junk, Recall <- ReadBeamline, Average <- Blend,
           phase <- IF ~On THEN "off" ELSE IF pc[nObj] = "dead" THEN "closed" ELSE "on",
           half  <- \E t \in Obj : pc[t] = "mip",
           value <- IF On THEN beamline ELSE Junk,
           run   <- IF On THEN runnumber ELSE 0,
           store <- beamFile
ImplementsStore == Store!StoreSpec

(* stopRun and restart return: the thread they join always reaches a call  *)
(* that acts on the cancellation.                                          *)
StopEnds == rc \in {"stopping", "flushing"} ~> rc = "idle"

(* A node whose INIT was queued gets its reply, unless the run ends first. *)
InitServed ==
  \A c \in Client :
    (\E i \in 1..Len(inbox) : inbox[i] = [type |-> "INIT", from |-> c])
      ~> (rc # "running" \/ (wire # None /\ wire.to = c))

(* What run control and the nodes may count on.                            *)
Answers == StopEnds /\ InitServed
=============================================================================
