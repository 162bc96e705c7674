------------------------------ MODULE CaliClient ------------------------------
(***************************************************************************)
(* The calibration client of a node.  Three kinds of threads use the       *)
(* singleton hltCaliClient: the decider task (INIT at every sendConfig, a  *)
(* CALB for every event), the receive thread its init() creates, and the   *)
(* event tasks, which copy the stored result at the start of every event.  *)
(* GetInstance takes no lock, so its steps are actions of their own; the   *)
(* struct assignments under caliResultMux are two steps each.              *)
(*                                                                         *)
(* A result is the position and the gains of the n-th datagram the server  *)
(* sent; 0 stands for memory nobody has written.  Datagrams are lost,      *)
(* duplicated and reordered.  An object is named after the thread that     *)
(* constructed it: no thread constructs two (MakesOnce).                   *)
(***************************************************************************)
EXTENDS Naturals, Sequences

CONSTANTS
  Worker,     \* the event tasks (L4HLTTask_cpu) of the process
  MaxSent,    \* bound: datagrams the server sends to this node
  MaxQueue,   \* bound: datagrams queued in a socket
  MaxRun      \* bound: runs

ASSUME ClientAssumption ==
  /\ Worker \cap {"recv", "main", "null"} = {}
  /\ MaxSent \in Nat /\ MaxQueue \in Nat /\ MaxRun \in Nat

Thread == {"recv", "main"} \cup Worker

VARIABLES
  (* run control *)
  nRun,        \* runs configured so far
  job,         \* what the decider thread is about to send: "none", "INIT", "CALB"
  (* class hltCaliClient *)
  instance,    \* the static pointer: an object, or "null"
  made,        \* objects constructed
  portOwner,   \* the object whose bind to udp_client_port succeeded, or "null"
  sockbuf,     \* datagrams queued in the socket of each object
  mux,         \* who holds caliResultMux of each object, or "null"
  caliResult,  \* caliResult of each object
  (* threads *)
  pc, this,
  buf,         \* recvbuf; hlt_cfg.hltInitCaliData of a worker
  applied,     \* the calibration in a worker's tracker and event store
  (* the server, seen from here *)
  nSent,       \* datagrams it has sent to this node
  asked,       \* objects an INIT was sent from
  posted       \* what it sent, and to which socket

object == <<instance, made, portOwner, sockbuf, mux, caliResult>>
thread == <<pc, this, buf, applied>>
server == <<nSent, asked, posted>>
vars   == <<nRun, job, object, thread, server>>

Blank    == [pos |-> 0, gain |-> 0]
Whole(n) == [pos |-> n, gain |-> n]
Result   == [pos : 0..MaxSent, gain : 0..MaxSent]
Datagram == [to : Thread, data : {Whole(n) : n \in 1..MaxSent}]

Init ==
  /\ nRun = 0 /\ job = "none"
  /\ instance = "null" /\ made = {} /\ portOwner = "null"
  /\ sockbuf    = [o \in Thread |-> <<>>]
  /\ mux        = [o \in Thread |-> "null"]
  /\ caliResult = [o \in Thread |-> Blank]
  /\ pc      \in {[t \in Thread |-> IF t = "recv" THEN p ELSE "idle"] : p \in {"get", "dead"}}
  /\ this    = [t \in Thread |-> "null"]
  /\ buf     = [t \in Thread |-> Blank]
  /\ applied = [w \in Worker |-> Blank]
  /\ nSent = 0 /\ asked = {} /\ posted = {}

------------------------------------------------------------------------------
Goto(t, label) == pc' = [pc EXCEPT ![t] = label]

(* Where a thread goes once GetInstance has returned.                      *)
Entry(t) == IF t = "recv" THEN "recvfrom" ELSE IF t = "main" THEN "send" ELSE "lock"

Unmade_Always(t) == TRUE

(* GetInstance: the test of the static pointer ...                         *)
Unmade(t) == instance = "null"

Check(t) ==
  /\ pc[t] = "get"
  /\ IF Unmade(t)
     THEN Goto(t, "new") /\ UNCHANGED this
     ELSE Goto(t, Entry(t)) /\ this' = [this EXCEPT ![t] = instance]
  /\ UNCHANGED <<nRun, job, object, buf, applied, server>>

(* ... the constructor, whose bind fails, and only logs it, when another   *)
(* object has the port ...                                                 *)
Construct(t) ==
  /\ pc[t] = "new"
  /\ made' = made \cup {t}
  /\ portOwner' = IF portOwner = "null" THEN t ELSE portOwner
  /\ caliResult' = [caliResult EXCEPT ![t] = Blank]
  /\ sockbuf' = [sockbuf EXCEPT ![t] = <<>>]
  /\ mux' = [mux EXCEPT ![t] = "null"]
  /\ Goto(t, "assign")
  /\ UNCHANGED <<nRun, job, instance, this, buf, applied, server>>

(* ... the assignment, and the return of the pointer: the one just written *)
(* or, if it is read again, whatever another thread has put there since.   *)
Assign(t) ==
  /\ pc[t] = "assign"
  /\ instance' = t
  /\ Goto(t, "ret")
  /\ UNCHANGED <<nRun, job, made, portOwner, sockbuf, mux, caliResult, this, buf, applied, server>>

Return(t) ==
  /\ pc[t] = "ret"
  /\ \E o \in {t, instance} : this' = [this EXCEPT ![t] = o]
  /\ Goto(t, Entry(t))
  /\ UNCHANGED <<nRun, job, object, buf, applied, server>>

GetInstance(t) == Check(t) \/ Construct(t) \/ Assign(t) \/ Return(t)

------------------------------------------------------------------------------
(* Run control configures the next run when no event is being handled: the *)
(* event tasks clear hlt_cfg and make new trackers, the decider asks the   *)
(* server for initial values.                                              *)
SendConfig ==
  /\ nRun < MaxRun
  /\ \A t \in Thread \ {"recv"} : pc[t] = "idle"
  /\ nRun' = nRun + 1
  /\ job' = "INIT"
  /\ Goto("main", "get")
  /\ buf' = [t \in Thread |-> IF t \in Worker THEN Blank ELSE buf[t]]
  /\ applied' = [w \in Worker |-> Blank]
  /\ UNCHANGED <<object, this, server>>

(* SendInitRequest: once, whatever becomes of it.                          *)
SendInitRequest ==
  /\ pc["main"] = "send" /\ job = "INIT"
  /\ asked' = asked \cup {this["main"]}
  /\ job' = "none"
  /\ Goto("main", "idle")
  /\ UNCHANGED <<nRun, object, this, buf, applied, nSent, posted>>

(* decide(): the event a worker has finished is reported.                  *)
Decide(w) ==
  /\ pc["main"] = "idle" /\ pc[w] = "finished"
  /\ pc' = [pc EXCEPT !["main"] = "get", ![w] = "idle"]
  /\ job' = "CALB"
  /\ UNCHANGED <<nRun, object, this, buf, applied, server>>

SendCaliData ==
  /\ pc["main"] = "send" /\ job = "CALB"
  /\ job' = "none"
  /\ Goto("main", "idle")
  /\ UNCHANGED <<nRun, object, this, buf, applied, server>>

------------------------------------------------------------------------------
(* Run control starts events only after every sendConfig has returned.     *)
Configured == nRun # 0 /\ job # "INIT"

Process(w) ==
  /\ Configured /\ pc[w] = "idle"
  /\ Goto(w, "get")
  /\ UNCHANGED <<nRun, job, object, this, buf, applied, server>>

(* RecvCaliResult, before the lock.                                        *)
RecvFrom ==
  /\ pc["recv"] = "recvfrom"
  /\ sockbuf[this["recv"]] # <<>>
  /\ buf' = [buf EXCEPT !["recv"] = Head(sockbuf[this["recv"]])]
  /\ sockbuf' = [sockbuf EXCEPT ![this["recv"]] = Tail(@)]
  /\ Goto("recv", "lock")
  /\ UNCHANGED <<nRun, job, instance, made, portOwner, mux, caliResult, this, applied, server>>

(* recvfrom returned an error or an empty datagram.                        *)
RecvFails ==
  /\ pc["recv"] = "recvfrom"
  /\ Goto("recv", "get")
  /\ UNCHANGED <<nRun, job, object, this, buf, applied, server>>

Free_Always(t) == TRUE

Free(t) == mux[this[t]] = "null"

TakeMux(t) ==
  /\ pc[t] = "lock" /\ Free(t)
  /\ mux' = [mux EXCEPT ![this[t]] = t]
  /\ Goto(t, "copy")
  /\ UNCHANGED <<nRun, job, instance, made, portOwner, sockbuf, caliResult, this, buf, applied, server>>

(* One member of the assignment of the structs: from recvbuf to caliResult *)
(* in the receive thread, from caliResult to hlt_cfg in a worker.          *)
WithGain_Adds(old, new) == [pos |-> old.pos, gain |-> old.gain + new.gain]

WithPos(old, new)  == [pos |-> new.pos, gain |-> old.gain]
WithGain(old, new) == [pos |-> old.pos, gain |-> new.gain]

Assigned(t) == IF t = "recv" THEN caliResult[this[t]] ELSE buf[t]
Assigning(t) == IF t = "recv" THEN buf[t] ELSE caliResult[this[t]]

CopyMember(t, value) ==
  /\ IF t = "recv"
     THEN caliResult' = [caliResult EXCEPT ![this[t]] = value] /\ UNCHANGED buf
     ELSE buf' = [buf EXCEPT ![t] = value] /\ UNCHANGED caliResult
  /\ UNCHANGED <<nRun, job, instance, made, portOwner, sockbuf, mux, this, applied, server>>

CopyPos(t) ==
  /\ pc[t] = "copy"
  /\ CopyMember(t, WithPos(Assigned(t), Assigning(t)))
  /\ Goto(t, "copy2")

CopyGain(t) ==
  /\ pc[t] = "copy2"
  /\ CopyMember(t, WithGain(Assigned(t), Assigning(t)))
  /\ Goto(t, "unlock")

Released_Never(t) == mux

Released(t) == [mux EXCEPT ![this[t]] = "null"]

GiveMux(t) ==
  /\ pc[t] = "unlock"
  /\ mux' = Released(t)
  /\ Goto(t, IF t = "recv" THEN "get" ELSE "apply")
  /\ UNCHANGED <<nRun, job, instance, made, portOwner, sockbuf, caliResult, this, buf, applied, server>>

(* process() gives the copy to the tracker and the event store of its own  *)
(* task and reconstructs the event with it; finish() follows.              *)
Apply(w) ==
  /\ pc[w] = "apply"
  /\ applied' = [applied EXCEPT ![w] = buf[w]]
  /\ Goto(w, "finished")
  /\ UNCHANGED <<nRun, job, object, this, buf, server>>

------------------------------------------------------------------------------
Post(o) ==
  /\ nSent < MaxSent
  /\ nSent' = nSent + 1
  /\ posted' = posted \cup {[to |-> o, data |-> Whole(nSent + 1)]}
  /\ UNCHANGED <<nRun, job, object, thread, asked>>

(* The server replies to the socket an INIT came from (any number of       *)
(* times: the INIT may have been duplicated) ...                           *)
Reply == \E o \in asked : Post(o)

(* ... and broadcasts to udp_client_port.                                  *)
Broadcast == portOwner # "null" /\ Post(portOwner)

(* A datagram arrives, the first time or again.                            *)
Deliver(d) ==
  /\ Len(sockbuf[d.to]) < MaxQueue
  /\ sockbuf' = [sockbuf EXCEPT ![d.to] = Append(@, d.data)]
  /\ UNCHANGED <<nRun, job, instance, made, portOwner, mux, caliResult, thread, server>>

------------------------------------------------------------------------------
Copying(t) == TakeMux(t) \/ CopyPos(t) \/ CopyGain(t) \/ GiveMux(t)

threadFuncCaliReceive ==
  GetInstance("recv") \/ RecvFrom \/ RecvFails \/ Copying("recv")

Decider ==
  \/ SendConfig \/ (\E w \in Worker : Decide(w))
  \/ GetInstance("main") \/ SendInitRequest \/ SendCaliData

EventTask(w) == Process(w) \/ GetInstance(w) \/ Copying(w) \/ Apply(w)

Network == Reply \/ Broadcast \/ \E d \in posted : Deliver(d)

Next ==
  \/ threadFuncCaliReceive \/ Decider
  \/ \E w \in Worker : EventTask(w)
  \/ Network

(* A thread that can run is eventually run.                                *)
Fairness == WF_vars(threadFuncCaliReceive) /\ \A w \in Worker : WF_vars(EventTask(w))

Spec     == Init /\ [][Next]_vars
LiveSpec == Spec /\ Fairness

------------------------------------------------------------------------------
Labels == {"idle", "dead", "get", "new", "assign", "ret", "recvfrom", "send",
           "lock", "copy", "copy2", "unlock", "apply", "finished"}

(* Every variable keeps to the values its C++ counterpart can hold.        *)
TypeOK ==
  /\ nRun \in Nat /\ job \in {"none", "INIT", "CALB"}
  /\ instance \in Thread \cup {"null"}
  /\ made \subseteq Thread /\ portOwner \in Thread \cup {"null"}
  /\ sockbuf \in [Thread -> Seq(Result)]
  /\ mux \in [Thread -> Thread \cup {"null"}]
  /\ caliResult \in [Thread -> Result]
  /\ pc \in [Thread -> Labels]
  /\ this \in [Thread -> Thread \cup {"null"}]
  /\ buf \in [Thread -> Result]
  /\ applied \in [Worker -> Result]
  /\ nSent \in 0..MaxSent
  /\ asked \subseteq Thread
  /\ posted \subseteq Datagram

(* No thread constructs a second object, and a worker constructs none:     *)
(* events start after the decider has been through GetInstance.            *)
MakesOnce ==
  /\ made \subseteq {"recv", "main"}
  /\ \A t \in Thread : pc[t] = "new" => t \notin made

(* The assignments of RecvCaliResult and CopyCaliResult exclude each other *)
(* on every object.                                                        *)
Critical(t) == pc[t] \in {"copy", "copy2", "unlock"}
MutualExclusion ==
  \A s, t \in Thread : s # t /\ Critical(s) /\ Critical(t) => this[s] # this[t]

(* A worker reconstructs with the position and the gains of one result,    *)
(* never with a mixture of two (RecvCaliResult against CopyCaliResult).    *)
NoTornResult == \A w \in Worker : applied[w].pos = applied[w].gain

(* What GetInstance and caliResultMux are there for: no object is made     *)
(* twice, nobody is alone with half of a result, nobody uses one.          *)
Safety == MakesOnce /\ MutualExclusion /\ NoTornResult

(* A worker that has used a result of the server never goes back to memory *)
(* nobody has written while the run lasts, although the pointer it reads   *)
(* may still change under it.                                              *)
NeverForgets ==
  [][\A w \in Worker : applied[w] # Blank /\ nRun' = nRun => applied'[w] # Blank]_vars

(* What the mutex makes of the two structs: a store takes effect with its  *)
(* first member, a copy too; nobody can look at the rest.                  *)
Stored == [o \in Thread |-> IF pc["recv"] = "copy2" /\ this["recv"] = o
                            THEN buf["recv"] ELSE caliResult[o]]
Copied == [w \in Worker |-> IF pc[w] = "copy2" THEN caliResult[this[w]] ELSE buf[w]]

(* RecvCaliResult and CopyCaliResult implement cells that are stored and   *)
(* copied as a whole.                                                      *)
Cell == INSTANCE CaliCell WITH Object <- Thread, cell <- Stored, copy <- Copied
ImplementsCell == Cell!CellSpec

(* Whoever takes the mutex gives it back: RecvCaliResult holds it only     *)
(* after recvfrom has returned.                                            *)
MuxReleased == \A o \in Thread : mux[o] # "null" ~> mux[o] = "null"

(* The mutex keeps no worker waiting, and once calibrated a worker stays so. *)
Serves == MuxReleased /\ NeverForgets
=============================================================================
