---------------------------- MODULE TofTask_proofs ----------------------------
(***************************************************************************)
(* Theorems about TofTask, for any boards, words and number of instances:  *)
(* the memory is with one side at a time, so that the task reads the words *)
(* of its event, and an event goes to the instance that its token names;   *)
(* the walk along the lists of edges finds hits of the event only, and all *)
(* of them if each board brings its edges in order.                        *)
(***************************************************************************)
EXTENDS TofTask, TLAPS, FiniteSetTheorems, SequenceTheorems, WellFoundedInduction

Commands == {"none", "DAQ_SEND_CONFIG", "DAQ_RUN_START", "DAQ_RUN_STOP", "DET_START_SL3"}
Message  == [cmd : Commands, token : 0..LastToken, len : Event, truth : Event, run : Nat]

LEMMA TokenRange == LastToken \in Nat /\ 0 \in 0..LastToken /\ 1 \in 1..LastToken
<1>1. LastToken \in Nat \ {0}
  BY TaskAssumption, Zenon
<1> QED
  BY <1>1

LEMMA NoEventIsEvent == NoEvent \in Event /\ \A r \in Rdos : NoEvent[r] = << >>
<1>1. << >> \in Words
  BY DEF Words
<1> QED
  BY <1>1 DEF NoEvent, Event

LEMMA NoMsgIsMessage == NoMsg \in Message
<1>1. NoEvent \in Event /\ 0 \in Nat /\ 0 \in 0..LastToken /\ "none" \in Commands
  BY NoEventIsEvent, TokenRange DEF Commands
<1> HIDE DEF NoEvent
<1> QED
  BY <1>1 DEF NoMsg, Message

LEMMA OrderIsMessage ==
  ASSUME NEW cmd \in Commands, NEW run \in Nat
  PROVE  Order(cmd, run) \in Message /\ Order(cmd, run).cmd = cmd
BY NoEventIsEvent, TokenRange DEF Order, NoMsg, Message

------------------------------------------------------------------------------
(* The queue.                                                              *)
Events(q) == {i \in 1..Len(q) : q[i].cmd = "DET_START_SL3"}

LEMMA AppendOrder ==
  ASSUME NEW q \in Seq(Message), NEW m \in Message, m.cmd # "DET_START_SL3"
  PROVE  /\ Append(q, m) \in Seq(Message) /\ Events(Append(q, m)) = Events(q)
         /\ \A i \in Events(q) : Append(q, m)[i] = q[i]
<1>1. Append(q, m) \in Seq(Message) /\ Len(Append(q, m)) = Len(q) + 1 /\ Len(q) \in Nat
      /\ Append(q, m)[Len(q) + 1] = m /\ \A i \in 1..Len(q) : Append(q, m)[i] = q[i]
  OBVIOUS
<1> QED
  BY <1>1 DEF Events

LEMMA AppendEvent ==
  ASSUME NEW q \in Seq(Message), NEW m \in Message, m.cmd = "DET_START_SL3", Events(q) = {}
  PROVE  /\ Append(q, m) \in Seq(Message) /\ Events(Append(q, m)) = {Len(q) + 1}
         /\ Append(q, m)[Len(q) + 1] = m
<1>1. Append(q, m) \in Seq(Message) /\ Len(Append(q, m)) = Len(q) + 1 /\ Len(q) \in Nat
      /\ Append(q, m)[Len(q) + 1] = m /\ \A i \in 1..Len(q) : Append(q, m)[i] = q[i]
  OBVIOUS
<1> QED
  BY <1>1 DEF Events

LEMMA TakeHead ==
  ASSUME NEW q \in Seq(Message), q # << >>
  PROVE  /\ Head(q) \in Message /\ Tail(q) \in Seq(Message)
         /\ Head(q).cmd = "DET_START_SL3" => 1 \in Events(q) /\ Head(q) = q[1]
         /\ \A i \in Events(Tail(q)) : i \in Nat /\ i >= 1 /\ i + 1 \in Events(q) /\ Tail(q)[i] = q[i + 1]
<1>1. Head(q) = q[1] /\ Head(q) \in Message /\ Tail(q) \in Seq(Message) /\ Len(Tail(q)) = Len(q) - 1
      /\ Len(q) \in Nat /\ Len(q) >= 1 /\ \A i \in 1..Len(Tail(q)) : Tail(q)[i] = q[i + 1]
  OBVIOUS
<1> QED
  BY <1>1 DEF Events

------------------------------------------------------------------------------
(* The memory holds the words of e.                                        *)
Holds(e) == \A r \in Rdos : SubSeq(shared_mem[r], 1, Len(e[r])) = e[r]

Shapes ==
  /\ que \in Seq(Message) /\ sem \in 0..1 /\ token \in 1..LastToken
  /\ event \in Event /\ shared_mem \in Event /\ msg \in Message
  /\ nRuns \in Nat

(* What the broker has copied so far, what is queued and what is read is   *)
(* in the memory.                                                          *)
Written ==
  /\ broker = "filling" => Holds(event)
  /\ \A i \in Queued : que[i].len = que[i].truth /\ Holds(que[i].truth)
  /\ task = "reading" => msg.len = msg.truth /\ Holds(msg.truth)

MemInv == Shapes /\ OneHolder /\ Written

LEMMA QueuedIsEvents == Queued = Events(que)
BY DEF Queued, Events

LEMMA MemInit == Init => MemInv
<1> SUFFICES ASSUME Init PROVE MemInv
  OBVIOUS
<1>2. Shapes
  BY NoMsgIsMessage, NoEventIsEvent, TokenRange DEF Init, Shapes
<1>3. Queued = {}
  BY DEF Init, Queued
<1> QED
  BY <1>2, <1>3 DEF Init, OneHolder, Written, MemInv

(* The orders of run control are no events.                                *)
LEMMA ControlStep ==
  ASSUME MemInv, SendConfig \/ SendStop
  PROVE  MemInv'
<1> DEFINE config == Order("DAQ_SEND_CONFIG", 0)
           start  == Order("DAQ_RUN_START", nRuns + 1)
           stop   == Order("DAQ_RUN_STOP", 0)
<1>1. nRuns \in Nat /\ que \in Seq(Message)
  BY DEF MemInv, Shapes
<1>2. /\ config \in Message /\ config.cmd # "DET_START_SL3"
      /\ start \in Message /\ start.cmd # "DET_START_SL3"
      /\ stop \in Message /\ stop.cmd # "DET_START_SL3"
  <2>1. nRuns + 1 \in Nat
    BY <1>1
  <2>2. config \in Message /\ config.cmd = "DAQ_SEND_CONFIG"
    BY OrderIsMessage DEF Commands
  <2>3. start \in Message /\ start.cmd = "DAQ_RUN_START"
    BY <2>1, OrderIsMessage DEF Commands
  <2>4. stop \in Message /\ stop.cmd = "DAQ_RUN_STOP"
    BY OrderIsMessage DEF Commands
  <2> HIDE DEF config, start, stop
  <2> QED
    BY <2>2, <2>3, <2>4
<1>3. que' \in Seq(Message) /\ Events(que') = Events(que) /\ \A i \in Events(que) : que'[i] = que[i]
  <2>1. CASE SendStop
    BY <1>1, <1>2, <2>1, AppendOrder DEF SendStop
  <2>2. CASE SendConfig
    <3>1. que' = Append(Append(que, config), start)
      <4>1. que' = que \o <<config, start>>
        BY <2>2 DEF SendConfig
      <4> HIDE DEF config, start
      <4> QED
        BY <1>1, <1>2, <4>1
    <3> DEFINE q == Append(que, config)
    <3>2. q \in Seq(Message) /\ Events(q) = Events(que) /\ \A i \in Events(que) : q[i] = que[i]
      BY <1>1, <1>2, AppendOrder
    <3> HIDE DEF q, config, start
    <3>3. Append(q, start) \in Seq(Message) /\ Events(Append(q, start)) = Events(q)
          /\ \A i \in Events(q) : Append(q, start)[i] = q[i]
      BY <1>2, <3>2, AppendOrder
    <3> QED
      BY <3>1, <3>2, <3>3 DEF q
  <2> QED
    BY <2>1, <2>2
<1>4. UNCHANGED <<filling, sem, task, msg>> /\ nRuns' \in Nat
  BY <1>1 DEF SendConfig, SendStop
<1>5. Shapes'
  BY <1>3, <1>4 DEF Shapes, MemInv, filling
<1>6. Queued' = Queued /\ \A i \in Queued : que'[i] = que[i]
  BY <1>3 DEF Queued, Events
<1>7. OneHolder' /\ Written'
  BY <1>4, <1>6 DEF OneHolder, Written, Holds, filling, MemInv
<1> QED
  BY <1>5, <1>7 DEF MemInv

(* The words of a board are put over what was there, from the beginning.   *)
LEMMA PutFirst ==
  ASSUME NEW words \in Words, NEW old \in Words
  PROVE  LET put == words \o SubSeq(old, Len(words) + 1, Len(old))
         IN put \in Words /\ SubSeq(put, 1, Len(words)) = words
<1> DEFINE rest_ == SubSeq(old, Len(words) + 1, Len(old))
<1>1. rest_ \in Words
  <2>1. Len(words) \in Nat /\ Len(old) \in Nat
    BY DEF Words
  <2>2. CASE Len(words) <= Len(old)
    BY <2>1, <2>2, SubSeqProperties DEF Words
  <2>3. CASE Len(words) > Len(old)
    <3>1. rest_ = << >>
      BY <2>1, <2>3, SubSeqEmpty
    <3> QED
      BY <3>1 DEF Words
  <2> QED
    BY <2>1, <2>2, <2>3
<1> HIDE DEF rest_
<1>2. SubSeq(words \o rest_, 1, Len(words)) = words
  BY <1>1 DEF Words
<1>3. words \o rest_ \in Words
  BY <1>1 DEF Words
<1> QED
  BY <1>2, <1>3 DEF rest_

(* The broker copies while it alone has the memory.                        *)
LEMMA CopyStep ==
  ASSUME MemInv, NEW r \in Rdos, NEW words \in RdoData[r], CopyRdo(r, words)
  PROVE  MemInv'
<1> DEFINE put == words \o SubSeq(shared_mem[r], Len(words) + 1, Len(shared_mem[r]))
<1>1. words \in Words
  BY TaskAssumption
<1>2. /\ event \in [Rdos -> Words] /\ shared_mem \in [Rdos -> Words]
  BY DEF MemInv, Shapes, Event
<1>3. put \in Words /\ SubSeq(put, 1, Len(words)) = words
  BY <1>1, <1>2, PutFirst
<1> HIDE DEF put
<1>4. /\ broker = "filling" /\ broker' = "filling"
      /\ event' = [event EXCEPT ![r] = words] /\ shared_mem' = [shared_mem EXCEPT ![r] = put]
      /\ UNCHANGED <<nRuns, token, sem, que, task, msg>>
  BY DEF CopyRdo, put, control, rest
<1>5. Shapes'
  BY <1>1, <1>2, <1>3, <1>4 DEF Shapes, MemInv, Event
<1>6. Queued = {} /\ task # "reading"
  BY <1>4 DEF MemInv, OneHolder
<1>7. Queued' = Queued
  BY <1>4 DEF Queued
<1>8. OneHolder'
  BY <1>4, <1>7 DEF OneHolder, MemInv
<1>9. Holds(event)'
  <2>1. Holds(event)
    BY <1>4 DEF MemInv, Written
  <2> SUFFICES ASSUME NEW q \in Rdos
               PROVE  SubSeq(shared_mem'[q], 1, Len(event'[q])) = event'[q]
    BY DEF Holds
  <2>2. CASE q = r
    BY <1>2, <1>3, <1>4, <2>2
  <2>3. CASE q # r
    BY <1>2, <1>4, <2>1, <2>3 DEF Holds
  <2> QED
    BY <2>2, <2>3
<1>10. Written'
  BY <1>4, <1>6, <1>7, <1>9 DEF Written
<1> QED
  BY <1>5, <1>8, <1>10 DEF MemInv

(* It takes the memory when it is free and sends it on through the queue.  *)
LEMMA BrokerStep ==
  ASSUME MemInv, GetEvent \/ SemWait \/ SendEvent
  PROVE  MemInv'
<1>1. CASE GetEvent
  <2>1. broker = "idle" /\ broker' = "waiting"
        /\ UNCHANGED <<nRuns, token, event, shared_mem, sem, que, task, msg>>
    BY <1>1 DEF GetEvent, control, rest
  <2>2. Queued' = Queued
    BY <2>1 DEF Queued
  <2> QED
    BY <2>1, <2>2 DEF MemInv, Shapes, OneHolder, Written, Holds
<1>2. CASE SemWait
  <2>1. /\ sem > 0 /\ sem' = (IF sem > 0 THEN sem - 1 ELSE 0) /\ broker' = "filling"
        /\ event' = NoEvent
        /\ UNCHANGED <<nRuns, token, shared_mem, que, task, msg>>
    BY <1>2 DEF SemWait, CanTake, control, rest
  <2>2. sem = 1 /\ sem' = 0
    BY <2>1 DEF MemInv, Shapes
  <2>3. Queued = {} /\ Queued' = Queued /\ task # "reading"
    BY <2>1, <2>2 DEF MemInv, OneHolder, Queued
  <2>4. Shapes'
    BY <2>1, <2>2, NoEventIsEvent DEF MemInv, Shapes
  <2>5. Holds(event)'
    <3> SUFFICES ASSUME NEW q \in Rdos
                 PROVE  SubSeq(shared_mem'[q], 1, Len(event'[q])) = event'[q]
      BY DEF Holds
    <3>1. event'[q] = << >>
      BY <2>1, NoEventIsEvent
    <3>2. SubSeq(shared_mem'[q], 1, 0) = << >>
      BY SubSeqEmpty
    <3> QED
      BY <3>1, <3>2
  <2> QED
    BY <2>1, <2>2, <2>3, <2>4, <2>5 DEF MemInv, OneHolder, Written
<1>3. CASE SendEvent
  <2> DEFINE m == [cmd |-> "DET_START_SL3", token |-> token, len |-> event, truth |-> event, run |-> 0]
  <2>1. /\ broker = "filling" /\ broker' = "idle" /\ que' = Append(que, m)
        /\ token' = NextToken(token)
        /\ UNCHANGED <<nRuns, event, shared_mem, sem, task, msg>>
    BY <1>3 DEF SendEvent, control, rest
  <2>2. Queued = {} /\ task # "reading" /\ sem # 1 /\ Holds(event)
    BY <2>1 DEF MemInv, OneHolder, Written
  <2>3. m \in Message /\ m.cmd = "DET_START_SL3" /\ m.len = event /\ m.truth = event
    <3>1. token \in 0..LastToken /\ event \in Event /\ 0 \in Nat
      BY TokenRange DEF MemInv, Shapes
    <3> QED
      BY <3>1 DEF Message, Commands
  <2> HIDE DEF m
  <2>4. que' \in Seq(Message) /\ Queued' = {Len(que) + 1} /\ que'[Len(que) + 1] = m
    <3>1. que \in Seq(Message) /\ Events(que) = {}
      BY <2>2, QueuedIsEvents DEF MemInv, Shapes
    <3>2. Queued' = Events(que')
      BY DEF Queued, Events
    <3> QED
      BY <2>1, <2>3, <3>1, <3>2, AppendEvent
  <2>5. NextToken(token) \in 1..LastToken
    <3>1. token \in 1..LastToken /\ LastToken \in Nat
      BY TokenRange DEF MemInv, Shapes
    <3> QED
      BY <3>1 DEF NextToken
  <2>6. Shapes'
    BY <2>1, <2>4, <2>5 DEF MemInv, Shapes
  <2>7. OneHolder'
    BY <2>1, <2>2, <2>4 DEF OneHolder
  <2>8. Holds(event)' /\ m.truth' = event
    BY <2>1, <2>2, <2>3 DEF Holds, m
  <2>9. Written'
    BY <2>1, <2>2, <2>3, <2>4 DEF Written, Holds
  <2> QED
    BY <2>6, <2>7, <2>9 DEF MemInv
<1> QED
  BY <1>1, <1>2, <1>3

(* A message that the task takes from the queue.                           *)
LEMMA Received ==
  ASSUME MemInv, NEW cmd, Receives(cmd)
  PROVE  /\ que' \in Seq(Message) /\ Head(que) \in Message /\ Head(que).cmd = cmd
         /\ task = "receive"
         /\ cmd = "DET_START_SL3" =>
              /\ Queued # {} /\ Queued' = {}
              /\ Head(que).len = Head(que).truth /\ Holds(Head(que).truth)
         /\ Queued = {} => Queued' = {}
         /\ \A i, j \in Queued' : i = j
         /\ \A i \in Queued' : que'[i].len = que'[i].truth /\ Holds(que'[i].truth)
<1>1. task = "receive" /\ que # << >> /\ Head(que).cmd = cmd /\ que' = Tail(que)
  BY DEF Receives
<1>2. que \in Seq(Message)
  BY DEF MemInv, Shapes
<1>3. /\ Head(que) \in Message /\ Tail(que) \in Seq(Message)
      /\ Head(que).cmd = "DET_START_SL3" => 1 \in Queued /\ Head(que) = que[1]
      /\ \A i \in Events(Tail(que)) :
           i \in Nat /\ i >= 1 /\ i + 1 \in Queued /\ Tail(que)[i] = que[i + 1]
  BY <1>1, <1>2, TakeHead, QueuedIsEvents
<1>4. Queued' = Events(Tail(que))
  BY <1>1 DEF Queued, Events
<1>5. \A i, j \in Queued : i = j
  BY DEF MemInv, OneHolder
<1>6. \A i \in Queued : que[i].len = que[i].truth /\ Holds(que[i].truth)
  BY DEF MemInv, Written
<1>7. \A i, j \in Queued' : i = j
  <2> SUFFICES ASSUME NEW i \in Queued', NEW j \in Queued' PROVE i = j
    OBVIOUS
  <2>1. i \in Nat /\ j \in Nat /\ i + 1 = j + 1
    BY <1>3, <1>4, <1>5
  <2> QED
    BY <2>1
<1>8. cmd = "DET_START_SL3" => Queued # {} /\ Queued' = {}
  <2> SUFFICES ASSUME 1 \in Queued, NEW i \in Queued' PROVE FALSE
    BY <1>1, <1>3
  <2>1. i \in Nat /\ i >= 1 /\ i + 1 = 1
    BY <1>3, <1>4, <1>5
  <2> QED
    BY <2>1
<1>9. Queued = {} => Queued' = {}
  BY <1>3, <1>4
<1>10. cmd = "DET_START_SL3" => Head(que).len = Head(que).truth /\ Holds(Head(que).truth)
  BY <1>1, <1>3, <1>6
<1>11. \A i \in Queued' : que'[i].len = que'[i].truth /\ Holds(que'[i].truth)
  BY <1>1, <1>3, <1>4, <1>6
<1> QED
  BY <1>1, <1>3, <1>7, <1>8, <1>9, <1>10, <1>11

LEMMA TaskStep ==
  ASSUME MemInv, Task
  PROVE  MemInv'
<1> DEFINE kept == UNCHANGED <<nRuns, token, event, shared_mem, broker>>
<1>1. CASE DoConfig \/ DoRunStart \/ DoRunStop
  <2>1. kept /\ UNCHANGED <<sem, task, msg>>
    BY <1>1 DEF DoConfig, DoRunStart, DoRunStop, control, filling
  <2>2. PICK cmd : Receives(cmd)
    BY <1>1 DEF DoConfig, DoRunStart, DoRunStop
  <2>3. /\ que' \in Seq(Message) /\ task = "receive" /\ (Queued = {} => Queued' = {})
        /\ \A i, j \in Queued' : i = j
        /\ \A i \in Queued' : que'[i].len = que'[i].truth /\ Holds(que'[i].truth)
    BY <2>2, Received
  <2> QED
    BY <2>1, <2>3 DEF MemInv, Shapes, OneHolder, Written, Holds
<1>2. CASE CannotTrack
  <2>1. kept /\ UNCHANGED <<sem, task, msg>> /\ Receives("DET_START_SL3")
    BY <1>2 DEF CannotTrack, control, filling
  <2>2. que' \in Seq(Message) /\ task = "receive" /\ Queued' = {}
    BY <2>1, Received
  <2> QED
    BY <2>1, <2>2 DEF MemInv, Shapes, OneHolder, Written, Holds
<1>3. CASE StartTrack
  <2>1. /\ kept /\ UNCHANGED sem /\ Receives("DET_START_SL3")
        /\ task' = "reading" /\ msg' = Head(que)
    BY <1>3 DEF StartTrack, control, filling
  <2>2. /\ que' \in Seq(Message) /\ Head(que) \in Message
        /\ Queued # {} /\ Queued' = {}
        /\ Head(que).len = Head(que).truth /\ Holds(Head(que).truth)
    BY <2>1, Received
  <2>3. sem # 1 /\ broker # "filling"
    BY <2>2 DEF MemInv, OneHolder
  <2>4. Shapes'
    BY <2>1, <2>2 DEF MemInv, Shapes
  <2>5. OneHolder'
    BY <2>1, <2>2, <2>3 DEF OneHolder
  <2>6. Written'
    BY <2>1, <2>2, <2>3 DEF Written, Holds
  <2> QED
    BY <2>4, <2>5, <2>6 DEF MemInv
<1>4. CASE SemPost
  <2>1. /\ kept /\ UNCHANGED <<que, msg>> /\ task = "reading" /\ task' = "tracking"
        /\ sem' = sem + 1
    BY <1>4 DEF SemPost, Posted, control, filling
  <2>2. sem = 0 /\ sem' = 1 /\ broker # "filling" /\ Queued = {}
    BY <2>1 DEF MemInv, Shapes, OneHolder
  <2>3. Queued' = Queued
    BY <2>1 DEF Queued
  <2>4. Shapes'
    BY <2>1, <2>2 DEF MemInv, Shapes
  <2> QED
    BY <2>1, <2>2, <2>3, <2>4 DEF MemInv, OneHolder, Written
<1>5. CASE ReadRdo \/ TakeGroup \/ SkipTrailing \/ SkipLeading \/ EndEvent
           \/ DoSend \/ Remount \/ SendNone
  <2>1. kept /\ UNCHANGED <<sem, que, msg>> /\ (task' = "reading" => task = "reading")
    BY <1>5 DEF ReadRdo, TakeGroup, SkipTrailing, SkipLeading, EndEvent, DoSend, Remount, SendNone,
                whole, control, filling
  <2>2. Queued' = Queued
    BY <2>1 DEF Queued
  <2> QED
    BY <2>1, <2>2 DEF MemInv, Shapes, OneHolder, Written, Holds
<1> QED
  BY <1>1, <1>2, <1>3, <1>4, <1>5 DEF Task

LEMMA MemStep ==
  ASSUME MemInv, [Next]_vars
  PROVE  MemInv'
<1>1. CASE UNCHANGED vars
  <2>1. UNCHANGED <<nRuns, token, event, shared_mem, broker, sem, que, msg, task>>
    BY <1>1 DEF vars, control, filling
  <2>2. Queued' = Queued
    BY <2>1 DEF Queued
  <2> QED
    BY <2>1, <2>2 DEF MemInv, Shapes, OneHolder, Written, Holds
<1>2. CASE Broker
  BY <1>2, BrokerStep, CopyStep DEF Broker
<1> QED
  BY <1>1, <1>2, ControlStep, TaskStep DEF Next

(* The shared memory is free, with the broker, in the queue or with the    *)
(* task, never two of these, and the semaphore is never posted twice       *)
(* (sem_post in do_track, sem_wait in sender_thread).                      *)
THEOREM OneHoldsMemory == Spec => [](OneHolder /\ sem \in 0..1)
<1>1. MemInv => OneHolder /\ sem \in 0..1
  BY DEF MemInv, Shapes
<1> QED
  BY <1>1, MemInit, MemStep, PTL DEF Spec

(* What the task reads of a board is what the broker wrote for the event   *)
(* whose token it took from the queue.                                     *)
THEOREM TaskReadsOwnWords == Spec => []ReadsOwnWords
<1>1. MemInv => ReadsOwnWords
  BY DEF MemInv, Written, Holds, ReadsOwnWords
<1> QED
  BY <1>1, MemInit, MemStep, PTL DEF Spec

------------------------------------------------------------------------------
(* The instances, if all of them answered at the configuration.            *)
Mounts ==
  /\ mounted = [s \in Slots |-> mounted[s]]
  /\ skipped = {} => /\ gl3_num \in {0, GL3_MAX_TASKS}
                     /\ \A s \in Slots : mounted[s] \in {s, -1}

LEMMA TokensKept == MemInv /\ out_mem.token \in Nat /\ [Next]_vars => out_mem'.token \in Nat
<1> SUFFICES ASSUME MemInv, out_mem.token \in Nat, [Next]_vars
             PROVE  out_mem'.token \in Nat
  OBVIOUS
<1>1. msg.token \in Nat
  BY TokenRange DEF MemInv, Shapes, Message
<1>2. CASE SemPost
  BY <1>1, <1>2 DEF SemPost
<1>3. CASE TakeGroup
  <2>1. PICK h : out_mem' = [out_mem EXCEPT !.hits = h]
    BY <1>3 DEF TakeGroup
  <2> QED
    BY <2>1
<1>4. SendConfig \/ SendStop \/ Broker \/ UNCHANGED vars \/ DoConfig \/ DoRunStart \/ DoRunStop
        \/ CannotTrack \/ StartTrack \/ ReadRdo \/ SkipTrailing \/ SkipLeading \/ EndEvent
        \/ DoSend \/ Remount \/ SendNone
      => out_mem' = out_mem
  BY DEF SendConfig, SendStop, Broker, GetEvent, SemWait, CopyRdo, SendEvent, vars, DoConfig,
         DoRunStart, DoRunStop, CannotTrack, StartTrack, ReadRdo, SkipTrailing, SkipLeading,
         EndEvent, DoSend, Remount, SendNone, rest, whole
<1> QED
  BY <1>2, <1>3, <1>4 DEF Next, Task

LEMMA SomeInstance == GL3_MAX_TASKS \in Nat /\ GL3_MAX_TASKS >= 1 /\ 0 \in Slots
<1>1. GL3_MAX_TASKS \in Nat \ {0}
  BY TaskAssumption, Zenon
<1> QED
  BY <1>1 DEF Slots

(* The nth of all instances is n.                                          *)
LEMMA NthOfAll ==
  ASSUME NEW s \in Slots
  PROVE  /\ Cardinality(Slots) = GL3_MAX_TASKS
         /\ (CHOOSE i \in Slots : Cardinality({j \in Slots : j < i}) = s) = s
<1>1. \A i \in Slots : Cardinality({j \in Slots : j < i}) = i
  <2> TAKE i \in Slots
  <2>1. {j \in Slots : j < i} = 0..i - 1 /\ i \in Nat
    BY SomeInstance DEF Slots
  <2>2. Cardinality(0..i - 1) = IF 0 > i - 1 THEN 0 ELSE i - 1 - 0 + 1
    BY <2>1, FS_Interval
  <2>3. (IF 0 > i - 1 THEN 0 ELSE i - 1 - 0 + 1) = i
    BY <2>1
  <2> QED
    BY <2>1, <2>2, <2>3, Zenon
<1>2. Cardinality(Slots) = GL3_MAX_TASKS
  <2>1. GL3_MAX_TASKS \in Nat /\ GL3_MAX_TASKS >= 1
    BY SomeInstance
  <2>2. Cardinality(0..GL3_MAX_TASKS - 1)
          = IF 0 > GL3_MAX_TASKS - 1 THEN 0 ELSE GL3_MAX_TASKS - 1 - 0 + 1
    BY <2>1, FS_Interval
  <2> QED
    BY <2>1, <2>2 DEF Slots
<1>3. \A i \in Slots : Cardinality({j \in Slots : j < i}) = s <=> i = s
  BY <1>1
<1> QED
  BY <1>2, <1>3

LEMMA MountsInit == Init => Mounts
<1> SUFFICES ASSUME Init PROVE Mounts
  OBVIOUS
<1>1. mounted = [s \in Slots |-> -1] /\ gl3_num = 0
  BY DEF Init
<1> QED
  BY <1>1 DEF Mounts

LEMMA MountsStep ==
  ASSUME Mounts, [Next]_vars
  PROVE  Mounts'
<1>1. CASE DoConfig
  <2>1. PICK up \in SUBSET Slots :
          /\ mounted' = [s \in Slots |-> IF up = {} \/ s >= Cardinality(up) THEN -1
                                        ELSE CHOOSE i \in up : Cardinality({j \in up : j < i}) = s]
          /\ gl3_num' = Cardinality(up)
          /\ skipped' = Slots \ up
    BY <1>1 DEF DoConfig
  <2>2. mounted' = [s \in Slots |-> mounted'[s]]
    BY <2>1
  <2>3. ASSUME skipped' = {}
        PROVE  gl3_num' = GL3_MAX_TASKS /\ \A s \in Slots : mounted'[s] \in {s, -1}
    <3>1. up = Slots
      BY <2>1, <2>3
    <3>2. 0 \in Slots
      BY SomeInstance DEF Slots
    <3>3. gl3_num' = GL3_MAX_TASKS
      BY <2>1, <3>1, <3>2, NthOfAll
    <3>4. ASSUME NEW s \in Slots PROVE mounted'[s] \in {s, -1}
      <4>1. (CHOOSE i \in Slots : Cardinality({j \in Slots : j < i}) = s) = s
        BY NthOfAll
      <4>2. mounted'[s] = IF up = {} \/ s >= Cardinality(up) THEN -1
                          ELSE CHOOSE i \in up : Cardinality({j \in up : j < i}) = s
        BY <2>1
      <4> QED
        BY <3>1, <4>1, <4>2
    <3> QED
      BY <3>3, <3>4
  <2> QED
    BY <2>2, <2>3 DEF Mounts
<1>2. CASE DoRunStop
  <2>1. mounted' = [s \in Slots |-> -1] /\ gl3_num' = 0
    BY <1>2 DEF DoRunStop
  <2> QED
    BY <2>1 DEF Mounts
<1>3. CASE Remount
  <2>1. PICK ix : \E to \in {ix, -1} :
          mounted' = [mounted EXCEPT ![ix] = to] /\ UNCHANGED <<gl3_num, skipped>>
    BY <1>3 DEF Remount
  <2>2. PICK to \in {ix, -1} : mounted' = [mounted EXCEPT ![ix] = to]
    BY <2>1
  <2>3. mounted = [s \in Slots |-> mounted[s]]
    BY DEF Mounts
  <2>4. mounted' = [s \in Slots |-> mounted'[s]]
        /\ \A s \in Slots : mounted'[s] = IF s = ix THEN to ELSE mounted[s]
    BY <2>2, <2>3
  <2> QED
    BY <2>1, <2>2, <2>4 DEF Mounts
<1>4. SendConfig \/ SendStop \/ Broker \/ UNCHANGED vars \/ DoRunStart \/ CannotTrack \/ StartTrack
        \/ ReadRdo \/ SemPost \/ TakeGroup \/ SkipTrailing \/ SkipLeading \/ EndEvent \/ DoSend
        \/ SendNone
      => UNCHANGED links
  BY DEF SendConfig, SendStop, Broker, GetEvent, SemWait, CopyRdo, SendEvent, vars, DoRunStart,
         CannotTrack, StartTrack, ReadRdo, SemPost, TakeGroup, SkipTrailing, SkipLeading, EndEvent,
         DoSend, SendNone, rest, whole
<1>5. UNCHANGED links => Mounts'
  BY DEF links, Mounts
<1> QED
  BY <1>1, <1>2, <1>3, <1>4, <1>5 DEF Next, Task

(* Only DoSend writes a message.                                           *)
LEMMA SendsToToken ==
  ASSUME Mounts, out_mem.token \in Nat, [Next]_vars, sent' # sent, skipped = {}
  PROVE  sent'.to = sent'.event.token % GL3_MAX_TASKS
<1>1. SendConfig \/ SendStop \/ Broker \/ UNCHANGED vars \/ DoConfig \/ DoRunStart \/ DoRunStop
        \/ CannotTrack \/ StartTrack \/ ReadRdo \/ SemPost \/ TakeGroup \/ SkipTrailing
        \/ SkipLeading \/ EndEvent \/ Remount \/ SendNone
      => sent' = sent
  BY DEF SendConfig, SendStop, Broker, GetEvent, SemWait, CopyRdo, SendEvent, vars, DoConfig,
         DoRunStart, DoRunStop, CannotTrack, StartTrack, ReadRdo, SemPost, TakeGroup, SkipTrailing,
         SkipLeading, EndEvent, Remount, SendNone, rest, whole
<1>2. DoSend
  BY <1>1 DEF Next, Task
<1>3. /\ gl3_num > 0 /\ mounted[Choose(out_mem.token)] # -1
      /\ sent' = [to |-> mounted[Choose(out_mem.token)], event |-> out_mem]
  BY <1>2 DEF DoSend
<1>4. gl3_num = GL3_MAX_TASKS
  BY <1>3 DEF Mounts
<1>5. Choose(out_mem.token) \in Slots
  <2>1. GL3_MAX_TASKS \in Nat /\ GL3_MAX_TASKS >= 1
    BY SomeInstance
  <2>2. out_mem.token % GL3_MAX_TASKS \in 0..GL3_MAX_TASKS - 1
    BY <2>1
  <2> QED
    BY <1>4, <2>2 DEF Choose, Slots
<1>6. mounted[Choose(out_mem.token)] = Choose(out_mem.token)
  BY <1>3, <1>5 DEF Mounts
<1> QED
  BY <1>3, <1>4, <1>6 DEF Choose

(* Where every instance answered at the configuration, an event goes to    *)
(* the one of its token, whatever failed and was mounted again since       *)
(* (choose_gl3, do_send).                                                  *)
THEOREM RoutedByToken == Spec => Routed
<1> DEFINE I == MemInv /\ Mounts /\ out_mem.token \in Nat
<1>1. Init => I
  <2>1. Init => out_mem.token \in Nat
    BY DEF Init, NoOut
  <2> QED
    BY <2>1, MemInit, MountsInit
<1>2. I /\ [Next]_vars => I'
  BY MemStep, MountsStep, TokensKept
<1>3. I /\ [Next]_vars => [sent' # sent /\ skipped = {} => sent'.to = sent'.event.token % GL3_MAX_TASKS]_vars
  BY SendsToToken
<1> QED
  BY <1>1, <1>2, <1>3, PTL DEF Spec, Routed

------------------------------------------------------------------------------
(* Numbers and recursion.                                                  *)
LEMMA LeastNumber ==
  ASSUME NEW S \in SUBSET Nat, S # {}
  PROVE  \E x \in S : \A y \in S : x <= y
<1> DEFINE Less == {ss \in Nat \X Nat : ss[1] < ss[2]}
<1>1. IsWellFoundedOn(Less, Nat)
  BY NatLessThanWellFounded, Zenon DEF OpToRel
<1> HIDE DEF Less
<1>2. PICK x \in S : \A y \in S : ~(<<y, x>> \in Less)
  BY <1>1, WFMin
<1>3. ASSUME NEW y \in S PROVE x <= y
  <2>1. x \in Nat /\ y \in Nat /\ <<y, x>> \notin Less
    BY <1>2
  <2>2. ~(y < x)
    <3>1. SUFFICES ASSUME y < x PROVE <<y, x>> \in Less
      BY <2>1
    <3>2. <<y, x>> \in Nat \X Nat /\ <<y, x>>[1] < <<y, x>>[2]
      BY <2>1, <3>1
    <3> QED
      BY <3>2 DEF Less
  <2> QED
    BY <2>1, <2>2
<1> QED
  BY <1>3

(* A property of 0 that every number hands on to the next one is one of    *)
(* all numbers up to n; P is the set of those that have it.                *)
LEMMA UpTo ==
  ASSUME NEW n \in Nat, NEW P, 0 \in P, \A i \in 1..n : i - 1 \in P => i \in P
  PROVE  0..n \subseteq P
<1> DEFINE bad == {i \in 0..n : i \notin P}
<1>1. ASSUME bad # {} PROVE FALSE
  <2>1. bad \in SUBSET Nat
    OBVIOUS
  <2>2. PICK i \in bad : \A j \in bad : i <= j
    BY <1>1, <2>1, LeastNumber
  <2>3. i \in 1..n /\ i - 1 \in 0..n /\ ~(i <= i - 1)
    OBVIOUS
  <2>4. i - 1 \in P
    BY <2>2, <2>3
  <2> QED
    BY <2>3, <2>4
<1> QED
  BY <1>1

(* A function that is defined from its value before exists.                *)
Steps(S, n) == [S \X (1..n) -> S]
Follows(f, start, n, step) == f[0] = start /\ \A i \in 1..n : f[i] = step[<<f[i - 1], i>>]

LEMMA Recursion ==
  ASSUME NEW S, NEW start \in S, NEW n \in Nat, NEW step \in Steps(S, n)
  PROVE  \E f \in [0..n -> S] : Follows(f, start, n, step)
<1> USE DEF Steps
<1> DEFINE Upto(k, f) == f[0] = start /\ \A i \in 1..k : f[i] = step[<<f[i - 1], i>>]
           P == {k \in 0..n : \E f \in [0..k -> S] : Upto(k, f)}
<1>1. 0 \in P
  <2> DEFINE f == [i \in 0..0 |-> start]
  <2>1. f \in [0..0 -> S] /\ Upto(0, f)
    OBVIOUS
  <2>2. 0 \in 0..n
    OBVIOUS
  <2> HIDE DEF f
  <2> QED
    BY <2>1, <2>2
<1>2. ASSUME NEW k \in 1..n, k - 1 \in P PROVE k \in P
  <2>1. PICK f \in [0..(k - 1) -> S] : Upto(k - 1, f)
    BY <1>2
  <2> DEFINE g == [i \in 0..k |-> IF i = k THEN step[<<f[k - 1], k>>] ELSE f[i]]
  <2>2. f[k - 1] \in S /\ step[<<f[k - 1], k>>] \in S
    <3>1. f[k - 1] \in S
      OBVIOUS
    <3>2. <<f[k - 1], k>> \in S \X (1..n)
      BY <3>1
    <3> QED
      BY <3>1, <3>2
  <2>3. g \in [0..k -> S]
    <3>1. \A i \in 0..k : i = k \/ i \in 0..(k - 1)
      OBVIOUS
    <3> QED
      BY <2>2, <3>1
  <2>4. g[0] = start
    BY <2>1
  <2>5. ASSUME NEW i \in 1..k PROVE g[i] = step[<<g[i - 1], i>>]
    <3>1. i - 1 \in 0..(k - 1) /\ i - 1 \in 0..k /\ i \in 0..k /\ i - 1 # k
      OBVIOUS
    <3>2. g[i - 1] = f[i - 1]
      BY <3>1
    <3>3. CASE i = k
      BY <3>1, <3>2, <3>3
    <3>4. CASE i # k
      <4>1. i \in 1..(k - 1)
        BY <3>4
      <4> QED
        BY <2>1, <3>1, <3>2, <3>4, <4>1
    <3> QED
      BY <3>3, <3>4
  <2> HIDE DEF g
  <2>6. k \in 0..n
    OBVIOUS
  <2> QED
    BY <2>3, <2>4, <2>5, <2>6
<1> HIDE DEF P
<1>3. 0..n \subseteq P
  BY <1>1, <1>2, UpTo
<1>4. n \in P
  BY <1>3
<1> QED
  BY <1>4 DEF P, Follows

------------------------------------------------------------------------------
(* What is read of a board: edges of that board, whatever the words are.   *)
OfRdo(r) ==
  {s \in Reader : /\ \A i \in 1..Len(s.lead) : s.lead[i].fiberid = r
                  /\ \A i \in 1..Len(s.trail) : s.trail[i].fiberid = r}

LEMMA AppendEdge ==
  ASSUME NEW r, NEW q \in Seq(Edge), \A i \in 1..Len(q) : q[i].fiberid = r,
         NEW e \in Edge, e.fiberid = r
  PROVE  Append(q, e) \in Seq(Edge) /\ \A i \in 1..Len(Append(q, e)) : Append(q, e)[i].fiberid = r
<1>1. Append(q, e) \in Seq(Edge) /\ Len(Append(q, e)) = Len(q) + 1 /\ Len(q) \in Nat
      /\ Append(q, e)[Len(q) + 1] = e /\ \A i \in 1..Len(q) : Append(q, e)[i] = q[i]
  BY AppendProperties, LenProperties
<1>2. \A i \in 1..(Len(q) + 1) : i = Len(q) + 1 \/ i \in 1..Len(q)
  BY <1>1
<1> QED
  BY <1>1, <1>2

LEMMA EdgeIs ==
  ASSUME NEW r \in Rdos, NEW s \in Reader, NEW w \in Word, s.tray \in Tray
  PROVE  EdgeChan(s, w) \in Channel /\ EdgeOf(r, s, w) \in Edge /\ EdgeOf(r, s, w).fiberid = r
<1>1. s.half \in 0..1 /\ s.chan \in Channel /\ s.triggertime \in Nat
  BY DEF Reader
<1>2. w.board \in 0..3 /\ w.chan \in 0..23 /\ w.tdc \in Nat
  BY DEF Word
<1>3. GlobalTdcChan(w, s.half, s.tray) \in Channel
  <2>1. (w.chan + 24 + s.half * 96) \in 0..191 /\ (w.chan + w.board * 24 + s.half * 96) \in 0..191
    <3>1. s.half = 0 \/ s.half = 1
      BY <1>1
    <3> QED
      BY <1>2, <3>1
  <2> QED
    BY <2>1 DEF GlobalTdcChan, Channel
<1>4. EdgeChan(s, w) \in Channel
  BY <1>1, <1>3 DEF EdgeChan
<1> QED
  BY <1>1, <1>2, <1>4 DEF EdgeOf, Edge

EdgesAt(r) == {q \in Seq(Edge) : \A i \in 1..Len(q) : q[i].fiberid = r}

State(tray, half, time, chan, lead, trail) ==
  [tray |-> tray, half |-> half, triggertime |-> time, chan |-> chan, lead |-> lead, trail |-> trail]

LEMMA StateIs ==
  ASSUME NEW r, NEW tray \in 0..127, NEW half \in 0..1, NEW time \in Nat, NEW chan \in Channel,
         NEW lead \in EdgesAt(r), NEW trail \in EdgesAt(r)
  PROVE  State(tray, half, time, chan, lead, trail) \in OfRdo(r)
<1>1. State(tray, half, time, chan, lead, trail) \in Reader
  BY DEF State, Reader, EdgesAt
<1> QED
  BY <1>1 DEF State, OfRdo, EdgesAt

LEMMA StateOf ==
  ASSUME NEW r, NEW s \in OfRdo(r)
  PROVE  /\ s \in Reader /\ s.tray \in 0..127 /\ s.half \in 0..1 /\ s.triggertime \in Nat
         /\ s.chan \in Channel /\ s.lead \in EdgesAt(r) /\ s.trail \in EdgesAt(r)
BY DEF OfRdo, Reader, EdgesAt

LEMMA ReadWordIs ==
  ASSUME NEW r \in Rdos, NEW w \in Word, NEW s \in OfRdo(r)
  PROVE  ReadWord(r, w)[s] \in OfRdo(r)
<1> DEFINE t == ReadWord(r, w)[s]
<1> SUFFICES t \in OfRdo(r)
  OBVIOUS
<1>1. /\ s \in Reader /\ s.tray \in 0..127 /\ s.half \in 0..1 /\ s.triggertime \in Nat
      /\ s.chan \in Channel /\ s.lead \in EdgesAt(r) /\ s.trail \in EdgesAt(r)
  BY StateOf
<1>2. w.tray \in 0..127 /\ w.half \in 0..1 /\ w.tdc \in Nat
  BY DEF Word
<1>3. CASE w.type = "geo"
  <2>1. t = State(w.tray, w.half, s.triggertime, s.chan, s.lead, s.trail)
    BY <1>1, <1>3 DEF ReadWord, Reader, State
  <2> HIDE DEF t
  <2> QED
    BY <1>1, <1>2, <2>1, StateIs
<1>4. CASE w.type = "time"
  <2> DEFINE time == IF s.triggertime = 0 THEN w.tdc ELSE s.triggertime
  <2>1. t = State(s.tray, s.half, time, s.chan, s.lead, s.trail)
    BY <1>1, <1>4 DEF ReadWord, Reader, State
  <2>2. time \in Nat
    BY <1>1, <1>2
  <2> HIDE DEF t, time
  <2> QED
    BY <1>1, <2>1, <2>2, StateIs
<1>5. CASE w.type \notin {"geo", "time"} /\ (s.tray \notin Tray \/ w.type \notin {"lead", "trail"})
  BY <1>1, <1>5 DEF ReadWord
<1>6. ASSUME s.tray \in Tray, NEW q \in EdgesAt(r)
      PROVE  EdgeChan(s, w) \in Channel /\ Append(q, EdgeOf(r, s, w)) \in EdgesAt(r)
  <2>1. EdgeChan(s, w) \in Channel /\ EdgeOf(r, s, w) \in Edge /\ EdgeOf(r, s, w).fiberid = r
    BY <1>1, <1>6, EdgeIs
  <2>2. q \in Seq(Edge) /\ \A i \in 1..Len(q) : q[i].fiberid = r
    BY <1>6 DEF EdgesAt
  <2> QED
    BY <2>1, <2>2, AppendEdge DEF EdgesAt
<1>7. CASE w.type = "lead" /\ s.tray \in Tray
  <2>1. t = State(s.tray, s.half, s.triggertime, EdgeChan(s, w), Append(s.lead, EdgeOf(r, s, w)), s.trail)
    BY <1>1, <1>7 DEF ReadWord, Reader, State
  <2>2. EdgeChan(s, w) \in Channel /\ Append(s.lead, EdgeOf(r, s, w)) \in EdgesAt(r)
    BY <1>1, <1>6, <1>7
  <2> HIDE DEF t
  <2> QED
    BY <1>1, <2>1, <2>2, StateIs
<1>8. CASE w.type = "trail" /\ s.tray \in Tray
  <2>1. t = State(s.tray, s.half, s.triggertime, EdgeChan(s, w), s.lead, Append(s.trail, EdgeOf(r, s, w)))
    BY <1>1, <1>8 DEF ReadWord, Reader, State
  <2>2. EdgeChan(s, w) \in Channel /\ Append(s.trail, EdgeOf(r, s, w)) \in EdgesAt(r)
    BY <1>1, <1>6, <1>8
  <2> HIDE DEF t
  <2> QED
    BY <1>1, <2>1, <2>2, StateIs
<1> QED
  BY <1>3, <1>4, <1>5, <1>7, <1>8

LEMMA EventRead ==
  ASSUME NEW r \in Rdos, NEW words \in Words, NEW before \in Channel
  PROVE  /\ ReadRdoEvent(r, words, before) \in OfRdo(r)
         /\ words = << >> => /\ ReadRdoEvent(r, words, before).lead = << >>
                             /\ ReadRdoEvent(r, words, before).trail = << >>
<1> DEFINE n == Len(words)
           start == NoWord(before)
           Def(f) == f = [i \in 0..n |-> IF i = 0 THEN start ELSE ReadWord(r, words[i])[f[i - 1]]]
           after == CHOOSE f : Def(f)
<1>1. n \in Nat /\ \A i \in 1..n : words[i] \in Word
  BY LenProperties, ElementOfSeq DEF Words
<1>2. ReadRdoEvent(r, words, before) = after[n]
  BY DEF ReadRdoEvent
<1>3. words = << >> => n = 0
  BY EmptySeq
<1>4. start \in OfRdo(r) /\ start.lead = << >> /\ start.trail = << >>
  BY EmptySeq DEF NoWord, OfRdo, Reader
<1> HIDE DEF n, start
<1>5. \E f : Def(f)
  <2> DEFINE step == [x \in OfRdo(r) \X (1..n) |-> ReadWord(r, words[x[2]])[x[1]]]
  <2>1. step \in Steps(OfRdo(r), n)
    BY <1>1, ReadWordIs DEF Steps
  <2>2. PICK f \in [0..n -> OfRdo(r)] : Follows(f, start, n, step)
    <3> HIDE DEF step
    <3> QED
      BY <1>1, <1>4, <2>1, Recursion
  <2>3. \A i \in 1..n : f[i] = ReadWord(r, words[i])[f[i - 1]]
    <3>1. \A i \in 1..n : <<f[i - 1], i>> \in OfRdo(r) \X (1..n)
      BY <1>1
    <3> QED
      BY <2>2, <3>1 DEF Follows
  <2>4. \A i \in 0..n : f[i] = IF i = 0 THEN start ELSE ReadWord(r, words[i])[f[i - 1]]
    BY <1>1, <2>2, <2>3 DEF Follows
  <2> QED
    BY <2>4
<1>6. Def(after)
  BY <1>5
<1> HIDE DEF after
<1> DEFINE P == {i \in 0..n : after[i] \in OfRdo(r)}
<1>7. after[0] = start /\ 0 \in P
  BY <1>1, <1>4, <1>6
<1>8. ASSUME NEW i \in 1..n, i - 1 \in P PROVE i \in P
  <2>1. after[i] = ReadWord(r, words[i])[after[i - 1]]
    BY <1>1, <1>6
  <2> QED
    BY <1>1, <1>8, <2>1, ReadWordIs
<1>9. n \in P
  <2> HIDE DEF P
  <2>1. 0..n \subseteq P
    BY <1>1, <1>7, <1>8, UpTo
  <2> QED
    BY <1>1, <2>1
<1> QED
  BY <1>2, <1>3, <1>4, <1>7, <1>9

------------------------------------------------------------------------------
(* The lists of edges.  A list is in order if no edge is behind one of a   *)
(* later board or tray.                                                    *)
Sorted(s) == \A i, j \in 1..Len(s) : i < j => ~Before(Place(s[j]), Place(s[i]))

(* A list has edges of all that are of boards read, and if they come in    *)
(* order it has all of them, in order.                                     *)
Collected(list, all, left, ordered) ==
  /\ list \in Seq(Edge)
  /\ \A i \in 1..Len(list) : list[i] \in all /\ list[i].fiberid \in Rdos \ left
  /\ ordered => /\ Sorted(list)
                /\ \A x \in all : x.fiberid \notin left => \E i \in 1..Len(list) : list[i] = x

Earlier(left) == \A p \in Rdos \ left, q \in left : p < q

LEMMA RdosAreNumbers == Rdos \subseteq Nat
BY TaskAssumption

LEMMA PlaceIs ==
  ASSUME NEW x \in Edge
  PROVE  /\ Place(x) = <<x.fiberid, x.trayid>>
         /\ x.fiberid \in Rdos /\ x.fiberid \in Nat /\ x.trayid \in Nat
<1>1. x.fiberid \in Rdos /\ x.trayid \in Tray
  BY DEF Edge
<1>2. x.trayid \in Nat
  BY <1>1 DEF Tray
<1>3. x.fiberid \in Nat
  BY <1>1, RdosAreNumbers
<1> QED
  BY <1>1, <1>2, <1>3 DEF Place

LEMMA NotBefore ==
  ASSUME NEW x \in Edge, NEW y \in Edge,
         x.fiberid < y.fiberid \/ (x.fiberid = y.fiberid /\ x.trayid <= y.trayid)
  PROVE  ~Before(Place(y), Place(x))
BY PlaceIs DEF Before

LEMMA CollectStep ==
  ASSUME NEW left \in SUBSET Rdos, NEW r \in left, Earlier(left),
         NEW all, NEW ordered \in BOOLEAN, NEW list, Collected(list, all, left, ordered),
         NEW new \in EdgesAt(r), \A i \in 1..Len(new) : new[i] \in all,
         ordered => /\ Ascending(new)
                    /\ \A x \in all : x.fiberid = r => \E i \in 1..Len(new) : new[i] = x
  PROVE  Collected(list \o new, all, left \ {r}, ordered)
<1> DEFINE s == list \o new
           m == Len(list)
           n == Len(new)
<1>1. list \in Seq(Edge) /\ new \in Seq(Edge) /\ \A i \in 1..n : new[i].fiberid = r
  BY DEF Collected, EdgesAt
<1>2. /\ s \in Seq(Edge) /\ m \in Nat /\ n \in Nat /\ Len(s) = m + n
      /\ \A i \in 1..(m + n) : s[i] = IF i <= m THEN list[i] ELSE new[i - m]
  <2>1. \A i \in 1..(m + n) : s[i] = IF i <= m THEN list[i] ELSE new[i - m]
    BY <1>1, ConcatProperties
  <2>2. s \in Seq(Edge) /\ m \in Nat /\ n \in Nat /\ Len(s) = m + n
    BY <1>1, ConcatProperties, LenProperties
  <2> HIDE DEF s, m, n
  <2> QED
    BY <2>1, <2>2
<1>3. /\ \A i \in 1..m : list[i] \in Edge /\ list[i] \in all /\ list[i].fiberid \in Rdos \ left
      /\ \A i \in 1..n : new[i] \in Edge /\ new[i] \in all /\ new[i].fiberid = r
  BY <1>1, ElementOfSeq DEF Collected
<1>4. ordered => /\ Sorted(list)
                 /\ \A x \in all : x.fiberid \notin left => \E i \in 1..m : list[i] = x
  BY DEF Collected
<1>5. Len(new) = n /\ Len(list) = m
  OBVIOUS
<1> HIDE DEF s, m, n
<1> DEFINE Old(i) == i \in 1..m /\ s[i] = list[i]
           Fresh(i) == i - m \in 1..n /\ s[i] = new[i - m]
<1>6. \A i \in 1..Len(s) : Old(i) \/ Fresh(i)
  BY <1>2
<1>7. \A i \in 1..Len(s) : s[i] \in all /\ s[i].fiberid \in Rdos \ (left \ {r})
  BY <1>3, <1>6
<1>8. ASSUME ordered PROVE Sorted(s)
  <2> SUFFICES ASSUME NEW i \in 1..Len(s), NEW j \in 1..Len(s), i < j
               PROVE  ~Before(Place(s[j]), Place(s[i]))
    BY DEF Sorted
  <2>1. CASE Old(i) /\ Old(j)
    BY <1>4, <1>5, <1>8, <2>1 DEF Sorted
  <2>2. CASE Old(i) /\ Fresh(j)
    <3>1. s[i] \in Edge /\ s[j] \in Edge /\ s[i].fiberid \in Rdos \ left /\ s[j].fiberid = r
      BY <1>3, <2>2
    <3>2. s[i].fiberid < s[j].fiberid
      BY <3>1 DEF Earlier
    <3> QED
      BY <3>1, <3>2, NotBefore
  <2>3. CASE Fresh(i) /\ Old(j)
    BY <1>2, <2>3
  <2>4. CASE Fresh(i) /\ Fresh(j)
    <3>1. i - m < j - m
      BY <1>2
    <3>2. new[i - m].trayid <= new[j - m].trayid
      BY <1>5, <1>8, <2>4, <3>1 DEF Ascending
    <3>3. new[i - m] \in Edge /\ new[j - m] \in Edge
          /\ new[i - m].fiberid = r /\ new[j - m].fiberid = r
      BY <1>3, <2>4
    <3>4. ~Before(Place(new[j - m]), Place(new[i - m]))
      BY <3>2, <3>3, NotBefore
    <3> QED
      BY <2>4, <3>4
  <2> QED
    BY <1>6, <2>1, <2>2, <2>3, <2>4
<1>9. ASSUME ordered, NEW x \in all, x.fiberid \notin left \ {r}
      PROVE  \E i \in 1..Len(s) : s[i] = x
  <2>1. CASE x.fiberid = r
    <3>1. PICK k \in 1..n : new[k] = x
      BY <1>5, <1>9, <2>1
    <3>2. m + k \in 1..(m + n) /\ ~(m + k <= m) /\ (m + k) - m = k
      BY <1>2
    <3>3. s[m + k] = new[k]
      BY <1>2, <3>2
    <3>4. m + k \in 1..Len(s) /\ s[m + k] = x
      BY <1>2, <3>1, <3>2, <3>3
    <3> QED
      BY <3>4
  <2>2. CASE x.fiberid # r
    <3>1. PICK k \in 1..m : list[k] = x
      BY <1>4, <1>9, <2>2
    <3>2. k \in 1..Len(s) /\ s[k] = x
      BY <1>2, <3>1
    <3> QED
      BY <3>2
  <2> QED
    BY <2>1, <2>2
<1>10. s \in Seq(Edge)
  BY <1>2
<1> QED
  BY <1>7, <1>8, <1>9, <1>10 DEF Collected, s

LEMMA ElementsIs ==
  \A q : \A x : x \in Elements(q, 1, Len(q)) <=> \E i \in 1..Len(q) : x = q[i]
BY DEF Elements

(* The edges of an event, and what of them each board brings.              *)
LEMMA LeadsRead ==
  ASSUME NEW e \in Event, NEW r \in Rdos, NEW c \in {0, 191}, NEW new,
         new = ReadRdoEvent(r, e[r], c).lead
  PROVE  /\ new \in EdgesAt(r)
         /\ \A i \in 1..Len(new) : new[i] \in LeadsOf(e)
         /\ InOrder(e) => /\ Ascending(new)
                          /\ \A x \in LeadsOf(e) :
                               x.fiberid = r => \E i \in 1..Len(new) : new[i] = x
<1> DEFINE L(p, b) == ReadRdoEvent(p, e[p], b).lead
<1>1. \A p \in Rdos, b \in {0, 191} : L(p, b) \in EdgesAt(p)
  <2> SUFFICES ASSUME NEW p \in Rdos, NEW b \in {0, 191} PROVE L(p, b) \in EdgesAt(p)
    OBVIOUS
  <2>1. e[p] \in Words /\ b \in Channel
    BY DEF Event, Channel
  <2> QED
    BY <2>1, EventRead, StateOf
<1>2. \A x : x \in LeadsOf(e) <=>
               \E p \in Rdos, b \in {0, 191} : \E i \in 1..Len(L(p, b)) : x = L(p, b)[i]
  <2> DEFINE E(p, b) == Elements(L(p, b), 1, Len(L(p, b)))
  <2>1. LeadsOf(e) = UNION {E(p, b) : p \in Rdos, b \in {0, 191}}
    BY DEF LeadsOf
  <2>2. \A p, b : \A x : x \in E(p, b) <=> \E i \in 1..Len(L(p, b)) : x = L(p, b)[i]
    BY ElementsIs
  <2> HIDE DEF L, E
  <2>3. \A x : x \in LeadsOf(e) <=> \E p \in Rdos, b \in {0, 191} : x \in E(p, b)
    BY <2>1
  <2> QED
    BY <2>2, <2>3
<1>3. InOrder(e) => Ascending(L(r, 0)) /\ L(r, 0) = L(r, 191)
  BY DEF InOrder
<1>4. new = L(r, c)
  OBVIOUS
<1> HIDE DEF L
<1>5. ASSUME InOrder(e), NEW x \in LeadsOf(e), x.fiberid = r
      PROVE  \E i \in 1..Len(new) : new[i] = x
  <2>1. PICK p \in Rdos, b \in {0, 191} : \E i \in 1..Len(L(p, b)) : x = L(p, b)[i]
    BY <1>2, <1>5
  <2>2. x.fiberid = p
    BY <1>1, <2>1 DEF EdgesAt
  <2>3. L(p, b) = new
    BY <1>3, <1>4, <1>5, <2>2
  <2> QED
    BY <2>1, <2>3
<1>6. \A i \in 1..Len(new) : new[i] \in LeadsOf(e)
  BY <1>2, <1>4
<1> QED
  BY <1>1, <1>3, <1>4, <1>5, <1>6

LEMMA TrailsRead ==
  ASSUME NEW e \in Event, NEW r \in Rdos, NEW c \in {0, 191}, NEW new,
         new = ReadRdoEvent(r, e[r], c).trail
  PROVE  /\ new \in EdgesAt(r)
         /\ \A i \in 1..Len(new) : new[i] \in TrailsOf(e)
         /\ InOrder(e) => /\ Ascending(new)
                          /\ \A x \in TrailsOf(e) :
                               x.fiberid = r => \E i \in 1..Len(new) : new[i] = x
<1> DEFINE L(p, b) == ReadRdoEvent(p, e[p], b).trail
<1>1. \A p \in Rdos, b \in {0, 191} : L(p, b) \in EdgesAt(p)
  <2> SUFFICES ASSUME NEW p \in Rdos, NEW b \in {0, 191} PROVE L(p, b) \in EdgesAt(p)
    OBVIOUS
  <2>1. e[p] \in Words /\ b \in Channel
    BY DEF Event, Channel
  <2> QED
    BY <2>1, EventRead, StateOf
<1>2. \A x : x \in TrailsOf(e) <=>
               \E p \in Rdos, b \in {0, 191} : \E i \in 1..Len(L(p, b)) : x = L(p, b)[i]
  <2> DEFINE E(p, b) == Elements(L(p, b), 1, Len(L(p, b)))
  <2>1. TrailsOf(e) = UNION {E(p, b) : p \in Rdos, b \in {0, 191}}
    BY DEF TrailsOf
  <2>2. \A p, b : \A x : x \in E(p, b) <=> \E i \in 1..Len(L(p, b)) : x = L(p, b)[i]
    BY ElementsIs
  <2> HIDE DEF L, E
  <2>3. \A x : x \in TrailsOf(e) <=> \E p \in Rdos, b \in {0, 191} : x \in E(p, b)
    BY <2>1
  <2> QED
    BY <2>2, <2>3
<1>3. InOrder(e) => Ascending(L(r, 0)) /\ L(r, 0) = L(r, 191)
  BY DEF InOrder
<1>4. new = L(r, c)
  OBVIOUS
<1> HIDE DEF L
<1>5. ASSUME InOrder(e), NEW x \in TrailsOf(e), x.fiberid = r
      PROVE  \E i \in 1..Len(new) : new[i] = x
  <2>1. PICK p \in Rdos, b \in {0, 191} : \E i \in 1..Len(L(p, b)) : x = L(p, b)[i]
    BY <1>2, <1>5
  <2>2. x.fiberid = p
    BY <1>1, <2>1 DEF EdgesAt
  <2>3. L(p, b) = new
    BY <1>3, <1>4, <1>5, <2>2
  <2> QED
    BY <2>1, <2>3
<1>6. \A i \in 1..Len(new) : new[i] \in TrailsOf(e)
  BY <1>2, <1>4
<1> QED
  BY <1>1, <1>3, <1>4, <1>5, <1>6

LEMMA EdgesOf ==
  ASSUME NEW e \in Event
  PROVE  LeadsOf(e) \subseteq Edge /\ TrailsOf(e) \subseteq Edge
<1> DEFINE S(p, b) == ReadRdoEvent(p, e[p], b)
<1>1. \A p \in Rdos, b \in {0, 191} : S(p, b).lead \in Seq(Edge) /\ S(p, b).trail \in Seq(Edge)
  <2> SUFFICES ASSUME NEW p \in Rdos, NEW b \in {0, 191}
               PROVE  S(p, b).lead \in Seq(Edge) /\ S(p, b).trail \in Seq(Edge)
    OBVIOUS
  <2>1. e[p] \in Words /\ b \in Channel
    BY DEF Event, Channel
  <2>2. S(p, b) \in OfRdo(p)
    BY <2>1, EventRead
  <2> HIDE DEF S
  <2> QED
    BY <2>2, StateOf DEF EdgesAt
<1>2. /\ LeadsOf(e) = UNION {Elements(S(p, b).lead, 1, Len(S(p, b).lead)) : p \in Rdos, b \in {0, 191}}
      /\ TrailsOf(e) = UNION {Elements(S(p, b).trail, 1, Len(S(p, b).trail)) : p \in Rdos, b \in {0, 191}}
  BY DEF LeadsOf, TrailsOf
<1> HIDE DEF S
<1>3. ASSUME NEW q \in Seq(Edge) PROVE Elements(q, 1, Len(q)) \subseteq Edge
  BY <1>3, ElementOfSeq DEF Elements
<1> QED
  BY <1>1, <1>2, <1>3

LEMMA LeastIs ==
  ASSUME NEW S \in SUBSET Nat, S # {}
  PROVE  Least(S) \in S /\ \A j \in S : Least(S) <= j
BY LeastNumber DEF Least

(* The lists as they are filled: of the event e, but for boards left.      *)
Lists(e, left) ==
  /\ Collected(TofLeadingHits, LeadsOf(e), left, InOrder(e))
  /\ Collected(TofTrailingHits, TrailsOf(e), left, InOrder(e))

LEMMA NothingCollected ==
  ASSUME NEW all, all \subseteq Edge, NEW ordered \in BOOLEAN
  PROVE  Collected(<< >>, all, Rdos, ordered)
<1>1. << >> \in Seq(Edge) /\ Len(<< >>) = 0 /\ 1..0 = {}
  BY EmptySeq
<1>2. \A x \in all : x.fiberid \in Rdos
  BY DEF Edge
<1> QED
  BY <1>1, <1>2 DEF Collected, Sorted

LEMMA InOrderIs == \A e : InOrder(e) \in BOOLEAN
BY DEF InOrder

LEMMA ReadStep ==
  ASSUME MemInv, ReadRdo, rdoLeft \in SUBSET Rdos, Earlier(rdoLeft), Lists(msg.truth, rdoLeft)
  PROVE  rdoLeft' \in SUBSET Rdos /\ Earlier(rdoLeft') /\ Lists(msg.truth, rdoLeft)'
<1> DEFINE r == Least(rdoLeft)
           e == msg.truth
           n == Len(msg.len[r])
<1>1. r \in rdoLeft /\ \A q \in rdoLeft : r <= q
  BY LeastIs, RdosAreNumbers DEF ReadRdo
<1>2. rdoLeft' = rdoLeft \ {r} /\ msg' = msg
  BY DEF ReadRdo
<1>3. msg \in Message /\ e \in Event /\ shared_mem \in Event
  BY DEF MemInv, Shapes, Message
<1>4. e[r] \in Words /\ n = Len(e[r]) /\ SubSeq(shared_mem[r], 1, n) = e[r]
  BY <1>1, <1>3 DEF ReadRdo, MemInv, Written, Holds, Event
<1>5. Earlier(rdoLeft')
  <2> SUFFICES ASSUME NEW p \in Rdos \ rdoLeft', NEW q \in rdoLeft' PROVE p < q
    BY DEF Earlier
  <2>1. p \in Nat /\ q \in Nat /\ r \in Nat /\ q # r /\ q \in rdoLeft
    BY <1>1, <1>2, RdosAreNumbers
  <2>2. CASE p = r
    BY <1>1, <2>1, <2>2
  <2>3. CASE p # r
    BY <1>2, <2>3 DEF Earlier
  <2> QED
    BY <2>2, <2>3
<1>6. \E c \in {0, 191} : /\ TofLeadingHits' = TofLeadingHits \o ReadRdoEvent(r, e[r], c).lead
                          /\ TofTrailingHits' = TofTrailingHits \o ReadRdoEvent(r, e[r], c).trail
  <2>1. CASE n = 0
    <3>1. UNCHANGED <<TofLeadingHits, TofTrailingHits>>
      BY <2>1 DEF ReadRdo, tracker
    <3>2. e[r] = << >>
      BY <1>4, <2>1, EmptySeq DEF Words
    <3>3. 0 \in Channel
      BY DEF Channel
    <3>4. ReadRdoEvent(r, e[r], 0).lead = << >> /\ ReadRdoEvent(r, e[r], 0).trail = << >>
      BY <1>1, <1>4, <3>2, <3>3, EventRead
    <3>5. TofLeadingHits \o << >> = TofLeadingHits /\ TofTrailingHits \o << >> = TofTrailingHits
      BY ConcatEmptySeq DEF Lists, Collected
    <3> QED
      BY <3>1, <3>4, <3>5
  <2>2. CASE n # 0
    BY <1>4, <2>2 DEF ReadRdo
  <2> QED
    BY <2>1, <2>2
<1>7. PICK c \in {0, 191} : /\ TofLeadingHits' = TofLeadingHits \o ReadRdoEvent(r, e[r], c).lead
                            /\ TofTrailingHits' = TofTrailingHits \o ReadRdoEvent(r, e[r], c).trail
  BY <1>6
<1>8. InOrder(e) \in BOOLEAN
  BY InOrderIs
<1>9. Collected(TofLeadingHits', LeadsOf(e), rdoLeft \ {r}, InOrder(e))
  <2> DEFINE new == ReadRdoEvent(r, e[r], c).lead
             all == LeadsOf(e)
             ordered == InOrder(e)
             list == TofLeadingHits
             left == rdoLeft
  <2>1. /\ new \in EdgesAt(r)
        /\ \A i \in 1..Len(new) : new[i] \in all
        /\ ordered => /\ Ascending(new)
                      /\ \A x \in all : x.fiberid = r => \E i \in 1..Len(new) : new[i] = x
    BY <1>1, <1>3, LeadsRead
  <2>2. Collected(list, all, left, ordered) /\ TofLeadingHits' = list \o new
    BY <1>7 DEF Lists
  <2>3. r \in left /\ left \in SUBSET Rdos /\ Earlier(left) /\ ordered \in BOOLEAN
    BY <1>1, <1>8
  <2> HIDE DEF new, all, ordered, list, r
  <2>4. Collected(list \o new, all, left \ {r}, ordered)
    BY <2>1, <2>2, <2>3, CollectStep
  <2> QED
    BY <2>2, <2>4 DEF all, ordered
<1>10. Collected(TofTrailingHits', TrailsOf(e), rdoLeft \ {r}, InOrder(e))
  <2> DEFINE new == ReadRdoEvent(r, e[r], c).trail
             all == TrailsOf(e)
             ordered == InOrder(e)
             list == TofTrailingHits
             left == rdoLeft
  <2>1. /\ new \in EdgesAt(r)
        /\ \A i \in 1..Len(new) : new[i] \in all
        /\ ordered => /\ Ascending(new)
                      /\ \A x \in all : x.fiberid = r => \E i \in 1..Len(new) : new[i] = x
    BY <1>1, <1>3, TrailsRead
  <2>2. Collected(list, all, left, ordered) /\ TofTrailingHits' = list \o new
    BY <1>7 DEF Lists
  <2>3. r \in left /\ left \in SUBSET Rdos /\ Earlier(left) /\ ordered \in BOOLEAN
    BY <1>1, <1>8
  <2> HIDE DEF new, all, ordered, list, r
  <2>4. Collected(list \o new, all, left \ {r}, ordered)
    BY <2>1, <2>2, <2>3, CollectStep
  <2> QED
    BY <2>2, <2>4 DEF all, ordered
<1>11. Lists(msg.truth, rdoLeft)'
  <2>1. msg'.truth = e
    BY <1>2
  <2> HIDE DEF r, e
  <2> QED
    BY <1>2, <1>9, <1>10, <2>1 DEF Lists
<1> QED
  BY <1>2, <1>5, <1>11

------------------------------------------------------------------------------
(* The walk along both lists.                                              *)
LEMMA PlaceHitsAre ==
  ASSUME NEW e
  PROVE  \A h : h \in PlaceHits(e) <=>
           \E x \in LeadsOf(e), y \in TrailsOf(e) : Place(x) = Place(y) /\ Match(x, y) /\ h = HitOf(x, y)
<1> DEFINE pairs == {q \in LeadsOf(e) \X TrailsOf(e) : Place(q[1]) = Place(q[2]) /\ Match(q[1], q[2])}
<1>1. PlaceHits(e) = {HitOf(q[1], q[2]) : q \in pairs}
  BY DEF PlaceHits
<1>2. ASSUME NEW h \in PlaceHits(e)
      PROVE  \E x \in LeadsOf(e), y \in TrailsOf(e) : Place(x) = Place(y) /\ Match(x, y) /\ h = HitOf(x, y)
  <2>1. PICK q \in pairs : h = HitOf(q[1], q[2])
    BY <1>1
  <2> QED
    BY <2>1
<1>3. ASSUME NEW x \in LeadsOf(e), NEW y \in TrailsOf(e), Place(x) = Place(y), Match(x, y)
      PROVE  HitOf(x, y) \in PlaceHits(e)
  <2>1. <<x, y>> \in pairs
    BY <1>3
  <2> QED
    BY <1>1, <2>1
<1> QED
  BY <1>2, <1>3

LEMMA HitsOfAre ==
  ASSUME NEW ls, NEW ts
  PROVE  \A h : h \in HitsOf(ls, ts) <=> \E x \in ls, y \in ts : Match(x, y) /\ h = HitOf(x, y)
<1> DEFINE pairs == {q \in ls \X ts : Match(q[1], q[2])}
<1>1. HitsOf(ls, ts) = {HitOf(q[1], q[2]) : q \in pairs}
  BY DEF HitsOf
<1>2. ASSUME NEW h \in HitsOf(ls, ts)
      PROVE  \E x \in ls, y \in ts : Match(x, y) /\ h = HitOf(x, y)
  <2>1. PICK q \in pairs : h = HitOf(q[1], q[2])
    BY <1>1
  <2> QED
    BY <2>1
<1>3. ASSUME NEW x \in ls, NEW y \in ts, Match(x, y) PROVE HitOf(x, y) \in HitsOf(ls, ts)
  <2>1. <<x, y>> \in pairs
    BY <1>3
  <2> QED
    BY <1>1, <2>1
<1> QED
  BY <1>2, <1>3

(* Places are ordered.                                                     *)
LEMMA PlacesInOrder ==
  ASSUME NEW x \in Edge, NEW y \in Edge
  PROVE  /\ Before(Place(x), Place(y)) => ~Before(Place(y), Place(x)) /\ Place(x) # Place(y)
         /\ Place(x) = Place(y) \/ Before(Place(x), Place(y)) \/ Before(Place(y), Place(x))
BY PlaceIs DEF Before

LEMMA GroupEnds ==
  ASSUME NEW s \in Seq(Edge), NEW i \in 1..Len(s)
  PROVE  /\ EndOfGroup(s, i) \in i..Len(s)
         /\ \A k \in i..EndOfGroup(s, i) : Place(s[k]) = Place(s[i])
         /\ Sorted(s) => \A k \in 1..Len(s) : k > EndOfGroup(s, i) => Place(s[k]) # Place(s[i])
<1> DEFINE l == EndOfGroup(s, i)
           others == {j \in i..Len(s) : Place(s[j]) # Place(s[i])}
<1>1. Len(s) \in Nat /\ i \in Nat /\ i >= 1 /\ \A k \in 1..Len(s) : s[k] \in Edge
  BY LenProperties, ElementOfSeq
<1>2. l = IF others = {} THEN Len(s) ELSE Least(others) - 1
  BY DEF EndOfGroup
<1> HIDE DEF l
<1>3. CASE others = {}
  <2>1. l = Len(s) /\ \A j \in i..Len(s) : Place(s[j]) = Place(s[i])
    BY <1>2, <1>3
  <2> QED
    BY <1>1, <2>1 DEF l
<1>4. CASE others # {}
  <2> DEFINE m == Least(others)
  <2>1. m \in others /\ \A j \in others : m <= j
    <3>1. others \in SUBSET Nat
      BY <1>1
    <3> HIDE DEF others
    <3> QED
      BY <1>4, <3>1, LeastIs
  <2> HIDE DEF m
  <2>2. m \in Nat /\ m > i /\ m <= Len(s) /\ l = m - 1 /\ Place(s[m]) # Place(s[i])
    <3>1. l = m - 1
      BY <1>2, <1>4 DEF m
    <3>2. m # i
      BY <2>1
    <3> QED
      BY <1>1, <2>1, <3>1, <3>2
  <2>3. l \in i..Len(s)
    BY <1>1, <2>2
  <2>4. ASSUME NEW k \in i..l PROVE Place(s[k]) = Place(s[i])
    <3>1. k \in i..Len(s) /\ ~(m <= k)
      BY <1>1, <2>2
    <3> QED
      BY <2>1, <3>1
  <2>5. ASSUME Sorted(s), NEW k \in 1..Len(s), k > l, Place(s[k]) = Place(s[i])
        PROVE  FALSE
    <3>1. k > m /\ m \in 1..Len(s)
      <4>1. k # m
        BY <2>2, <2>5
      <4> QED
        BY <1>1, <2>2, <2>5, <4>1
    <3>2. ~Before(Place(s[k]), Place(s[m])) /\ ~Before(Place(s[m]), Place(s[i]))
      BY <2>2, <2>5, <3>1 DEF Sorted
    <3>3. s[k] \in Edge /\ s[m] \in Edge /\ s[i] \in Edge
      BY <1>1, <3>1
    <3> QED
      BY <2>2, <2>5, <3>2, <3>3, PlacesInOrder
  <2> QED
    BY <2>3, <2>4, <2>5 DEF l
<1> QED
  BY <1>3, <1>4 DEF l

(* The pairs of edges that the walk has passed.                            *)
Passed(i, j) == i < at.lead \/ j < at.trail

Walked ==
  /\ at \in [lead : Nat \ {0}, trail : Nat \ {0}]
  /\ out_mem.hits \subseteq PlaceHits(out_mem.truth)
  /\ InOrder(out_mem.truth) =>
       \A i \in 1..Len(TofLeadingHits), j \in 1..Len(TofTrailingHits) :
         LET x == TofLeadingHits[i]
             y == TofTrailingHits[j]
         IN Passed(i, j) /\ Place(x) = Place(y) /\ Match(x, y) => HitOf(x, y) \in out_mem.hits

Walking == Lists(out_mem.truth, {}) /\ Walked

LEMMA WalkingFacts ==
  ASSUME Walking
  PROVE  /\ TofLeadingHits \in Seq(Edge) /\ TofTrailingHits \in Seq(Edge)
         /\ Len(TofLeadingHits) \in Nat /\ Len(TofTrailingHits) \in Nat
         /\ \A i \in 1..Len(TofLeadingHits) :
              TofLeadingHits[i] \in Edge /\ TofLeadingHits[i] \in LeadsOf(out_mem.truth)
         /\ \A j \in 1..Len(TofTrailingHits) :
              TofTrailingHits[j] \in Edge /\ TofTrailingHits[j] \in TrailsOf(out_mem.truth)
         /\ InOrder(out_mem.truth) => Sorted(TofLeadingHits) /\ Sorted(TofTrailingHits)
         /\ at.lead \in Nat \ {0} /\ at.trail \in Nat \ {0}
<1>1. TofLeadingHits \in Seq(Edge) /\ TofTrailingHits \in Seq(Edge)
  BY DEF Walking, Lists, Collected
<1> QED
  BY <1>1, LenProperties, ElementOfSeq DEF Walking, Lists, Collected, Walked

LEMMA SkipStep ==
  ASSUME Walking, SkipTrailing \/ SkipLeading
  PROVE  Walking'
<1> DEFINE a == at.lead
           b == at.trail
           L == TofLeadingHits
           T == TofTrailingHits
<1>1. /\ L \in Seq(Edge) /\ T \in Seq(Edge) /\ Len(L) \in Nat /\ Len(T) \in Nat
      /\ \A i \in 1..Len(L) : L[i] \in Edge
      /\ \A j \in 1..Len(T) : T[j] \in Edge
      /\ InOrder(out_mem.truth) => Sorted(L) /\ Sorted(T)
      /\ a \in Nat \ {0} /\ b \in Nat \ {0}
  BY WalkingFacts
<1>2. L' = L /\ T' = T /\ out_mem' = out_mem
  BY DEF SkipTrailing, SkipLeading, tracker
<1>3. Lists(out_mem.truth, {})'
  BY <1>2 DEF Walking, Lists
<1>4. a \in 1..Len(L) /\ b \in 1..Len(T)
  BY <1>1 DEF SkipTrailing, SkipLeading, AtEdges
<1>5. L[a] \in Edge /\ T[b] \in Edge
  BY <1>1, <1>4
<1>6. CASE SkipTrailing
  <2>1. at' = [lead |-> a, trail |-> b + 1] /\ Before(Place(T[b]), Place(L[a]))
    BY <1>6 DEF SkipTrailing, LeadPlace, TrailPlace, Walking, Walked
  <2>2. ASSUME InOrder(out_mem.truth), NEW i \in 1..Len(L), NEW j \in 1..Len(T),
               Passed(i, j)', Place(L[i]) = Place(T[j]), Match(L[i], T[j])
        PROVE  HitOf(L[i], T[j]) \in out_mem.hits
    <3>1. i < a \/ j < b + 1
      BY <2>1, <2>2 DEF Passed
    <3>2. CASE i < a \/ j < b
      BY <2>2, <3>2 DEF Walking, Walked, Passed
    <3>3. CASE i >= a /\ j = b
      <4>1. ~Before(Place(L[i]), Place(L[a]))
        <5>1. CASE i = a
          BY <1>5, <5>1, PlacesInOrder
        <5>2. CASE i > a
          BY <1>1, <1>4, <2>2, <5>2 DEF Sorted
        <5> QED
          BY <1>1, <3>3, <5>1, <5>2
      <4> QED
        BY <2>1, <2>2, <3>3, <4>1
    <3> QED
      BY <1>1, <3>1, <3>2, <3>3
  <2>3. at' \in [lead : Nat \ {0}, trail : Nat \ {0}]
    BY <1>1, <2>1
  <2>4. Walked'
    BY <1>2, <2>2, <2>3 DEF Walking, Walked
  <2> QED
    BY <1>3, <2>4 DEF Walking
<1>7. CASE SkipLeading
  <2>1. at' = [lead |-> a + 1, trail |-> b] /\ Before(Place(L[a]), Place(T[b]))
    <3>1. at' = [lead |-> a + 1, trail |-> b]
      BY <1>7 DEF SkipLeading, Walking, Walked
    <3> QED
      BY <1>5, <1>7, <3>1, PlacesInOrder DEF SkipLeading, LeadPlace, TrailPlace
  <2>2. ASSUME InOrder(out_mem.truth), NEW i \in 1..Len(L), NEW j \in 1..Len(T),
               Passed(i, j)', Place(L[i]) = Place(T[j]), Match(L[i], T[j])
        PROVE  HitOf(L[i], T[j]) \in out_mem.hits
    <3>1. i < a + 1 \/ j < b
      BY <2>1, <2>2 DEF Passed
    <3>2. CASE i < a \/ j < b
      BY <2>2, <3>2 DEF Walking, Walked, Passed
    <3>3. CASE j >= b /\ i = a
      <4>1. ~Before(Place(T[j]), Place(T[b]))
        <5>1. CASE j = b
          BY <1>5, <5>1, PlacesInOrder
        <5>2. CASE j > b
          BY <1>1, <1>4, <2>2, <5>2 DEF Sorted
        <5> QED
          BY <1>1, <3>3, <5>1, <5>2
      <4> QED
        BY <2>1, <2>2, <3>3, <4>1
    <3> QED
      BY <1>1, <3>1, <3>2, <3>3
  <2>3. at' \in [lead : Nat \ {0}, trail : Nat \ {0}]
    BY <1>1, <2>1
  <2>4. Walked'
    BY <1>2, <2>2, <2>3 DEF Walking, Walked
  <2> QED
    BY <1>3, <2>4 DEF Walking
<1> QED
  BY <1>6, <1>7

(* A group of edges is passed with all hits of its place: in order, no     *)
(* later edge is of that place.                                            *)
LEMMA GroupStep ==
  ASSUME Walking, TakeGroup, out_mem \in Out
  PROVE  Walking'
<1> DEFINE a == at.lead
           b == at.trail
           L == TofLeadingHits
           T == TofTrailingHits
           l == EndOfGroup(L, a)
           t == EndOfGroup(T, b)
           e == out_mem.truth
           new == HitsOf(Elements(L, a, l), Elements(T, b, t))
<1>1. /\ L \in Seq(Edge) /\ T \in Seq(Edge) /\ Len(L) \in Nat /\ Len(T) \in Nat
      /\ \A i \in 1..Len(L) : L[i] \in Edge /\ L[i] \in LeadsOf(e)
      /\ \A j \in 1..Len(T) : T[j] \in Edge /\ T[j] \in TrailsOf(e)
      /\ InOrder(e) => Sorted(L) /\ Sorted(T)
      /\ a \in Nat \ {0} /\ b \in Nat \ {0}
  BY WalkingFacts
<1>2. L' = L /\ T' = T /\ at' = [lead |-> l + 1, trail |-> t + 1]
      /\ out_mem' = [out_mem EXCEPT !.hits = @ \cup new]
  BY DEF TakeGroup, tracker
<1>3. out_mem'.truth = e /\ out_mem'.hits = out_mem.hits \cup new
  BY <1>2 DEF Out
<1>4. Lists(out_mem.truth, {})'
  BY <1>2, <1>3 DEF Walking, Lists
<1>5. a \in 1..Len(L) /\ b \in 1..Len(T) /\ Place(L[a]) = Place(T[b])
  BY <1>1 DEF TakeGroup, AtEdges, LeadPlace, TrailPlace
<1>6. /\ l \in a..Len(L) /\ \A k \in a..l : Place(L[k]) = Place(L[a])
      /\ Sorted(L) => \A k \in 1..Len(L) : k > l => Place(L[k]) # Place(L[a])
  BY <1>1, <1>5, GroupEnds
<1>7. /\ t \in b..Len(T) /\ \A k \in b..t : Place(T[k]) = Place(T[b])
      /\ Sorted(T) => \A k \in 1..Len(T) : k > t => Place(T[k]) # Place(T[b])
  BY <1>1, <1>5, GroupEnds
<1> HIDE DEF l, t
<1>8. \A h : h \in new <=> \E i \in a..l, j \in b..t : Match(L[i], T[j]) /\ h = HitOf(L[i], T[j])
  <2>1. /\ \A x : x \in Elements(L, a, l) <=> \E i \in a..l : x = L[i]
        /\ \A y : y \in Elements(T, b, t) <=> \E j \in b..t : y = T[j]
    BY DEF Elements
  <2>2. \A h : h \in new <=>
                 \E x \in Elements(L, a, l), y \in Elements(T, b, t) : Match(x, y) /\ h = HitOf(x, y)
    BY HitsOfAre
  <2> HIDE DEF new, L, T, a, b
  <2> QED
    BY <2>1, <2>2
<1> HIDE DEF new
<1>9. new \subseteq PlaceHits(e)
  <2> SUFFICES ASSUME NEW h \in new PROVE h \in PlaceHits(e)
    OBVIOUS
  <2>1. PICK i \in a..l, j \in b..t : Match(L[i], T[j]) /\ h = HitOf(L[i], T[j])
    BY <1>8
  <2>2. i \in 1..Len(L) /\ j \in 1..Len(T)
    BY <1>1, <1>6, <1>7
  <2>3. Place(L[i]) = Place(T[j])
    BY <1>5, <1>6, <1>7
  <2> QED
    BY <1>1, <2>1, <2>2, <2>3, PlaceHitsAre
<1>10. ASSUME InOrder(e), NEW i \in 1..Len(L), NEW j \in 1..Len(T),
              Passed(i, j)', Place(L[i]) = Place(T[j]), Match(L[i], T[j])
       PROVE  HitOf(L[i], T[j]) \in out_mem'.hits
  <2>1. i < l + 1 \/ j < t + 1
    BY <1>2, <1>10 DEF Passed
  <2>2. CASE i < a \/ j < b
    BY <1>3, <1>10, <2>2 DEF Walking, Walked, Passed
  <2>3. CASE i >= a /\ j >= b
    <3>1. i <= l
      <4> SUFFICES ASSUME i > l PROVE FALSE
        BY <1>6
      <4>1. j \in b..t
        BY <1>7, <2>1, <2>3, <1>6
      <4> QED
        BY <1>1, <1>5, <1>6, <1>7, <1>10, <4>1
    <3>2. j <= t
      <4> SUFFICES ASSUME j > t PROVE FALSE
        BY <1>7
      <4>1. i \in a..l
        BY <1>6, <2>1, <2>3, <1>7
      <4> QED
        BY <1>1, <1>5, <1>6, <1>7, <1>10, <4>1
    <3>3. i \in a..l /\ j \in b..t
      BY <1>6, <1>7, <2>3, <3>1, <3>2
    <3> QED
      BY <1>3, <1>8, <1>10, <3>3
  <2> QED
    BY <1>1, <2>2, <2>3
<1>11. at' \in [lead : Nat \ {0}, trail : Nat \ {0}]
  <2>1. l + 1 \in Nat \ {0} /\ t + 1 \in Nat \ {0}
    BY <1>1, <1>6, <1>7
  <2> QED
    BY <1>2, <2>1
<1>12. out_mem'.hits \subseteq PlaceHits(out_mem'.truth)
  BY <1>3, <1>9 DEF Walking, Walked
<1>13. Walked'
  BY <1>2, <1>3, <1>10, <1>11, <1>12 DEF Walked
<1> QED
  BY <1>4, <1>13 DEF Walking

(* At the end of either list all pairs are passed.                         *)
LEMMA AllPassed ==
  ASSUME Walking, task = "tracking", ~AtEdges, InOrder(out_mem.truth), out_mem \in Out
  PROVE  PlaceHits(out_mem.truth) \subseteq out_mem.hits
<1> DEFINE L == TofLeadingHits
           T == TofTrailingHits
           e == out_mem.truth
<1> SUFFICES ASSUME NEW h \in PlaceHits(e) PROVE h \in out_mem.hits
  OBVIOUS
<1>1. PICK x \in LeadsOf(e), y \in TrailsOf(e) : Place(x) = Place(y) /\ Match(x, y) /\ h = HitOf(x, y)
  BY PlaceHitsAre
<1>2. (\E i \in 1..Len(L) : L[i] = x) /\ (\E j \in 1..Len(T) : T[j] = y)
  BY DEF Walking, Lists, Collected
<1>3. PICK i \in 1..Len(L) : L[i] = x
  BY <1>2
<1>4. PICK j \in 1..Len(T) : T[j] = y
  BY <1>2
<1>5. Len(L) \in Nat /\ Len(T) \in Nat /\ at.lead \in Nat /\ at.trail \in Nat
  BY WalkingFacts
<1>6. at.lead > Len(L) \/ at.trail > Len(T)
  BY <1>5 DEF AtEdges
<1>7. Passed(i, j)
  BY <1>5, <1>6 DEF Passed
<1> QED
  BY <1>1, <1>3, <1>4, <1>7 DEF Walking, Walked

------------------------------------------------------------------------------
(* Types.                                                                  *)

(* An instance that answered has a rank among those that did.              *)
LEMMA SomeNth ==
  ASSUME NEW up \in SUBSET Slots, NEW s \in Slots, s < Cardinality(up)
  PROVE  \E i \in up : Cardinality({j \in up : j < i}) = s
<1> DEFINE Under(k) == {j \in up : j < k}
           Rank(k) == Cardinality(Under(k))
           more == {k \in 0..GL3_MAX_TASKS : Rank(k) > s}
<1>1. GL3_MAX_TASKS \in Nat /\ up \subseteq Nat /\ s \in Nat /\ \A j \in up : j < GL3_MAX_TASKS
  BY SomeInstance DEF Slots
<1>2. IsFiniteSet(up)
  <2>1. IsFiniteSet(Slots)
    BY <1>1, FS_Interval DEF Slots
  <2> QED
    BY <2>1, FS_Subset
<1>3. \A k : IsFiniteSet(Under(k)) /\ Rank(k) \in Nat
  <2> TAKE k
  <2>1. Under(k) \in SUBSET up
    OBVIOUS
  <2> HIDE DEF Under
  <2>2. IsFiniteSet(Under(k))
    BY <1>2, <2>1, FS_Subset
  <2> QED
    BY <2>2, FS_CardinalityType
<1>4. Under(0) = {} /\ Under(GL3_MAX_TASKS) = up
  <2>1. \A j \in up : j \in Nat /\ j < GL3_MAX_TASKS /\ ~(j < 0)
    BY <1>1
  <2> QED
    BY <2>1, Zenon
<1>5. Rank(0) = 0 /\ GL3_MAX_TASKS \in more
  <2>1. Rank(0) = 0
    BY <1>4, FS_EmptySet
  <2>2. Rank(GL3_MAX_TASKS) > s
    BY <1>4
  <2> HIDE DEF Rank
  <2> QED
    BY <1>1, <2>1, <2>2
<1>6. PICK k \in more : \A m \in more : k <= m
  <2>1. more \in SUBSET Nat
    BY <1>1
  <2> HIDE DEF more
  <2> QED
    BY <1>5, <2>1, LeastNumber
<1>7. k \in 0..GL3_MAX_TASKS /\ Rank(k) > s
  BY <1>6
<1>8. k # 0
  <2> HIDE DEF Rank
  <2> QED
    BY <1>1, <1>5, <1>7
<1>9. k - 1 \in 0..GL3_MAX_TASKS /\ ~(Rank(k - 1) > s)
  <2>1. k - 1 \in 0..GL3_MAX_TASKS /\ ~(k <= k - 1)
    BY <1>1, <1>7, <1>8
  <2> HIDE DEF Rank
  <2> QED
    BY <1>6, <2>1
<1>10. Rank(k) = IF k - 1 \in up THEN Rank(k - 1) + 1 ELSE Rank(k - 1)
  <2>1. CASE k - 1 \in up
    <3>1. Under(k) = Under(k - 1) \cup {k - 1} /\ k - 1 \notin Under(k - 1)
      <4>1. \A j \in up : j < k <=> j < k - 1 \/ j = k - 1
        BY <1>1, <1>7
      <4>2. ~(k - 1 < k - 1)
        BY <1>7
      <4> QED
        BY <2>1, <4>1, <4>2, Zenon
    <3> HIDE DEF Under
    <3>2. Cardinality(Under(k - 1) \cup {k - 1}) = Cardinality(Under(k - 1)) + 1
      BY <1>3, <3>1, FS_AddElement
    <3> QED
      BY <2>1, <3>1, <3>2
  <2>2. CASE k - 1 \notin up
    <3>1. Under(k) = Under(k - 1)
      <4>1. \A j \in up : j < k <=> j < k - 1 \/ j = k - 1
        BY <1>1, <1>7
      <4> QED
        BY <2>2, <4>1, Zenon
    <3> HIDE DEF Under
    <3> QED
      BY <2>2, <3>1
  <2> QED
    BY <2>1, <2>2
<1>11. k - 1 \in up /\ Rank(k - 1) = s
  <2>1. Rank(k) \in Nat /\ Rank(k - 1) \in Nat
    BY <1>3
  <2> HIDE DEF Rank
  <2> QED
    BY <1>1, <1>7, <1>9, <1>10, <2>1
<1> QED
  BY <1>11

(* The variables that have a type whatever else is true.                   *)
Kinds ==
  /\ nEvents \in Nat /\ running \in {"stopped", "running"}
  /\ broker \in {"idle", "waiting", "filling"} /\ filled \subseteq Rdos
  /\ task \in {"receive", "reading", "tracking", "sending"} /\ rdoLeft \subseteq Rdos
  /\ run_started \in BOOLEAN /\ run_number \in Nat /\ dropped \in BOOLEAN
  /\ mounted \in [Slots -> Slots \cup {-1}] /\ gl3_num \in 0..GL3_MAX_TASKS
  /\ skipped \subseteq Slots

LEMMA KindsInit == Init => Kinds
<1> SUFFICES ASSUME Init PROVE Kinds
  OBVIOUS
<1>1. 0 \in 0..GL3_MAX_TASKS
  BY SomeInstance
<1>2. mounted \in [Slots -> Slots \cup {-1}] /\ skipped \subseteq Slots /\ gl3_num = 0
  BY DEF Init
<1>3. filled \subseteq Rdos /\ rdoLeft \subseteq Rdos
  BY DEF Init
<1>4. /\ nEvents = 0 /\ running = "stopped" /\ broker = "idle" /\ task = "receive"
      /\ run_started = FALSE /\ run_number = 0 /\ dropped = FALSE
  BY DEF Init
<1> QED
  BY <1>1, <1>2, <1>3, <1>4 DEF Kinds

LEMMA SlotChosen ==
  ASSUME gl3_num \in 0..GL3_MAX_TASKS, gl3_num > 0, NEW t \in Nat
  PROVE  Choose(t) \in Slots
<1>1. GL3_MAX_TASKS \in Nat /\ gl3_num \in Nat /\ gl3_num <= GL3_MAX_TASKS
  BY SomeInstance
<1>2. t % gl3_num \in 0..gl3_num - 1
  BY <1>1
<1> QED
  BY <1>1, <1>2 DEF Choose, Slots

LEMMA KindsStep ==
  ASSUME MemInv, Kinds, out_mem.token \in Nat, [Next]_vars
  PROVE  Kinds'
<1>1. CASE DoConfig
  <2>1. PICK up \in SUBSET Slots :
          /\ mounted' = [s \in Slots |-> IF up = {} \/ s >= Cardinality(up) THEN -1
                                        ELSE CHOOSE i \in up : Cardinality({j \in up : j < i}) = s]
          /\ gl3_num' = Cardinality(up)
          /\ skipped' = Slots \ up
    BY <1>1 DEF DoConfig
  <2>2. Cardinality(up) \in 0..GL3_MAX_TASKS
    <3>1. IsFiniteSet(Slots) /\ Cardinality(Slots) = GL3_MAX_TASKS
      BY SomeInstance, NthOfAll, FS_Interval DEF Slots
    <3>2. IsFiniteSet(up) /\ Cardinality(up) <= GL3_MAX_TASKS
      BY <3>1, FS_Subset
    <3>3. Cardinality(up) \in Nat
      BY <3>2, FS_CardinalityType
    <3> QED
      BY <3>2, <3>3, SomeInstance
  <2>3. ASSUME NEW s \in Slots PROVE mounted'[s] \in Slots \cup {-1}
    <3> DEFINE nth == CHOOSE i \in up : Cardinality({j \in up : j < i}) = s
    <3>1. mounted'[s] = IF up = {} \/ s >= Cardinality(up) THEN -1 ELSE nth
      BY <2>1
    <3>2. CASE s >= Cardinality(up)
      BY <3>1, <3>2
    <3>3. CASE ~(s >= Cardinality(up))
      <4>1. s < Cardinality(up)
        BY <2>2, <3>3, SomeInstance DEF Slots
      <4>2. nth \in up
        BY <4>1, SomeNth
      <4> HIDE DEF nth
      <4> QED
        BY <3>1, <4>2
    <3> QED
      BY <3>2, <3>3
  <2>4. mounted' \in [Slots -> Slots \cup {-1}]
    <3>1. mounted' = [s \in Slots |-> mounted'[s]]
      BY <2>1
    <3> QED
      BY <2>3, <3>1
  <2>5. UNCHANGED <<nEvents, running, broker, filled, task, rdoLeft, run_started, run_number, dropped>>
    BY <1>1 DEF DoConfig, control, filling
  <2>6. skipped' \subseteq Slots
    BY <2>1
  <2> QED
    BY <2>1, <2>2, <2>4, <2>5, <2>6 DEF Kinds
<1>2. CASE DoRunStart
  <2>1. Head(que) \in Message
    BY <1>2, Received DEF DoRunStart
  <2>2. run_number' \in Nat /\ run_started' = TRUE
    BY <1>2, <2>1 DEF DoRunStart, Message
  <2> QED
    BY <1>2, <2>2 DEF DoRunStart, Kinds, control, filling, links
<1>3. CASE DoRunStop
  <2>1. 0 \in 0..GL3_MAX_TASKS
    BY SomeInstance
  <2> QED
    BY <1>3, <2>1 DEF DoRunStop, Kinds, control, filling
<1>4. CASE Remount
  <2>1. Choose(out_mem.token) \in Slots
    BY <1>4, SlotChosen DEF Remount, Kinds
  <2>2. mounted' \in [Slots -> Slots \cup {-1}]
    <3>1. PICK to \in {Choose(out_mem.token), -1} :
            mounted' = [mounted EXCEPT ![Choose(out_mem.token)] = to]
      BY <1>4 DEF Remount
    <3> QED
      BY <2>1, <3>1 DEF Kinds
  <2> QED
    BY <1>4, <2>2 DEF Remount, Kinds, control, filling
<1>5. CASE ReadRdo
  BY <1>5 DEF ReadRdo, Kinds, control, filling, links
<1>6. CASE SendConfig \/ SendStop
  BY <1>6 DEF SendConfig, SendStop, Kinds, filling, links
<1>7. CASE GetEvent
  BY <1>7 DEF GetEvent, Kinds, control, rest, links
<1>8. CASE SemWait \/ SendEvent
  BY <1>8 DEF SemWait, SendEvent, Kinds, control, rest, links
<1>9. CASE \E r \in Rdos : \E words \in RdoData[r] : CopyRdo(r, words)
  BY <1>9 DEF CopyRdo, Kinds, control, rest, links
<1>10. CASE CannotTrack \/ StartTrack
  BY <1>10 DEF CannotTrack, StartTrack, Kinds, control, filling, links
<1>11. CASE SemPost
  BY <1>11 DEF SemPost, Kinds, control, filling, links
<1>12. CASE TakeGroup \/ SkipTrailing \/ SkipLeading \/ EndEvent
  BY <1>12 DEF TakeGroup, SkipTrailing, SkipLeading, EndEvent, Kinds, whole, control, filling, links
<1>13. CASE DoSend \/ SendNone
  BY <1>13 DEF DoSend, SendNone, Kinds, control, filling, links
<1>14. CASE UNCHANGED vars
  BY <1>14 DEF vars, Kinds, control, filling, links
<1> QED
  BY <1>1, <1>2, <1>3, <1>4, <1>5, <1>6, <1>7, <1>8, <1>9, <1>10, <1>11, <1>12, <1>13, <1>14
  DEF Next, Task, Broker

(* A pair of edges that match has a hit of the detector's range.           *)
LEMMA HitIs ==
  ASSUME NEW x \in Edge, NEW y \in Edge, Match(x, y)
  PROVE  HitOf(x, y) \in Hit
<1>1. /\ x.trayid \in Tray /\ x.chan \in Channel /\ x.tdc \in Nat /\ y.tdc \in Nat
  BY DEF Edge
<1>2. MaxTot \in Nat /\ TDIG2MRPCChan \in [Channel -> Channel]
  BY TaskAssumption DEF Channel
<1>3. y.tdc - x.tdc \in 0..MaxTot
  BY DEF Match
<1>4. (IF x.trayid \in 121..122 THEN Least(VpdChannel(x, y)) - 1 ELSE TDIG2MRPCChan[x.chan]) \in Channel
  <2>1. CASE x.trayid \in 121..122
    <3>1. VpdChannel(x, y) # {}
      BY <2>1 DEF Match
    <3>2. Len(VpdLE[x.trayid]) \in Nat /\ Len(VpdLE[x.trayid]) <= 19
      <4>1. VpdLE \in [121..122 -> Seq(0..191)] /\ \A tray \in 121..122 : Len(VpdLE[tray]) <= 19
        BY TaskAssumption
      <4>2. VpdLE[x.trayid] \in Seq(0..191) /\ Len(VpdLE[x.trayid]) <= 19
        BY <2>1, <4>1
      <4> QED
        BY <4>2, LenProperties
    <3>3. \A i \in VpdChannel(x, y) : i \in 1..19
      BY <3>2 DEF VpdChannel
    <3> DEFINE ix == Least(VpdChannel(x, y))
    <3>4. ix \in VpdChannel(x, y)
      BY <3>1, <3>3, LeastIs
    <3> HIDE DEF ix
    <3>5. ix - 1 \in Channel
      BY <3>3, <3>4 DEF Channel
    <3> QED
      BY <2>1, <3>5 DEF ix
  <2>2. CASE x.trayid \notin 121..122
    BY <1>1, <1>2, <2>2
  <2> QED
    BY <2>1, <2>2
<1>5. x.trayid - 1 \in {t - 1 : t \in Tray}
  BY <1>1
<1> QED
  BY <1>1, <1>3, <1>4, <1>5 DEF HitOf, Hit

------------------------------------------------------------------------------
(* The hits.  While boards are read, the lists are those of the event;     *)
(* while the lists are walked along, the hits are of the pairs passed.     *)
HitsInv ==
  /\ at \in [lead : Nat \ {0}, trail : Nat \ {0}]
  /\ out_mem \in Out /\ sent \in [to : Slots \cup {-1}, event : Out]
  /\ task \in {"receive", "sending"} => TofLeadingHits = << >> /\ TofTrailingHits = << >>
  /\ task = "reading" => Earlier(rdoLeft) /\ Lists(msg.truth, rdoLeft)
  /\ task = "tracking" => Walking
  /\ OwnHits /\ NoHitMissed

LEMMA NoOutIsOut == NoOut \in Out
<1>1. NoEvent \in Event /\ 0 \in 0..LastToken
  BY NoEventIsEvent, TokenRange
<1> HIDE DEF NoEvent
<1> QED
  BY <1>1 DEF NoOut, Out

LEMMA HitsInit == Init => HitsInv
<1> SUFFICES ASSUME Init PROVE HitsInv
  OBVIOUS
<1>1. task = "receive" /\ TofLeadingHits = << >> /\ TofTrailingHits = << >>
  BY DEF Init
<1>2. at \in [lead : Nat \ {0}, trail : Nat \ {0}]
  BY DEF Init
<1>3. out_mem = NoOut /\ sent = [to |-> -1, event |-> NoOut]
  BY DEF Init
<1>4. out_mem \in Out /\ sent \in [to : Slots \cup {-1}, event : Out]
  BY <1>3, NoOutIsOut
<1> QED
  BY <1>1, <1>2, <1>4 DEF HitsInv, OwnHits, NoHitMissed

mine == <<task, msg, rdoLeft, TofLeadingHits, TofTrailingHits, out_mem, at, sent>>

LEMMA HitsKept == HitsInv /\ UNCHANGED mine => HitsInv'
BY DEF HitsInv, mine, Lists, Walking, Walked, Passed, OwnHits, NoHitMissed

LEMMA OutKept ==
  ASSUME NEW o \in Out, NEW p, p = [o EXCEPT !.hits = p.hits], p.hits \subseteq PlaceHits(o.truth)
  PROVE  p \in Out
<1>1. o.truth \in Event
  BY DEF Out
<1>2. PlaceHits(o.truth) \subseteq Hit
  <2> SUFFICES ASSUME NEW h \in PlaceHits(o.truth) PROVE h \in Hit
    OBVIOUS
  <2>1. PICK x \in LeadsOf(o.truth), y \in TrailsOf(o.truth) : Match(x, y) /\ h = HitOf(x, y)
    BY PlaceHitsAre
  <2>2. x \in Edge /\ y \in Edge
    BY <1>1, EdgesOf
  <2> QED
    BY <2>1, <2>2, HitIs
<1>3. p.hits \in SUBSET Hit
  BY <1>2
<1> QED
  BY <1>3 DEF Out

LEMMA HitsStep ==
  ASSUME MemInv, Kinds, HitsInv, [Next]_vars
  PROVE  HitsInv'
<1>1. CASE DoConfig
  <2>1. task = "receive" /\ task' = "receive" /\ TofLeadingHits' = << >> /\ TofTrailingHits' = << >>
        /\ UNCHANGED <<at, out_mem, sent>>
    BY <1>1 DEF DoConfig, Receives
  <2> QED
    BY <2>1 DEF HitsInv, OwnHits, NoHitMissed
<1>2. CASE StartTrack
  <2>1. /\ task = "receive" /\ task' = "reading" /\ rdoLeft' = Rdos /\ msg' = Head(que)
        /\ UNCHANGED <<tracker, at, out_mem, sent>> /\ Head(que) \in Message
    BY <1>2, Received DEF StartTrack, Receives
  <2> DEFINE e == Head(que).truth
  <2>2. e \in Event /\ msg'.truth = e
    BY <2>1 DEF Message
  <2>3. TofLeadingHits' = << >> /\ TofTrailingHits' = << >>
    BY <2>1 DEF HitsInv, tracker
  <2>4. LeadsOf(e) \subseteq Edge /\ TrailsOf(e) \subseteq Edge /\ InOrder(e) \in BOOLEAN
    BY <2>2, EdgesOf, InOrderIs
  <2> HIDE DEF e
  <2>5. Lists(msg.truth, rdoLeft)'
    BY <2>1, <2>2, <2>3, <2>4, NothingCollected DEF Lists
  <2>6. Earlier(rdoLeft)'
    BY <2>1 DEF Earlier
  <2> QED
    BY <2>1, <2>5, <2>6 DEF HitsInv, OwnHits, NoHitMissed
<1>3. CASE ReadRdo
  <2>1. task = "reading" /\ task' = "reading" /\ UNCHANGED <<at, out_mem, sent>>
    BY <1>3 DEF ReadRdo
  <2>2. Earlier(rdoLeft') /\ Lists(msg.truth, rdoLeft)'
    BY <1>3, <2>1, ReadStep DEF HitsInv, Kinds
  <2> QED
    BY <2>1, <2>2 DEF HitsInv, OwnHits, NoHitMissed
<1>4. CASE SemPost
  <2>1. /\ task = "reading" /\ task' = "tracking" /\ rdoLeft = {} /\ UNCHANGED <<tracker, sent>>
        /\ at' = [lead |-> 1, trail |-> 1]
        /\ out_mem' = [token |-> msg.token, run |-> run_number, truth |-> msg.truth, hits |-> {}]
    BY <1>4 DEF SemPost
  <2>2. out_mem' \in Out /\ out_mem'.truth = msg.truth /\ out_mem'.hits = {}
    <3>1. msg.token \in 0..LastToken /\ msg.truth \in Event /\ run_number \in Nat
      BY DEF MemInv, Shapes, Message, Kinds
    <3> QED
      BY <2>1, <3>1 DEF Out
  <2>3. Lists(out_mem.truth, {})'
    <3>1. Lists(msg.truth, {})
      BY <2>1 DEF HitsInv
    <3> QED
      BY <2>1, <2>2, <3>1 DEF Lists, tracker
  <2>4. at'.lead = 1 /\ at'.trail = 1 /\ at' \in [lead : Nat \ {0}, trail : Nat \ {0}]
    BY <2>1
  <2>5. \A i \in 1..Len(TofLeadingHits'), j \in 1..Len(TofTrailingHits') : ~Passed(i, j)'
    BY <2>4 DEF Passed
  <2>6. Walked'
    BY <2>2, <2>4, <2>5 DEF Walked
  <2> QED
    BY <2>1, <2>2, <2>3, <2>4, <2>6 DEF HitsInv, Walking, OwnHits, NoHitMissed
<1>5. CASE TakeGroup
  <2>1. task = "tracking" /\ task' = "tracking" /\ sent' = sent
    BY <1>5 DEF TakeGroup, AtEdges, whole
  <2>2. Walking /\ out_mem \in Out
    BY <2>1 DEF HitsInv
  <2>3. Walking'
    BY <1>5, <2>2, GroupStep
  <2>4. out_mem' \in Out
    <3>1. PICK h : out_mem' = [out_mem EXCEPT !.hits = h]
      BY <1>5 DEF TakeGroup
    <3>2. out_mem'.hits = h /\ out_mem'.truth = out_mem.truth
      BY <2>2, <3>1 DEF Out
    <3>3. out_mem'.hits \subseteq PlaceHits(out_mem.truth)
      BY <2>3, <3>2 DEF Walking, Walked
    <3> QED
      BY <2>2, <3>1, <3>2, <3>3, OutKept
  <2>5. at' \in [lead : Nat \ {0}, trail : Nat \ {0}]
    BY <2>3 DEF Walking, Walked
  <2> QED
    BY <2>1, <2>3, <2>4, <2>5 DEF HitsInv, OwnHits, NoHitMissed
<1>6. CASE SkipTrailing \/ SkipLeading
  <2>1. task = "tracking" /\ task' = "tracking" /\ UNCHANGED <<sent, out_mem>>
    BY <1>6 DEF SkipTrailing, SkipLeading, AtEdges, whole
  <2>2. Walking'
    BY <1>6, <2>1, SkipStep DEF HitsInv
  <2>3. at' \in [lead : Nat \ {0}, trail : Nat \ {0}]
    BY <2>2 DEF Walking, Walked
  <2> QED
    BY <2>1, <2>2, <2>3 DEF HitsInv, OwnHits, NoHitMissed
<1>7. CASE EndEvent
  <2>1. /\ task = "tracking" /\ ~AtEdges /\ task' = "sending"
        /\ TofLeadingHits' = << >> /\ TofTrailingHits' = << >> /\ UNCHANGED <<sent, out_mem, at>>
    BY <1>7 DEF EndEvent, whole
  <2>2. Walking
    BY <2>1 DEF HitsInv
  <2>3. out_mem.hits \subseteq PlaceHits(out_mem.truth)
    BY <2>2 DEF Walking, Walked
  <2>4. InOrder(out_mem.truth) => PlaceHits(out_mem.truth) \subseteq out_mem.hits
    BY <2>1, <2>2, AllPassed DEF HitsInv
  <2>5. OwnHits' /\ NoHitMissed'
    BY <2>1, <2>3, <2>4 DEF OwnHits, NoHitMissed
  <2> QED
    BY <2>1, <2>5 DEF HitsInv
<1>8. CASE DoSend
  <2>1. /\ task = "sending" /\ task' = "receive" /\ gl3_num > 0
        /\ sent' = [to |-> mounted[Choose(out_mem.token)], event |-> out_mem]
        /\ UNCHANGED <<tracker, out_mem, at>>
    BY <1>8 DEF DoSend
  <2>2. out_mem.token \in Nat
    BY TokenRange DEF HitsInv, Out
  <2>3. mounted[Choose(out_mem.token)] \in Slots \cup {-1}
    BY <2>1, <2>2, SlotChosen DEF Kinds
  <2>4. sent' \in [to : Slots \cup {-1}, event : Out]
    BY <2>1, <2>3 DEF HitsInv
  <2> QED
    BY <2>1, <2>4 DEF HitsInv, OwnHits, NoHitMissed, tracker
<1>9. CASE Remount \/ SendNone
  <2>1. task = "sending" /\ task' = "receive" /\ UNCHANGED <<tracker, out_mem, at, sent>>
    BY <1>9 DEF Remount, SendNone
  <2> QED
    BY <2>1 DEF HitsInv, OwnHits, NoHitMissed, tracker
<1>10. SendConfig \/ SendStop \/ Broker \/ UNCHANGED vars \/ DoRunStart \/ DoRunStop \/ CannotTrack
       => UNCHANGED mine
  BY DEF SendConfig, SendStop, Broker, GetEvent, SemWait, CopyRdo, SendEvent, vars, DoRunStart,
         DoRunStop, CannotTrack, rest, tracker, mine
<1> QED
  BY <1>1, <1>2, <1>3, <1>4, <1>5, <1>6, <1>7, <1>8, <1>9, <1>10, HitsKept DEF Next, Task

Inv == MemInv /\ Kinds /\ HitsInv

LEMMA InvInit == Init => Inv
BY MemInit, KindsInit, HitsInit DEF Inv

LEMMA InvStep == Inv /\ [Next]_vars => Inv'
<1> SUFFICES ASSUME Inv, [Next]_vars PROVE Inv'
  OBVIOUS
<1>1. out_mem.token \in Nat
  BY TokenRange DEF Inv, HitsInv, Out
<1> QED
  BY <1>1, MemStep, KindsStep, HitsStep DEF Inv

(* Whatever the boards bring, tokens stay within the range that the broker *)
(* goes round, the semaphore is never above 1, every edge is of a tray     *)
(* 1..122 or 124 and a channel 0..191, every hit is of one of these trays  *)
(* and of a channel the tables have, and do_event's positions are never 0. *)
THEOREM TypeCorrect == Spec => []TypeOK
<1>1. Inv => TypeOK
  <2> SUFFICES ASSUME Inv PROVE TypeOK
    OBVIOUS
  <2>1. TofLeadingHits \in Seq(Edge) /\ TofTrailingHits \in Seq(Edge)
    <3>1. CASE task \in {"receive", "sending"}
      BY <3>1, EmptySeq DEF Inv, HitsInv
    <3>2. CASE task = "reading"
      BY <3>2 DEF Inv, HitsInv, Lists, Collected
    <3>3. CASE task = "tracking"
      BY <3>3 DEF Inv, HitsInv, Walking, Lists, Collected
    <3> QED
      BY <3>1, <3>2, <3>3 DEF Inv, Kinds
  <2>2. msg.token \in 0..LastToken /\ msg.len \in Event /\ msg.truth \in Event
    BY DEF Inv, MemInv, Shapes, Message
  <2> QED
    BY <2>1, <2>2 DEF Inv, MemInv, Shapes, Kinds, HitsInv, TypeOK
<1> QED
  BY <1>1, InvInit, InvStep, PTL DEF Spec

(* The message of an event has hits of the edges of its own words only,    *)
(* and if the edges of each board come in order (by tray, no channel taken *)
(* from before) then it has the hits of all pairs that match: do_event's   *)
(* walk along two lists that nobody sorts misses none.                     *)
THEOREM HitsAreExact == Spec => []HitsExact
<1>1. Inv => HitsExact
  BY DEF Inv, MemInv, HitsInv, Written, Holds, ReadsOwnWords, HitsExact
<1> QED
  BY <1>1, InvInit, InvStep, PTL DEF Spec
=============================================================================
