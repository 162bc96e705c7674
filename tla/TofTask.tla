------------------------------- MODULE TofTask -------------------------------
(***************************************************************************)
(* The time-of-flight task of a sector.  A broker writes the words of an   *)
(* event into shared memory, under a semaphore, and queues its token; the  *)
(* task reads them, gives the memory back, makes hits of the edges and     *)
(* sends the hits to one of the GL3 instances.  Run control configures,    *)
(* starts and stops the task through the same queue.                       *)
(*                                                                         *)
(* The broker is DAQ's; it is modelled as sender_thread, which emulates    *)
(* it, but next to run control and not in one thread with it.  Times are   *)
(* integers, and the corrections of a hit are left out.  `truth' is what   *)
(* the broker wrote for the event; no code looks at it.                    *)
(***************************************************************************)
EXTENDS Integers, Sequences, FiniteSets

CONSTANTS
  Rdos,              \* readout boards, 1..n
  RdoData,           \* what each readout board can bring: sequences of words
  Run13GMT,          \* the build option: trays without two of their boards
  CutLow, CutHigh,              \* cuts of each tray; of 124, what lies behind the tables
  MaxTot,
  TDIG2MRPCChan,     \* the numbering of the channels of a tray
  VpdLE, VpdTE,      \* upvpdLEchan and upvpdTEchan of each side
  GL3_MAX_TASKS, LastToken,
  MaxEvents, MaxRuns            \* bounds

(* A word has the bits of its type: tray and half of the geographical ones,*)
(* board (tdigid), channel on the board and time of an edge.               *)
Word == [type : {"geo", "time", "lead", "trail", "other"}, tray : 0..127, half : 0..1,
         board : 0..3, chan : 0..23, tdc : Nat]
Words == Seq(Word)

(* The trays an edge is taken of: 120 of the barrel and the two start      *)
(* detectors, that the tables are made for, and 124.                       *)
Tray == 1..122 \cup {124}

ASSUME TaskAssumption ==
  /\ Rdos \subseteq Nat /\ IsFiniteSet(Rdos) /\ RdoData \in [Rdos -> SUBSET Words]
  /\ Run13GMT \in BOOLEAN /\ {CutLow, CutHigh} \subseteq [Tray -> Int] /\ MaxTot \in Nat
  /\ TDIG2MRPCChan \in [0..191 -> 0..191]
  /\ {VpdLE, VpdTE} \subseteq [121..122 -> Seq(0..191)]
  /\ \A tray \in 121..122 : Len(VpdLE[tray]) = Len(VpdTE[tray]) /\ Len(VpdLE[tray]) <= 19
  /\ GL3_MAX_TASKS \in Nat \ {0} /\ LastToken \in Nat \ {0}
  /\ MaxEvents \in Nat /\ MaxRuns \in Nat

VARIABLES
  nRuns, nEvents, running,      \* of run control and the broker
  broker, token, filled, event, \* what the broker does, and what it has copied
  sem, shared_mem, que,
  task, msg, rdoLeft,           \* what the task does
  run_started, run_number,
  TofLeadingHits, TofTrailingHits,
  out_mem, at,                  \* the message, and the edges that do_event is at
  mounted, gl3_num,             \* the instance each slot is mounted to, or -1
  sent,                         \* the last message written, and to whom
  skipped, dropped              \* instances not mounted; an event was dropped

control == <<nRuns, running>>
filling == <<nEvents, broker, token, filled, event, shared_mem>>
tracker == <<TofLeadingHits, TofTrailingHits>>
links   == <<mounted, gl3_num, skipped>>
vars == <<control, filling, sem, que, task, msg, rdoLeft, run_started, run_number,
          tracker, out_mem, at, links, sent, dropped>>

Slots   == 0..GL3_MAX_TASKS - 1
Channel == 0..191
NoEvent == [r \in Rdos |-> <<>>]
NoMsg   == [cmd |-> "none", token |-> 0, len |-> NoEvent, truth |-> NoEvent, run |-> 0]
NoOut   == [token |-> 0, run |-> 0, hits |-> {}, truth |-> NoEvent]

Order(cmd, run) == [NoMsg EXCEPT !.cmd = cmd, !.run = run]

(* A semaphore that an earlier broker left at 0 is posted, so it begins    *)
(* at 1.                                                                   *)
Init ==
  /\ nRuns = 0 /\ nEvents = 0 /\ running = "stopped"
  /\ broker = "idle" /\ token = 1 /\ filled = {} /\ event = NoEvent
  /\ sem = 1 /\ shared_mem = NoEvent /\ que = <<>>
  /\ task = "receive" /\ msg = NoMsg /\ rdoLeft = {}
  /\ run_started = FALSE /\ run_number = 0
  /\ TofLeadingHits = <<>> /\ TofTrailingHits = <<>> /\ out_mem = NoOut
  /\ at = [lead |-> 1, trail |-> 1]
  /\ mounted = [s \in Slots |-> -1] /\ gl3_num = 0 /\ skipped = {}
  /\ sent = [to |-> -1, event |-> NoOut] /\ dropped = FALSE

------------------------------------------------------------------------------
(* Run control.                                                            *)
SendConfig ==
  /\ running = "stopped" /\ nRuns < MaxRuns
  /\ running' = "running" /\ nRuns' = nRuns + 1
  /\ que' = que \o <<Order("DAQ_SEND_CONFIG", 0), Order("DAQ_RUN_START", nRuns + 1)>>
  /\ UNCHANGED <<filling, sem, task, msg, rdoLeft, run_started, run_number, tracker, out_mem, at,
                 links, sent, dropped>>

SendStop ==
  /\ running = "running"
  /\ running' = "stopped"
  /\ que' = Append(que, Order("DAQ_RUN_STOP", 0))
  /\ UNCHANGED <<nRuns, filling, sem, task, msg, rdoLeft, run_started, run_number, tracker,
                 out_mem, at, links, sent, dropped>>

rest == <<task, msg, rdoLeft, run_started, run_number, tracker, out_mem, at, links, sent, dropped>>

(* The broker has an event and waits for the semaphore,                    *)
CanTake_Regardless == TRUE

CanTake == sem > 0

GetEvent ==
  /\ broker = "idle" /\ running = "running" /\ nEvents < MaxEvents
  /\ broker' = "waiting" /\ nEvents' = nEvents + 1
  /\ UNCHANGED <<control, token, filled, event, shared_mem, sem, que, rest>>

SemWait ==
  /\ broker = "waiting" /\ CanTake
  /\ sem' = IF sem > 0 THEN sem - 1 ELSE 0
  /\ broker' = "filling" /\ filled' = {}
  /\ event' = NoEvent
  /\ UNCHANGED <<control, nEvents, token, shared_mem, que, rest>>

(* copies what each board has brought,                                     *)
CopyRdo(r, words) ==
  /\ broker = "filling" /\ r \notin filled
  /\ filled' = filled \cup {r}
  /\ event' = [event EXCEPT ![r] = words]
  /\ shared_mem' = [shared_mem EXCEPT ![r] = words \o SubSeq(@, Len(words) + 1, Len(@))]
  /\ UNCHANGED <<control, nEvents, broker, token, sem, que, rest>>

(* and sends where it is, under the next token.                            *)
NextToken_Late(t) == IF t > LastToken THEN 1 ELSE t + 1

NextToken(t) == IF t + 1 > LastToken THEN 1 ELSE t + 1

SendEvent ==
  /\ broker = "filling" /\ filled = Rdos
  /\ que' = Append(que, [cmd |-> "DET_START_SL3", token |-> token, len |-> event,
                         truth |-> event, run |-> 0])
  /\ token' = NextToken(token)
  /\ broker' = "idle"
  /\ UNCHANGED <<control, nEvents, filled, event, shared_mem, sem, rest>>

------------------------------------------------------------------------------
(* The main loop of the task.                                              *)
Receives(cmd) == task = "receive" /\ que # <<>> /\ Head(que).cmd = cmd /\ que' = Tail(que)

(* do_config makes a new tracker and mounts the instances that answer, in  *)
(* the slots from the first.                                               *)
DoConfig ==
  /\ Receives("DAQ_SEND_CONFIG")
  /\ TofLeadingHits' = <<>> /\ TofTrailingHits' = <<>>
  /\ \E up \in SUBSET Slots :
       LET nth[s \in Slots] == IF up = {} \/ s >= Cardinality(up) THEN -1
                               ELSE CHOOSE i \in up : Cardinality({j \in up : j < i}) = s
       IN /\ mounted' = nth
          /\ gl3_num' = Cardinality(up)
          /\ skipped' = Slots \ up
  /\ UNCHANGED <<control, filling, sem, task, msg, rdoLeft, run_started, run_number, out_mem, at,
                 sent, dropped>>

DoRunStart ==
  /\ Receives("DAQ_RUN_START")
  /\ run_number' = Head(que).run /\ run_started' = TRUE
  /\ UNCHANGED <<control, filling, sem, task, msg, rdoLeft, tracker, out_mem, at, links, sent, dropped>>

DoRunStop ==
  /\ Receives("DAQ_RUN_STOP")
  /\ run_started' = FALSE
  /\ mounted' = [s \in Slots |-> -1] /\ gl3_num' = 0
  /\ UNCHANGED <<control, filling, sem, task, msg, rdoLeft, run_number, tracker, out_mem, at, skipped,
                 sent, dropped>>

(* An event that is queued behind the stop of its run is dropped, and the  *)
(* memory is not given back.                                               *)
CannotTrack ==
  /\ Receives("DET_START_SL3") /\ ~run_started
  /\ dropped' = TRUE
  /\ UNCHANGED <<control, filling, sem, task, msg, rdoLeft, run_started, run_number, tracker,
                 out_mem, at, links, sent>>

StartTrack ==
  /\ Receives("DET_START_SL3") /\ run_started
  /\ msg' = Head(que) /\ rdoLeft' = Rdos /\ task' = "reading"
  /\ UNCHANGED <<control, filling, sem, run_started, run_number, tracker, out_mem, at, links, sent,
                 dropped>>

------------------------------------------------------------------------------
GMT == {8, 23, 93, 108}
Unexpected(w, half, tray) == Run13GMT /\ tray \in GMT /\ w.board = (IF half = 0 THEN 1 ELSE 3)

GlobalTdcChan(w, half, tray) ==
  IF Run13GMT /\ tray \in GMT /\ w.board = 0 THEN w.chan + 24 + half * 96
  ELSE w.chan + w.board * 24 + half * 96

Least(is) == CHOOSE i \in is : \A j \in is : i <= j

(* While words are read: the tray and half of the last geographical one,   *)
(* the first time that is not 0, the last channel, and the edges so far.   *)
Edge   == [fiberid : Rdos, trayid : Tray, chan : Channel, tdc : Nat, triggertime : Nat]
Reader == [tray : 0..127, half : 0..1, triggertime : Nat, chan : Channel,
           lead : Seq(Edge), trail : Seq(Edge)]

NoWord(before) ==
  [tray |-> 0, half |-> 0, triggertime |-> 0, chan |-> before, lead |-> <<>>, trail |-> <<>>]

(* An edge of a board that its tray does not have is an error, but it is   *)
(* taken, with the channel of the edge before it.                          *)
EdgeChan(s, w) ==
  IF Unexpected(w, s.half, s.tray) THEN s.chan ELSE GlobalTdcChan(w, s.half, s.tray)

EdgeOf(rdo, s, w) ==
  [fiberid |-> rdo, trayid |-> s.tray, chan |-> EdgeChan(s, w), tdc |-> w.tdc,
   triggertime |-> s.triggertime]

ReadWord(rdo, w) == [s \in Reader |->
  IF w.type = "geo" THEN [s EXCEPT !.tray = w.tray, !.half = w.half]
  ELSE IF w.type = "time" THEN
    [s EXCEPT !.triggertime = IF s.triggertime = 0 THEN w.tdc ELSE s.triggertime]
  ELSE IF s.tray \notin Tray THEN s
  ELSE IF w.type = "lead" THEN
    [s EXCEPT !.chan = EdgeChan(s, w), !.lead = Append(s.lead, EdgeOf(rdo, s, w))]
  ELSE IF w.type = "trail" THEN
    [s EXCEPT !.chan = EdgeChan(s, w), !.trail = Append(s.trail, EdgeOf(rdo, s, w))]
  ELSE s]

ReadRdoEvent(rdo, words, before) ==
  LET after[i \in 0..Len(words)] ==
        IF i = 0 THEN NoWord(before) ELSE ReadWord(rdo, words[i])[after[i - 1]]
  IN after[Len(words)]

(* do_track goes through the boards; one that brought nothing is passed by.*)
ReadRdo ==
  /\ task = "reading" /\ rdoLeft # {}
  /\ LET r == Least(rdoLeft)
         n == Len(msg.len[r])
     IN /\ rdoLeft' = rdoLeft \ {r}
        /\ IF n = 0 THEN UNCHANGED tracker
           ELSE \E before \in {0, 191} :          \* not initialised
                  LET edges == ReadRdoEvent(r, SubSeq(shared_mem[r], 1, n), before)
                  IN /\ TofLeadingHits' = TofLeadingHits \o edges.lead
                     /\ TofTrailingHits' = TofTrailingHits \o edges.trail
  /\ UNCHANGED <<control, filling, sem, que, task, msg, run_started, run_number, out_mem, at, links,
                 sent, dropped>>

(* The memory is given back when all are read.                             *)
Posted_Never == sem

Posted == sem + 1

SemPost ==
  /\ task = "reading" /\ rdoLeft = {}
  /\ sem' = Posted
  /\ task' = "tracking" /\ at' = [lead |-> 1, trail |-> 1]
  /\ out_mem' = [token |-> msg.token, run |-> run_number, truth |-> msg.truth, hits |-> {}]
  /\ UNCHANGED <<control, filling, que, msg, rdoLeft, run_started, run_number, tracker, links, sent,
                 dropped>>

------------------------------------------------------------------------------
(* Two edges that make a hit; of the start detector if they are of two     *)
(* channels that belong together.                                          *)
VpdChannel(l, t) ==
  {i \in 1..Len(VpdLE[l.trayid]) : VpdLE[l.trayid][i] = l.chan /\ VpdTE[l.trayid][i] = t.chan}

TDiff(l) ==
  LET d == l.tdc - l.triggertime IN IF d < 0 THEN d % 51200 ELSE d

Match(l, t) ==
  /\ IF l.trayid \in 121..122 THEN VpdChannel(l, t) # {} ELSE l.chan = t.chan
  /\ TDiff(l) \in CutLow[l.trayid]..CutHigh[l.trayid]
  /\ t.tdc - l.tdc \in 0..MaxTot

HitOf(l, t) ==
  [tray |-> l.trayid - 1,
   channel |-> IF l.trayid \in 121..122 THEN Least(VpdChannel(l, t)) - 1 ELSE TDIG2MRPCChan[l.chan],
   tdc |-> l.tdc, tot |-> t.tdc - l.tdc]

Place(e) == <<e.fiberid, e.trayid>>
Before_Swapped(p, q) == q[1] < p[1] \/ (p[1] = q[1] /\ p[2] < q[2])

Before(p, q) == p[1] < q[1] \/ (p[1] = q[1] /\ p[2] < q[2])

(* The edges from i on that are of the same board and tray.                *)
EndOfGroup(edges, i) ==
  LET others == {j \in i..Len(edges) : Place(edges[j]) # Place(edges[i])}
  IN IF others = {} THEN Len(edges) ELSE Least(others) - 1

HitsOf(ls, ts) == {HitOf(p[1], p[2]) : p \in {q \in ls \X ts : Match(q[1], q[2])}}

Elements(s, a, b) == {s[k] : k \in a..b}

(* do_event goes through both lists side by side: the edges of a place     *)
(* that both are at make hits; else the list that is behind goes on by an  *)
(* edge.                                                                   *)
AtEdges == task = "tracking" /\ at.lead <= Len(TofLeadingHits) /\ at.trail <= Len(TofTrailingHits)
LeadPlace  == Place(TofLeadingHits[at.lead])
TrailPlace == Place(TofTrailingHits[at.trail])
whole == <<control, filling, sem, que, msg, rdoLeft, run_started, run_number, links, sent, dropped>>

TakeGroup ==
  /\ AtEdges /\ LeadPlace = TrailPlace
  /\ LET l == EndOfGroup(TofLeadingHits, at.lead)
         t == EndOfGroup(TofTrailingHits, at.trail)
     IN /\ out_mem' = [out_mem EXCEPT !.hits = @ \cup HitsOf(Elements(TofLeadingHits, at.lead, l),
                                                             Elements(TofTrailingHits, at.trail, t))]
        /\ at' = [lead |-> l + 1, trail |-> t + 1]
  /\ UNCHANGED <<whole, task, tracker>>

SkipTrailing ==
  /\ AtEdges /\ Before(TrailPlace, LeadPlace)
  /\ at' = [at EXCEPT !.trail = @ + 1]
  /\ UNCHANGED <<whole, task, tracker, out_mem>>

SkipLeading ==
  /\ AtEdges /\ LeadPlace # TrailPlace /\ ~Before(TrailPlace, LeadPlace)
  /\ at' = [at EXCEPT !.lead = @ + 1]
  /\ UNCHANGED <<whole, task, tracker, out_mem>>

EndEvent ==
  /\ task = "tracking" /\ ~AtEdges
  /\ TofLeadingHits' = <<>> /\ TofTrailingHits' = <<>>
  /\ task' = "sending"
  /\ UNCHANGED <<whole, out_mem, at>>

------------------------------------------------------------------------------
(* choose_gl3, where there is an instance.                                 *)
Choose_Spread(t) == nEvents % gl3_num

Choose(t) == t % gl3_num

DoSend ==
  /\ task = "sending" /\ gl3_num > 0 /\ mounted[Choose(out_mem.token)] # -1
  /\ sent' = [to |-> mounted[Choose(out_mem.token)], event |-> out_mem]
  /\ task' = "receive"
  /\ UNCHANGED <<control, filling, sem, que, msg, rdoLeft, run_started, run_number, tracker,
                 out_mem, at, links, dropped>>

(* A message that is not written in full is given up.  The slot is mounted *)
(* again to the port of its own number, whichever instance it had; it may  *)
(* fail.                                                                   *)
Remount ==
  /\ task = "sending" /\ gl3_num > 0
  /\ LET ix == Choose(out_mem.token)
     IN \E to \in {ix, -1} : mounted' = [mounted EXCEPT ![ix] = to]
  /\ task' = "receive"
  /\ UNCHANGED <<control, filling, sem, que, msg, rdoLeft, run_started, run_number, tracker,
                 out_mem, at, gl3_num, skipped, sent, dropped>>

SendNone ==
  /\ task = "sending" /\ gl3_num = 0
  /\ task' = "receive"
  /\ UNCHANGED <<control, filling, sem, que, msg, rdoLeft, run_started, run_number, tracker,
                 out_mem, at, links, sent, dropped>>

Broker == GetEvent \/ SemWait \/ SendEvent \/ \E r \in Rdos : \E words \in RdoData[r] : CopyRdo(r, words)

Task == \/ DoConfig \/ DoRunStart \/ DoRunStop \/ CannotTrack \/ StartTrack
        \/ ReadRdo \/ SemPost \/ TakeGroup \/ SkipTrailing \/ SkipLeading
        \/ EndEvent \/ DoSend \/ Remount \/ SendNone

Next == SendConfig \/ SendStop \/ Broker \/ Task

(* The task runs; so does the broker once it has the semaphore.            *)
Spec     == Init /\ [][Next]_vars
LiveSpec == Spec /\ WF_vars(Task) /\ WF_vars(SemWait)

------------------------------------------------------------------------------
Hit == [tray : {t - 1 : t \in Tray}, channel : Channel, tdc : Nat, tot : 0..MaxTot]
Event == [Rdos -> Words]
Out == [token : 0..LastToken, run : Nat, truth : Event, hits : SUBSET Hit]

(* Tokens are of the range that the broker goes round (`if(token >= 4096)  *)
(* token = 1'), and the semaphore is never posted twice.                   *)
TypeOK ==
  /\ nRuns \in Nat /\ nEvents \in Nat /\ running \in {"stopped", "running"}
  /\ broker \in {"idle", "waiting", "filling"} /\ token \in 1..LastToken
  /\ filled \subseteq Rdos /\ event \in Event /\ shared_mem \in Event
  /\ sem \in 0..1
  /\ task \in {"receive", "reading", "tracking", "sending"} /\ rdoLeft \subseteq Rdos
  /\ msg.token \in 0..LastToken /\ msg.len \in Event /\ msg.truth \in Event
  /\ run_started \in BOOLEAN /\ run_number \in Nat /\ dropped \in BOOLEAN
  /\ TofLeadingHits \in Seq(Edge) /\ TofTrailingHits \in Seq(Edge)
  /\ out_mem \in Out /\ sent \in [to : Slots \cup {-1}, event : Out]
  /\ at \in [lead : Nat \ {0}, trail : Nat \ {0}]
  /\ mounted \in [Slots -> Slots \cup {-1}] /\ gl3_num \in 0..GL3_MAX_TASKS
  /\ skipped \subseteq Slots

(* The shared memory is with one at a time: free, with the broker, on its  *)
(* way in the queue, or with the task that reads it.                       *)
Queued == {i \in 1..Len(que) : que[i].cmd = "DET_START_SL3"}

OneHolder ==
  /\ sem = 1 => broker # "filling" /\ task # "reading" /\ Queued = {}
  /\ broker = "filling" => task # "reading" /\ Queued = {}
  /\ task = "reading" => Queued = {}
  /\ \A i, j \in Queued : i = j

(* So the task reads the words that the broker wrote for the event.        *)
ReadsOwnWords ==
  task = "reading" =>
    \A r \in Rdos : SubSeq(shared_mem[r], 1, Len(msg.len[r])) = msg.truth[r]

(* The edges that an event can have, and every hit of two of them.         *)
LeadsOf(e) ==
  UNION {LET s == ReadRdoEvent(r, e[r], c).lead IN Elements(s, 1, Len(s)) : r \in Rdos, c \in {0, 191}}
TrailsOf(e) ==
  UNION {LET s == ReadRdoEvent(r, e[r], c).trail IN Elements(s, 1, Len(s)) : r \in Rdos, c \in {0, 191}}

PlaceHits(e) ==
  LET pairs == {q \in LeadsOf(e) \X TrailsOf(e) : Place(q[1]) = Place(q[2]) /\ Match(q[1], q[2])}
  IN {HitOf(q[1], q[2]) : q \in pairs}

(* A message has hits of its own event only: none of edges that the broker *)
(* wrote for the next event while this one was being read, or that an      *)
(* earlier one left in the lists.                                          *)
OwnHits == task = "sending" => out_mem.hits \subseteq PlaceHits(out_mem.truth)

(* The trays of a board come in ascending order, those of the leading and  *)
(* those of the trailing edges, and no channel is taken from before.       *)
Ascending(s) == \A i, j \in 1..Len(s) : i < j => s[i].trayid <= s[j].trayid

InOrder(e) ==
  \A r \in Rdos :
    LET s == ReadRdoEvent(r, e[r], 0)
        t == ReadRdoEvent(r, e[r], 191)
    IN Ascending(s.lead) /\ Ascending(s.trail) /\ s.lead = t.lead /\ s.trail = t.trail

(* Then the walk along both lists, which sorts neither ("don't need sort"),*)
(* misses no hit.                                                          *)
NoHitMissed ==
  task = "sending" /\ InOrder(out_mem.truth) => PlaceHits(out_mem.truth) \subseteq out_mem.hits

(* If all instances answered at the configuration, an event goes to the    *)
(* one that its token names, from every sector alike, so that GL3 finds    *)
(* its parts together: whatever was lost or mounted again before.          *)
Routed ==
  [][sent' # sent /\ skipped = {} => sent'.to = sent'.event.token % GL3_MAX_TASKS]_vars

(* The broker gets the memory, unless an event was dropped with it.        *)
BrokerGoesOn == broker = "waiting" ~> (broker # "waiting" \/ dropped)

(* A message has the hits of its event, all of them and no others.         *)
HitsExact == OneHolder /\ ReadsOwnWords /\ OwnHits /\ NoHitMissed
=============================================================================
