------------------------------ MODULE EventTask ------------------------------
(***************************************************************************)
(* The event task of a node.  process() decodes an event into the          *)
(* init_result of its L4EventData buffer; finish() loads that into the     *)
(* event store (gl3), completes the reconstruction and runs the trigger    *)
(* algorithms.  Readers, tracker and store live as long as a run and serve *)
(* every event, so each must be emptied in between: the entities do it in  *)
(* Event_start, all but a few members.                                     *)
(*                                                                         *)
(* Data are abstracted to the events they come from: the towers in the     *)
(* store are the set of events whose towers are there.  Whether an event   *)
(* passes the cuts of an algorithm is an attribute of the event.  TRG      *)
(* itself leaves nothing in the store that finish() does not overwrite.    *)
(***************************************************************************)
EXTENDS Naturals

CONSTANTS
  Slot,      \* L4EventData buffers of the framework
  Trigger,   \* DAQ triggers (bits of daqbits64_l2)
  Content,   \* what an event can be like, a set of Contents
  Used,      \* algorithms that run control assigns to triggers
  MaxEvent,  \* bound: events
  MaxRun,    \* bound: runs
  MaxResult  \* bound: results the calibration client receives

Detector  == {"TRG", "BTOW", "TOF", "MTD", "TPX"}
Algorithm == {"noHLT", "HighPt", "LowMult", "MTDDiMuon", "MTDQuarkonium"}
ByMuons   == {"MTDDiMuon", "MTDQuarkonium"}

(* has: detectors with data; btowOk: BTOW data have the right length; qtOk: *)
(* the trigger data hold the MTD QT boards; l2: triggers that fired;        *)
(* passes: algorithms whose cuts the event meets.                           *)
Contents == [has : SUBSET Detector, btowOk : BOOLEAN, qtOk : BOOLEAN,
             l2 : SUBSET Trigger, passes : SUBSET Algorithm]

ASSUME EventAssumption ==
  /\ Content \subseteq Contents /\ Used \subseteq Algorithm
  /\ MaxEvent \in Nat /\ MaxRun \in Nat /\ MaxResult \in Nat

VARIABLES
  phase,             \* "idle", "configured", "running", or "crashed"
  nRun, assigned,    \* runs configured; trg_setup: the algorithm of each trigger, or "unused"
  l3AlgoNeededMask,  \* triggers that need each algorithm
  eventCounter,      \* of the run
  latest,            \* the last result the calibration client received
  trackerCali,       \* calibration set in tpc_ca ...
  storeCali,         \* ... and in gl3
  mtd,               \* mtd_r: mtdQTtac/adc and mTrigQTpos, by the events they come from
  gl3,               \* members of the event store
  stage,             \* per buffer: "free", "processed" or "finished"
  event,             \* per buffer: the event in raw_input_event
  init, finish,      \* per buffer: init_result and finish_result
  nEvent             \* events so far, over all runs

control == <<phase, nRun, assigned, l3AlgoNeededMask>>
buffer  == <<stage, event, init, finish>>
vars    == <<control, eventCounter, latest, trackerCali, storeCali, mtd, gl3, buffer, nEvent>>

(* number: what eventCounter is once process() has counted the event.      *)
Event == [id : 1..MaxEvent, number : 1..MaxEvent, what : Content]
Data  == SUBSET Event

NoEvent == [id |-> 0]
NoQT    == [tac |-> {}, fired |-> {}]
NoStore == [tracks |-> {}, towers |-> {}, tofhits |-> {}, cells |-> {}, mtdEvent |-> {}, flags |-> {}]
NoInit  == [gl3Detectors |-> {}, tracks |-> {}, cali |-> 0, towers |-> {}, tofhits |-> {},
            mtdhits |-> {}, flags |-> {}]
(* The init_result of a buffer nothing was processed in: what happens to   *)
(* be in its memory is of no event.                                        *)
Unwritten == [NoInit EXCEPT !.tracks = {NoEvent}, !.towers = {NoEvent}, !.tofhits = {NoEvent},
                            !.mtdhits = {NoEvent}, !.flags = {NoEvent}]
NoFinish == [tracks |-> {}, towers |-> {}, tofhits |-> {}, mtdhits |-> {}, flags |-> {},
             tofMatch |-> {}, trackCali |-> 0, storeCali |-> 0, number |-> 0, l3TrgMask |-> {}]

Init ==
  /\ phase = "idle" /\ nRun = 0
  /\ assigned = [t \in Trigger |-> "unused"]
  /\ l3AlgoNeededMask = [a \in Algorithm |-> {}]
  /\ eventCounter = 0 /\ latest = 0 /\ trackerCali = 0 /\ storeCali = 0
  /\ mtd = NoQT /\ gl3 = NoStore
  /\ stage  = [s \in Slot |-> "free"]
  /\ event  = [s \in Slot |-> NoEvent]
  /\ init   = [s \in Slot |-> Unwritten]
  /\ finish = [s \in Slot |-> NoFinish]
  /\ nEvent = 0

------------------------------------------------------------------------------
(* The receive thread of the client stores another result (CaliClient).    *)
NewResult ==
  /\ latest < MaxResult
  /\ latest' = latest + 1
  /\ UNCHANGED <<control, eventCounter, trackerCali, storeCali, mtd, gl3, buffer, nEvent>>

(* sendConfig makes new entities, and notes which triggers need which      *)
(* algorithm.                                                              *)
Mask_Kept(setup) ==
  [a \in Algorithm |-> l3AlgoNeededMask[a] \cup {t \in Trigger : setup[t] = a}]

Mask(setup) == [a \in Algorithm |-> {t \in Trigger : setup[t] = a}]

SendConfig ==
  /\ phase = "idle" /\ nRun < MaxRun
  /\ nRun' = nRun + 1
  /\ phase' = "configured"
  /\ \E setup \in [Trigger -> Used \cup {"unused"}] :
       assigned' = setup /\ l3AlgoNeededMask' = Mask(setup)
  /\ trackerCali' = 0 /\ storeCali' = 0
  /\ mtd' = NoQT /\ gl3' = NoStore
  /\ UNCHANGED <<eventCounter, latest, buffer, nEvent>>

StartRun ==
  /\ phase = "configured"
  /\ phase' = "running"
  /\ eventCounter' = 0
  /\ mtd' = NoQT
  /\ UNCHANGED <<nRun, assigned, l3AlgoNeededMask, latest, trackerCali, storeCali, gl3, buffer, nEvent>>

(* Run control stops a run when no event is in flight.                     *)
StopRun ==
  /\ phase = "running"
  /\ \A s \in Slot : stage[s] # "processed"
  /\ phase' = "idle"
  /\ eventCounter' = 0
  /\ UNCHANGED <<nRun, assigned, l3AlgoNeededMask, latest, trackerCali, storeCali, mtd, gl3, buffer, nEvent>>

------------------------------------------------------------------------------
Has(e, d) == d \in e.what.has

(* read_mtd_trigger computes the positions that fired from the QT words,   *)
(* new or, if there are none, those it has, and the TF201 bits.  clear()   *)
(* empties neither, and without trigger data nothing is read.              *)
ReadMtdTrigger(e) ==
  LET tac == IF e.what.qtOk THEN {e} ELSE mtd.tac
      fired == IF tac = {} THEN {} ELSE tac \cup {e}
  IN IF Has(e, "TRG") THEN [tac |-> tac, fired |-> fired] ELSE mtd

(* memset of init_result.                                                  *)
Cleared_Not(i) == i

Cleared(i) == NoInit

(* What process() leaves in a buffer.  BTOW data of the wrong length leave *)
(* the blob as it is and still set the bit of gl3Detectors.                *)
InitResult(e, old, cali, fired) ==
  LET i == Cleared(old)
      Blob(d, new, rest) == IF Has(e, d) THEN new ELSE rest
  IN [gl3Detectors |-> e.what.has,
      tracks  |-> Blob("TPX", {e}, i.tracks),
      cali    |-> Blob("TPX", cali, i.cali),
      towers  |-> IF e.what.btowOk THEN Blob("BTOW", {e}, i.towers) ELSE i.towers,
      tofhits |-> Blob("TOF", {e}, i.tofhits),
      mtdhits |-> Blob("MTD", {e}, i.mtdhits),
      flags   |-> Blob("MTD", fired, i.flags)]

(* The calibration that process() gives the store.                         *)
GivenToStore_Stale == storeCali

GivenToStore == latest

Process(s, c) ==
  /\ phase = "running" /\ stage[s] # "processed" /\ nEvent < MaxEvent
  /\ LET e == [id |-> nEvent + 1, number |-> eventCounter + 1, what |-> c]
     IN /\ event' = [event EXCEPT ![s] = e]
        /\ mtd' = ReadMtdTrigger(e)
        /\ init' = [init EXCEPT ![s] = InitResult(e, init[s], latest, ReadMtdTrigger(e).fired)]
  /\ trackerCali' = latest /\ storeCali' = GivenToStore
  /\ eventCounter' = eventCounter + 1
  /\ nEvent' = nEvent + 1
  /\ stage' = [stage EXCEPT ![s] = "processed"]
  /\ UNCHANGED <<control, latest, gl3, finish>>

------------------------------------------------------------------------------
(* resetEvent.  gl3TOF::reset sets the number of hits to zero but leaves   *)
(* the cells by module and their counts.                                   *)
Reset_KeepsTowers(g) == [NoStore EXCEPT !.cells = g.cells, !.towers = g.towers]

Reset(g) == [NoStore EXCEPT !.cells = g.cells]

(* Event_data of the detectors that process() found.  readFromTofMachine   *)
(* appends to the hits and then sorts them into the cells.                 *)
Loaded(g, i) ==
  LET On(d, new, old) == IF d \in i.gl3Detectors THEN new ELSE old
      hits == g.tofhits \cup i.tofhits
  IN [tracks   |-> On("TPX", i.tracks, g.tracks),
      towers   |-> On("BTOW", i.towers, g.towers),
      tofhits  |-> On("TOF", hits, g.tofhits),
      cells    |-> On("TOF", hits, g.cells),
      mtdEvent |-> On("MTD", i.mtdhits, g.mtdEvent),
      flags    |-> On("MTD", i.flags, g.flags)]

(* Tracks are matched to the cells by module.                              *)
TofMatch(g) == IF g.tracks = {} THEN {} ELSE g.cells

Needed(a, e) == e.what.l2 \cap l3AlgoNeededMask[a] # {}

(* setTriggers switches every algorithm on.                                *)
TriggerOn(a) == TRUE

Meets(a, data) == \E e \in data : a \in e.what.passes

(* decide_*: luck is whether muon candidates are found when the flags of   *)
(* the MTD hits are not those of the event the hits belong to.             *)
Muons(a, g, luck) ==
  /\ g.tracks # {} /\ g.mtdEvent # {}
  /\ IF g.flags = g.mtdEvent THEN Meets(a, g.mtdEvent) ELSE g.flags # {} /\ luck

Satisfied(a, g, luck) ==
  \/ a = "noHLT"
  \/ a = "HighPt" /\ TriggerOn(a) /\ Meets(a, g.tracks)
  \/ a = "LowMult" /\ ~TriggerOn(a) /\ Meets(a, g.tracks)
  \/ a \in ByMuons /\ TriggerOn(a) /\ Muons(a, g, luck)

L3TrgMask(e, g, luck) ==
  UNION {e.what.l2 \cap l3AlgoNeededMask[a] : a \in {b \in Algorithm : Satisfied(b, g, luck)}}

(* decide_MTDDiMuon reads mtdEvent, NULL when the event has no MTD data.   *)
Crashes(e, g) == Needed("MTDDiMuon", e) /\ g.mtdEvent = {}

Finish(s, luck) ==
  LET g == Loaded(Reset(gl3), init[s])
  IN /\ phase = "running" /\ stage[s] = "processed"
     /\ ~Crashes(event[s], g)
     /\ gl3' = g
     /\ finish' = [finish EXCEPT ![s] =
          [tracks |-> g.tracks, towers |-> g.towers, tofhits |-> g.tofhits,
           mtdhits |-> g.mtdEvent, flags |-> g.flags, tofMatch |-> TofMatch(g),
           trackCali |-> init[s].cali, storeCali |-> storeCali,
           number |-> eventCounter, l3TrgMask |-> L3TrgMask(event[s], g, luck)]]
     /\ stage' = [stage EXCEPT ![s] = "finished"]
     /\ UNCHANGED <<control, eventCounter, latest, trackerCali, storeCali, mtd, event, init, nEvent>>

Crash(s) ==
  /\ phase = "running" /\ stage[s] = "processed"
  /\ Crashes(event[s], Loaded(Reset(gl3), init[s]))
  /\ phase' = "crashed"
  /\ UNCHANGED <<nRun, assigned, l3AlgoNeededMask, eventCounter, latest, trackerCali, storeCali,
                 mtd, gl3, buffer, nEvent>>

Next ==
  \/ NewResult \/ SendConfig \/ StartRun \/ StopRun
  \/ \E s \in Slot, c \in Content : Process(s, c)
  \/ \E s \in Slot, luck \in BOOLEAN : Finish(s, luck)
  \/ \E s \in Slot : Crash(s)

Spec == Init /\ [][Next]_vars

------------------------------------------------------------------------------
StoreType == [tracks : Data, towers : Data, tofhits : Data, cells : Data,
              mtdEvent : Data, flags : Data]
InitType == [gl3Detectors : SUBSET Detector, tracks : Data, cali : 0..MaxResult,
             towers : Data, tofhits : Data, mtdhits : Data, flags : Data]
FinishType == [tracks : Data, towers : Data, tofhits : Data, mtdhits : Data, flags : Data,
               tofMatch : Data, trackCali : 0..MaxResult, storeCali : 0..MaxResult,
               number : 0..MaxEvent, l3TrgMask : SUBSET Trigger]

(* Every variable keeps to the values its C++ counterpart can hold, and    *)
(* nothing is left in the result of process() that nobody wrote.           *)
TypeOK ==
  /\ phase \in {"idle", "configured", "running", "crashed"}
  /\ nRun \in 0..MaxRun
  /\ assigned \in [Trigger -> Used \cup {"unused"}]
  /\ l3AlgoNeededMask \in [Algorithm -> SUBSET Trigger]
  /\ nEvent \in 0..MaxEvent /\ eventCounter \in 0..nEvent
  /\ latest \in 0..MaxResult /\ trackerCali \in 0..latest /\ storeCali \in 0..latest
  /\ mtd \in [tac : Data, fired : Data]
  /\ gl3 \in StoreType
  /\ stage \in [Slot -> {"free", "processed", "finished"}]
  /\ event \in [Slot -> Event \cup {NoEvent}]
  /\ init \in [Slot -> InitType \cup {Unwritten}]
  /\ \A s \in Slot : stage[s] # "free" => init[s] \in InitType
  /\ finish \in [Slot -> FinishType]

Only(e, present) == IF present THEN {e} ELSE {}

(* An event that has been through finish() is made of its own tracks,      *)
(* towers, TOF hits and MTD hits and of nobody else's, whatever came       *)
(* before it in the store and in the buffer (memset in process, resetEvent *)
(* in finish, the reset of every detector).                                *)
OwnData ==
  \A s \in Slot : stage[s] = "finished" =>
    LET e == event[s]
    IN /\ finish[s].tracks  = Only(e, Has(e, "TPX"))
       /\ finish[s].towers  = Only(e, Has(e, "BTOW") /\ e.what.btowOk)
       /\ finish[s].tofhits = Only(e, Has(e, "TOF"))
       /\ finish[s].mtdhits = Only(e, Has(e, "MTD"))

(* Unless another event is processed in between, the tracks of an event    *)
(* are found and its vertex and dE/dx computed with the same calibration,  *)
(* although results arrive between process() and finish() (the four        *)
(* setters in process, the counter finish() puts into the store).          *)
OneCalibration ==
  \A s \in Slot :
    stage[s] = "finished" /\ Has(event[s], "TPX") /\ finish[s].number = event[s].number
      => finish[s].trackCali = finish[s].storeCali

(* What run control asked of the algorithm of a trigger, told from the     *)
(* event alone.                                                            *)
ToAccept(t, e) ==
  LET a == assigned[t]
  IN \/ a = "noHLT"
     \/ a = "HighPt" /\ Has(e, "TPX") /\ a \in e.what.passes
     \/ a \in ByMuons /\ Has(e, "TPX") /\ Has(e, "MTD") /\ a \in e.what.passes

(* MTD triggers also need the trigger data of the event.                   *)
Decidable(t, e) ==
  /\ assigned[t] # "LowMult"
  /\ assigned[t] \in ByMuons => Has(e, "TRG") /\ e.what.qtOk

Finishes(s) == stage[s] = "processed" /\ stage'[s] = "finished"

(* finish() accepts an event for exactly those of its triggers whose       *)
(* algorithm, as configured for this run, it satisfies (l3AlgoNeededMask   *)
(* against the trigger setup over several runs; LowMult apart, whose flag  *)
(* is inverted, see TriggerDecider).                                       *)
Decided ==
  [][\A s \in Slot, t \in Trigger :
       Finishes(s) /\ Decidable(t, event[s]) =>
         (t \in finish'[s].l3TrgMask <=> t \in event[s].what.l2 /\ ToAccept(t, event[s]))]_vars

(* "called before an event i.e. for some cleanup" (hlt_entity.h:115): no   *)
(* track is matched to a TOF cell of another event.                        *)
OwnTofMatch ==
  \A s \in Slot : stage[s] = "finished" => finish[s].tofMatch \subseteq {event[s]}
=============================================================================
