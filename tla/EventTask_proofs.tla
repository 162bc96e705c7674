--------------------------- MODULE EventTask_proofs ---------------------------
(***************************************************************************)
(* Proofs about EventTask, for any buffers, triggers, kinds of events and  *)
(* bounds: its types, that events do not mix, that an event nobody         *)
(* overtakes is reconstructed with one calibration, and what is accepted.  *)
(* Then about the two trackers that the task of a node may run, CaTracker  *)
(* and FtfTracker, for any data, hits and cuts: their types, that no hit   *)
(* is fitted twice or handed out twice, and that every hit is written      *)
(* once.                                                                   *)
(***************************************************************************)
EXTENDS EventTask, CaTracker, FtfTracker, FiniteSetTheorems, SequenceTheorems,
        WellFoundedInduction, TLAPS

(* What a buffer between process() and finish() holds of its event.  The   *)
(* parts of init_result whose bit is not set are not looked at.            *)
Filled(s) ==
  LET e == event[s]
      i == init[s]
  IN /\ e \in Event
     /\ i.gl3Detectors = e.what.has
     /\ Has(e, "TPX") => i.tracks = {e}
     /\ Has(e, "BTOW") => i.towers = Only(e, e.what.btowOk)
     /\ Has(e, "TOF") => i.tofhits = {e}
     /\ Has(e, "MTD") => i.mtdhits = {e}
     /\ Has(e, "MTD") /\ Has(e, "TRG") /\ e.what.qtOk => i.flags = {e}

InFlight == \A s \in Slot : stage[s] = "processed" => Filled(s)

(* The event processed last is the only one with its number; until another *)
(* one is, the store has the calibration its tracks were found with.       *)
SameCalibration ==
  \A s \in Slot : stage[s] = "processed" =>
    /\ event[s].number \in 1..eventCounter
    /\ event[s].number = eventCounter /\ Has(event[s], "TPX") => init[s].cali = storeCali

(* The masks are those of the current setup.                               *)
Masked == l3AlgoNeededMask = Mask(assigned)

(* Run control does not configure while an event is in flight.             *)
Quiet == phase \in {"idle", "configured"} => \A s \in Slot : stage[s] # "processed"

IInv == TypeOK /\ InFlight /\ SameCalibration /\ Masked /\ Quiet /\ OwnData /\ OneCalibration

------------------------------------------------------------------------------
LEMMA InitResultType ==
  ASSUME NEW e \in Event, NEW old, NEW cali \in 0..MaxResult, NEW fired \in Data
  PROVE  InitResult(e, old, cali, fired) \in InitType
<1>1. e.what \in Contents BY EventAssumption DEF Event
<1>2. e.what.has \subseteq Detector BY <1>1 DEF Contents
<1>3. {e} \in Data /\ {} \in Data BY DEF Data
<1>4. MaxResult \in Nat BY EventAssumption
<1>5. QED BY <1>2, <1>3, <1>4 DEF InitResult, Cleared, NoInit, Has, InitType

LEMMA TriggerReadType ==
  ASSUME NEW e \in Event, mtd \in [tac : Data, fired : Data]
  PROVE  ReadMtdTrigger(e) \in [tac : Data, fired : Data]
<1>1. {e} \in Data BY DEF Data
<1>2. \A X \in Data : X \cup {e} \in Data BY DEF Data
<1>3. {} \in Data BY DEF Data
<1>4. QED BY <1>1, <1>2, <1>3 DEF ReadMtdTrigger, Has

(* init_result of an event does not depend on what was in the buffer, nor  *)
(* its flags on what the reader had, if it has trigger data.               *)
LEMMA InitResultOwn ==
  ASSUME NEW e \in Event, NEW old, NEW cali,
         NEW i, i = InitResult(e, old, cali, ReadMtdTrigger(e).fired)
  PROVE  /\ i.gl3Detectors = e.what.has
         /\ Has(e, "TPX") => i.tracks = {e} /\ i.cali = cali
         /\ Has(e, "BTOW") => i.towers = Only(e, e.what.btowOk)
         /\ Has(e, "TOF") => i.tofhits = {e}
         /\ Has(e, "MTD") => i.mtdhits = {e}
         /\ Has(e, "MTD") /\ Has(e, "TRG") /\ e.what.qtOk => i.flags = {e}
<1>1. Has(e, "TRG") /\ e.what.qtOk => ReadMtdTrigger(e).fired = {e}
  BY DEF ReadMtdTrigger
<1>2. i.towers = IF e.what.btowOk THEN (IF Has(e, "BTOW") THEN {e} ELSE {}) ELSE {}
  BY DEF InitResult, Cleared, NoInit
<1>3. /\ i.gl3Detectors = e.what.has
      /\ i.tracks = IF Has(e, "TPX") THEN {e} ELSE {}
      /\ i.cali = IF Has(e, "TPX") THEN cali ELSE 0
      /\ i.tofhits = IF Has(e, "TOF") THEN {e} ELSE {}
      /\ i.mtdhits = IF Has(e, "MTD") THEN {e} ELSE {}
      /\ i.flags = IF Has(e, "MTD") THEN ReadMtdTrigger(e).fired ELSE {}
  BY DEF InitResult, Cleared, NoInit
<1>4. QED BY <1>1, <1>2, <1>3 DEF Only

LEMMA LoadedType ==
  ASSUME NEW g \in StoreType, NEW i \in InitType
  PROVE  Loaded(Reset(g), i) \in StoreType
<1>1. {} \in Data BY DEF Data
<1>2. {} \cup i.tofhits \in Data BY DEF InitType, Data
<1>3. Reset(g) \in StoreType /\ Reset(g).tofhits = {}
  BY <1>1 DEF Reset, NoStore, StoreType
<1>4. QED BY <1>1, <1>2, <1>3 DEF Loaded, StoreType, InitType

(* What finish() works on is what the buffer holds, for a detector whose   *)
(* bit is set, and nothing for the others.                                 *)
LEMMA LoadedOwn ==
  ASSUME NEW i, NEW g, NEW l, l = Loaded(Reset(g), i)
  PROVE  /\ l.tracks = IF "TPX" \in i.gl3Detectors THEN i.tracks ELSE {}
         /\ l.towers = IF "BTOW" \in i.gl3Detectors THEN i.towers ELSE {}
         /\ l.tofhits = IF "TOF" \in i.gl3Detectors THEN {} \cup i.tofhits ELSE {}
         /\ l.mtdEvent = IF "MTD" \in i.gl3Detectors THEN i.mtdhits ELSE {}
         /\ l.flags = IF "MTD" \in i.gl3Detectors THEN i.flags ELSE {}
<1>1. /\ Reset(g).tracks = {} /\ Reset(g).towers = {} /\ Reset(g).tofhits = {}
      /\ Reset(g).mtdEvent = {} /\ Reset(g).flags = {}
  BY DEF Reset, NoStore
<1>2. QED BY <1>1 DEF Loaded

(* After loading, the store holds the event's data (its cells aside).      *)
LEMMA StoreOwn ==
  ASSUME NEW s \in Slot, Filled(s), NEW g, g = Loaded(Reset(gl3), init[s])
  PROVE  LET e == event[s]
         IN /\ g.tracks = Only(e, Has(e, "TPX"))
            /\ g.towers = Only(e, Has(e, "BTOW") /\ e.what.btowOk)
            /\ g.tofhits = Only(e, Has(e, "TOF"))
            /\ g.mtdEvent = Only(e, Has(e, "MTD"))
            /\ Has(e, "MTD") /\ Has(e, "TRG") /\ e.what.qtOk => g.flags = {e}
<1>1. /\ g.tracks = IF "TPX" \in init[s].gl3Detectors THEN init[s].tracks ELSE {}
      /\ g.towers = IF "BTOW" \in init[s].gl3Detectors THEN init[s].towers ELSE {}
      /\ g.tofhits = IF "TOF" \in init[s].gl3Detectors THEN {} \cup init[s].tofhits ELSE {}
      /\ g.mtdEvent = IF "MTD" \in init[s].gl3Detectors THEN init[s].mtdhits ELSE {}
      /\ g.flags = IF "MTD" \in init[s].gl3Detectors THEN init[s].flags ELSE {}
  BY LoadedOwn
<1>2. \A X : {} \cup X = X OBVIOUS
<1>3. g.towers = Only(event[s], Has(event[s], "BTOW") /\ event[s].what.btowOk)
  BY <1>1 DEF Filled, Has, Only
<1>4. g.tofhits = Only(event[s], Has(event[s], "TOF"))
  BY <1>1, <1>2 DEF Filled, Has, Only
<1>5. QED BY <1>1, <1>3, <1>4 DEF Filled, Has, Only

------------------------------------------------------------------------------
LEMMA Bounds == MaxEvent \in Nat /\ MaxRun \in Nat /\ MaxResult \in Nat
BY EventAssumption

LEMMA Initially == Init => IInv
<1> SUFFICES ASSUME Init PROVE IInv OBVIOUS
<1> USE Bounds
<1>1. {} \in Data BY DEF Data
<1>2. NoQT \in [tac : Data, fired : Data] BY <1>1 DEF NoQT
<1>3. NoStore \in StoreType BY <1>1 DEF NoStore, StoreType
<1>5. NoFinish \in FinishType BY <1>1 DEF NoFinish, FinishType
<1>6. TypeOK
  <2>1. phase \in {"idle", "configured", "running", "crashed"} /\ nRun \in 0..MaxRun
    BY DEF Init
  <2>2. /\ assigned \in [Trigger -> Used \cup {"unused"}]
        /\ l3AlgoNeededMask \in [Algorithm -> SUBSET Trigger]
    BY DEF Init
  <2>3. /\ nEvent \in 0..MaxEvent /\ eventCounter \in 0..nEvent
        /\ latest \in 0..MaxResult /\ trackerCali \in 0..latest /\ storeCali \in 0..latest
    BY DEF Init
  <2>4. mtd \in [tac : Data, fired : Data] /\ gl3 \in StoreType
    BY <1>2, <1>3 DEF Init
  <2>5. /\ stage \in [Slot -> {"free", "processed", "finished"}]
        /\ event \in [Slot -> Event \cup {NoEvent}]
        /\ init \in [Slot -> InitType \cup {Unwritten}] /\ finish \in [Slot -> FinishType]
        /\ \A s \in Slot : stage[s] # "free" => init[s] \in InitType
    BY <1>5 DEF Init
  <2>6. QED BY <2>1, <2>2, <2>3, <2>4, <2>5 DEF TypeOK
<1>7. \A s \in Slot : stage[s] = "free"
  BY DEF Init
<1>8. "unused" \notin Algorithm BY DEF Algorithm
<1>9. Masked BY <1>8 DEF Masked, Mask, Init
<1>10. QED
  BY <1>6, <1>7, <1>9 DEF IInv, InFlight, SameCalibration, Quiet, OwnData, OneCalibration

LEMMA MaskType ==
  ASSUME NEW setup \in [Trigger -> Used \cup {"unused"}]
  PROVE  Mask(setup) \in [Algorithm -> SUBSET Trigger]
BY DEF Mask

LEMMA NewResultStep == IInv /\ NewResult => IInv'
<1> SUFFICES ASSUME IInv, NewResult PROVE IInv' OBVIOUS
<1> USE Bounds
<1>1. latest' \in 0..MaxResult /\ trackerCali' \in 0..latest' /\ storeCali' \in 0..latest'
  BY DEF IInv, TypeOK, NewResult
<1>2. UNCHANGED <<control, eventCounter, trackerCali, storeCali, mtd, gl3, buffer, nEvent>>
  BY DEF NewResult
<1>3. TypeOK' BY <1>1, <1>2 DEF IInv, TypeOK, control, buffer
<1>4. (InFlight /\ SameCalibration /\ Quiet /\ OwnData /\ OneCalibration)'
  BY <1>2 DEF IInv, InFlight, Filled, SameCalibration, Quiet, OwnData, OneCalibration, buffer, control
<1>5. Masked' BY <1>2 DEF IInv, Masked, Mask, control
<1>6. QED BY <1>3, <1>4, <1>5 DEF IInv

LEMMA SendConfigStep == IInv /\ SendConfig => IInv'
<1> SUFFICES ASSUME IInv, SendConfig PROVE IInv' OBVIOUS
<1> USE Bounds
<1>1. PICK setup \in [Trigger -> Used \cup {"unused"}] :
        assigned' = setup /\ l3AlgoNeededMask' = Mask(setup)
  BY DEF SendConfig
<1>2. {} \in Data BY DEF Data
<1>3. NoQT \in [tac : Data, fired : Data] /\ NoStore \in StoreType
  BY <1>2 DEF NoQT, NoStore, StoreType
<1>4. /\ phase' = "configured" /\ nRun < MaxRun /\ nRun' = nRun + 1
      /\ trackerCali' = 0 /\ storeCali' = 0 /\ mtd' = NoQT /\ gl3' = NoStore
      /\ UNCHANGED <<eventCounter, latest, buffer, nEvent>>
  BY DEF SendConfig
<1>5. TypeOK'
  <2>1. nRun' \in 0..MaxRun BY <1>4 DEF IInv, TypeOK
  <2>2. trackerCali' \in 0..latest' /\ storeCali' \in 0..latest' /\ latest' \in 0..MaxResult
    BY <1>4 DEF IInv, TypeOK
  <2>3. /\ assigned' \in [Trigger -> Used \cup {"unused"}]
        /\ l3AlgoNeededMask' \in [Algorithm -> SUBSET Trigger]
    BY <1>1, MaskType
  <2>4. QED BY <1>3, <1>4, <2>1, <2>2, <2>3 DEF IInv, TypeOK, buffer
<1>6. \A s \in Slot : stage[s] # "processed"
  BY DEF IInv, Quiet, SendConfig
<1>7. \A s \in Slot : stage'[s] # "processed"
  BY <1>4, <1>6 DEF buffer
<1>8. (InFlight /\ SameCalibration /\ Quiet)'
  BY <1>7 DEF InFlight, SameCalibration, Quiet
<1>9. (OwnData /\ OneCalibration)'
  BY <1>4 DEF IInv, OwnData, OneCalibration, buffer
<1>10. Masked' BY <1>1 DEF Masked, Mask
<1>11. QED BY <1>5, <1>8, <1>9, <1>10 DEF IInv

LEMMA StartRunStep == IInv /\ StartRun => IInv'
<1> SUFFICES ASSUME IInv, StartRun PROVE IInv' OBVIOUS
<1> USE Bounds
<1>1. {} \in Data BY DEF Data
<1>2. NoQT \in [tac : Data, fired : Data] BY <1>1 DEF NoQT
<1>3. /\ phase' = "running" /\ eventCounter' = 0 /\ mtd' = NoQT
      /\ UNCHANGED <<nRun, assigned, l3AlgoNeededMask, latest, trackerCali, storeCali, gl3, buffer, nEvent>>
  BY DEF StartRun
<1>4. eventCounter' \in 0..nEvent' BY <1>3 DEF IInv, TypeOK
<1>5. TypeOK' BY <1>2, <1>3, <1>4 DEF IInv, TypeOK, buffer
<1>6. \A s \in Slot : stage'[s] # "processed"
  BY <1>3 DEF IInv, Quiet, StartRun, buffer
<1>7. (InFlight /\ SameCalibration /\ Quiet)'
  BY <1>6 DEF InFlight, SameCalibration, Quiet
<1>8. (OwnData /\ OneCalibration)'
  BY <1>3 DEF IInv, OwnData, OneCalibration, buffer
<1>9. Masked' BY <1>3 DEF IInv, Masked, Mask
<1>10. QED BY <1>5, <1>7, <1>8, <1>9 DEF IInv

LEMMA StopRunStep == IInv /\ StopRun => IInv'
<1> SUFFICES ASSUME IInv, StopRun PROVE IInv' OBVIOUS
<1> USE Bounds
<1>1. /\ \A s \in Slot : stage[s] # "processed"
      /\ phase' = "idle" /\ eventCounter' = 0
      /\ UNCHANGED <<nRun, assigned, l3AlgoNeededMask, latest, trackerCali, storeCali, mtd, gl3, buffer, nEvent>>
  BY DEF StopRun
<1>2. eventCounter' \in 0..nEvent' BY <1>1 DEF IInv, TypeOK
<1>3. TypeOK' BY <1>1, <1>2 DEF IInv, TypeOK, buffer
<1>4. (InFlight /\ SameCalibration /\ Quiet)'
  BY <1>1 DEF InFlight, SameCalibration, Quiet, buffer
<1>5. (OwnData /\ OneCalibration)'
  BY <1>1 DEF IInv, OwnData, OneCalibration, buffer
<1>6. Masked' BY <1>1 DEF IInv, Masked, Mask
<1>7. QED BY <1>3, <1>4, <1>5, <1>6 DEF IInv

LEMMA ProcessFills == ASSUME NEW s \in Slot, NEW c \in Content, IInv, Process(s, c) PROVE IInv'
<1> USE Bounds
<1> DEFINE e == [id |-> nEvent + 1, number |-> eventCounter + 1, what |-> c]
           i == InitResult(e, init[s], latest, ReadMtdTrigger(e).fired)
<1>1. /\ phase = "running" /\ nEvent < MaxEvent
      /\ event' = [event EXCEPT ![s] = e] /\ mtd' = ReadMtdTrigger(e)
      /\ init' = [init EXCEPT ![s] = i]
      /\ trackerCali' = latest /\ storeCali' = latest
      /\ eventCounter' = eventCounter + 1 /\ nEvent' = nEvent + 1
      /\ stage' = [stage EXCEPT ![s] = "processed"]
      /\ UNCHANGED <<control, latest, gl3, finish>>
  BY DEF Process, GivenToStore
<1>2. e \in Event BY <1>1 DEF Event, IInv, TypeOK
<1>3. ReadMtdTrigger(e) \in [tac : Data, fired : Data]
  BY <1>2, TriggerReadType DEF IInv, TypeOK
<1>4. i \in InitType
  <2>1. ReadMtdTrigger(e).fired \in Data BY <1>3
  <2>2. latest \in 0..MaxResult BY DEF IInv, TypeOK
  <2>3. QED BY <1>2, <2>1, <2>2, InitResultType
<1>5. /\ i.gl3Detectors = e.what.has
      /\ Has(e, "TPX") => i.tracks = {e} /\ i.cali = latest
      /\ Has(e, "BTOW") => i.towers = Only(e, e.what.btowOk)
      /\ Has(e, "TOF") => i.tofhits = {e}
      /\ Has(e, "MTD") => i.mtdhits = {e}
      /\ Has(e, "MTD") /\ Has(e, "TRG") /\ e.what.qtOk => i.flags = {e}
  <2> HIDE DEF e, i
  <2>1. PICK x : x = InitResult(e, init[s], latest, ReadMtdTrigger(e).fired) OBVIOUS
  <2>2. /\ x.gl3Detectors = e.what.has
        /\ Has(e, "TPX") => x.tracks = {e} /\ x.cali = latest
        /\ Has(e, "BTOW") => x.towers = Only(e, e.what.btowOk)
        /\ Has(e, "TOF") => x.tofhits = {e}
        /\ Has(e, "MTD") => x.mtdhits = {e}
        /\ Has(e, "MTD") /\ Has(e, "TRG") /\ e.what.qtOk => x.flags = {e}
    <3>1. \A old, cali, y : y = InitResult(e, old, cali, ReadMtdTrigger(e).fired) =>
            /\ y.gl3Detectors = e.what.has
            /\ Has(e, "TPX") => y.tracks = {e} /\ y.cali = cali
            /\ Has(e, "BTOW") => y.towers = Only(e, e.what.btowOk)
            /\ Has(e, "TOF") => y.tofhits = {e}
            /\ Has(e, "MTD") => y.mtdhits = {e}
            /\ Has(e, "MTD") /\ Has(e, "TRG") /\ e.what.qtOk => y.flags = {e}
      BY <1>2, InitResultOwn
    <3>2. QED BY <2>1, <3>1
  <2>3. QED BY <2>1, <2>2 DEF i
<1> HIDE DEF e, i
<1>6. /\ event'[s] = e /\ init'[s] = i /\ stage'[s] = "processed"
      /\ \A r \in Slot \ {s} : event'[r] = event[r] /\ init'[r] = init[r] /\ stage'[r] = stage[r]
  BY <1>1 DEF IInv, TypeOK
<1>7. TypeOK'
  <2>1. nEvent' \in 0..MaxEvent /\ eventCounter' \in 0..nEvent'
    BY <1>1 DEF IInv, TypeOK
  <2>2. latest' \in 0..MaxResult /\ trackerCali' \in 0..latest' /\ storeCali' \in 0..latest'
    BY <1>1 DEF IInv, TypeOK
  <2>3. mtd' \in [tac : Data, fired : Data] BY <1>1, <1>3
  <2>4. event' \in [Slot -> Event \cup {NoEvent}] BY <1>1, <1>2 DEF IInv, TypeOK
  <2>5. init' \in [Slot -> InitType \cup {Unwritten}] BY <1>1, <1>4 DEF IInv, TypeOK
  <2>8. \A r \in Slot : stage'[r] # "free" => init'[r] \in InitType
    BY <1>4, <1>6 DEF IInv, TypeOK
  <2>6. stage' \in [Slot -> {"free", "processed", "finished"}] BY <1>1 DEF IInv, TypeOK
  <2>7. QED BY <1>1, <2>1, <2>2, <2>3, <2>4, <2>5, <2>6, <2>8 DEF IInv, TypeOK, control
<1>8. InFlight'
  <2>1. Filled(s)' BY <1>2, <1>5, <1>6 DEF Filled
  <2>2. ASSUME NEW r \in Slot \ {s}, stage'[r] = "processed" PROVE Filled(r)'
    <3>1. Filled(r) BY <1>6, <2>2 DEF IInv, InFlight
    <3>2. QED BY <1>6, <3>1 DEF Filled
  <2>3. QED BY <2>1, <2>2 DEF InFlight
<1>9. SameCalibration'
  <2>1. eventCounter' = eventCounter + 1 /\ eventCounter \in Nat
    BY <1>1 DEF IInv, TypeOK
  <2>2. e.number = eventCounter' BY <1>1 DEF e
  <2>3. ASSUME NEW r \in Slot \ {s}, stage'[r] = "processed"
        PROVE  event'[r].number \in 1..eventCounter' /\ event'[r].number # eventCounter'
    <3>1. event'[r].number \in 1..eventCounter
      BY <1>6, <2>3 DEF IInv, SameCalibration
    <3>2. QED BY <2>1, <3>1
  <2>4. Has(event'[s], "TPX") => init'[s].cali = storeCali'
    BY <1>1, <1>5, <1>6
  <2>5. event'[s].number \in 1..eventCounter' BY <1>6, <2>1, <2>2
  <2>6. QED BY <2>3, <2>4, <2>5 DEF SameCalibration
<1>10. OwnData' /\ OneCalibration'
  <2>1. \A r \in Slot : stage'[r] = "finished" =>
          stage[r] = "finished" /\ event'[r] = event[r] /\ finish'[r] = finish[r]
    BY <1>1, <1>6
  <2>2. OwnData' BY <2>1 DEF IInv, OwnData
  <2>3. OneCalibration' BY <2>1 DEF IInv, OneCalibration
  <2>4. QED BY <2>2, <2>3
<1>11. Masked' BY <1>1 DEF IInv, Masked, Mask, control
<1>12. Quiet' BY <1>1 DEF Quiet, control
<1>13. QED BY <1>7, <1>8, <1>9, <1>10, <1>11, <1>12 DEF IInv

LEMMA FinishStep == ASSUME NEW s \in Slot, NEW luck \in BOOLEAN, IInv, Finish(s, luck) PROVE IInv'
<1> USE Bounds
<1> DEFINE g == Loaded(Reset(gl3), init[s])
           f == [tracks |-> g.tracks, towers |-> g.towers, tofhits |-> g.tofhits,
                 mtdhits |-> g.mtdEvent, flags |-> g.flags, tofMatch |-> TofMatch(g),
                 trackCali |-> init[s].cali, storeCali |-> storeCali,
                 number |-> eventCounter, l3TrgMask |-> L3TrgMask(event[s], g, luck)]
<1>1. /\ phase = "running" /\ stage[s] = "processed"
      /\ gl3' = g /\ finish' = [finish EXCEPT ![s] = f]
      /\ stage' = [stage EXCEPT ![s] = "finished"]
      /\ UNCHANGED <<control, eventCounter, latest, trackerCali, storeCali, mtd, event, init, nEvent>>
  BY DEF Finish
<1>2. Filled(s) BY <1>1 DEF IInv, InFlight
<1>16. init[s] \in InitType BY <1>1 DEF IInv, TypeOK
<1>3. g \in StoreType BY <1>16, LoadedType DEF IInv, TypeOK
<1>4. /\ g.tracks = Only(event[s], Has(event[s], "TPX"))
      /\ g.towers = Only(event[s], Has(event[s], "BTOW") /\ event[s].what.btowOk)
      /\ g.tofhits = Only(event[s], Has(event[s], "TOF"))
      /\ g.mtdEvent = Only(event[s], Has(event[s], "MTD"))
  BY <1>2, StoreOwn
<1> HIDE DEF g
<1>5. f \in FinishType
  <2>1. event[s] \in Event BY <1>2 DEF Filled
  <2>2. L3TrgMask(event[s], g, luck) \subseteq Trigger
    BY DEF IInv, TypeOK, L3TrgMask
  <2>3. {} \in Data BY DEF Data
  <2>4. TofMatch(g) \in Data BY <1>3, <2>3 DEF TofMatch, StoreType
  <2>5. init[s].cali \in 0..MaxResult BY <1>16 DEF InitType
  <2>6. storeCali \in 0..MaxResult /\ eventCounter \in 0..MaxEvent BY DEF IInv, TypeOK
  <2>7. /\ g.tracks \in Data /\ g.towers \in Data /\ g.tofhits \in Data
        /\ g.mtdEvent \in Data /\ g.flags \in Data
    BY <1>3 DEF StoreType
  <2>8. QED BY <2>2, <2>4, <2>5, <2>6, <2>7 DEF FinishType
<1>6. /\ f.tracks = g.tracks /\ f.towers = g.towers /\ f.tofhits = g.tofhits
      /\ f.mtdhits = g.mtdEvent /\ f.trackCali = init[s].cali /\ f.storeCali = storeCali
      /\ f.number = eventCounter
  OBVIOUS
<1> HIDE DEF f
<1>7. /\ finish'[s] = f /\ stage'[s] = "finished"
      /\ \A r \in Slot \ {s} : finish'[r] = finish[r] /\ stage'[r] = stage[r]
  BY <1>1 DEF IInv, TypeOK
<1>8. TypeOK'
  <2>1. finish' \in [Slot -> FinishType] BY <1>1, <1>5 DEF IInv, TypeOK
  <2>2. stage' \in [Slot -> {"free", "processed", "finished"}] BY <1>1 DEF IInv, TypeOK
  <2>3. \A r \in Slot : stage'[r] # "free" => init'[r] \in InitType
    BY <1>1, <1>7, <1>16 DEF IInv, TypeOK
  <2>4. QED BY <1>1, <1>3, <2>1, <2>2, <2>3 DEF IInv, TypeOK, control
<1>9. \A r \in Slot : stage'[r] = "processed" => stage[r] = "processed"
  BY <1>7
<1>10. (InFlight /\ SameCalibration)'
  BY <1>1, <1>9 DEF IInv, InFlight, Filled, SameCalibration
<1>11. OwnData'
  <2>1. ASSUME NEW r \in Slot \ {s}, stage'[r] = "finished"
        PROVE  stage[r] = "finished" /\ finish'[r] = finish[r] /\ event'[r] = event[r]
    BY <1>1, <1>7, <2>1
  <2>2. /\ finish'[s].tracks = Only(event'[s], Has(event'[s], "TPX"))
        /\ finish'[s].towers = Only(event'[s], Has(event'[s], "BTOW") /\ event'[s].what.btowOk)
        /\ finish'[s].tofhits = Only(event'[s], Has(event'[s], "TOF"))
        /\ finish'[s].mtdhits = Only(event'[s], Has(event'[s], "MTD"))
    BY <1>1, <1>4, <1>6, <1>7
  <2>3. QED BY <2>1, <2>2 DEF IInv, OwnData
<1>12. OneCalibration'
  <2>1. Has(event'[s], "TPX") /\ finish'[s].number = event'[s].number
          => finish'[s].trackCali = finish'[s].storeCali
    BY <1>1, <1>6, <1>7 DEF IInv, SameCalibration
  <2>2. ASSUME NEW r \in Slot \ {s}, stage'[r] = "finished"
        PROVE  stage[r] = "finished" /\ finish'[r] = finish[r] /\ event'[r] = event[r]
    BY <1>1, <1>7, <2>2
  <2>3. QED BY <2>1, <2>2 DEF IInv, OneCalibration
<1>13. Masked' BY <1>1 DEF IInv, Masked, Mask, control
<1>14. Quiet' BY <1>1 DEF Quiet, control
<1>15. QED BY <1>8, <1>10, <1>11, <1>12, <1>13, <1>14 DEF IInv

LEMMA CrashStep == ASSUME NEW s \in Slot, IInv, Crash(s) PROVE IInv'
<1>1. /\ phase' = "crashed"
      /\ UNCHANGED <<nRun, assigned, l3AlgoNeededMask, eventCounter, latest, trackerCali,
                     storeCali, mtd, gl3, buffer, nEvent>>
  BY DEF Crash
<1>2. TypeOK' BY <1>1 DEF IInv, TypeOK, buffer
<1>3. (InFlight /\ SameCalibration /\ OwnData /\ OneCalibration)'
  BY <1>1 DEF IInv, InFlight, Filled, SameCalibration, OwnData, OneCalibration, buffer
<1>4. Masked' /\ Quiet' BY <1>1 DEF IInv, Masked, Mask, Quiet
<1>5. QED BY <1>2, <1>3, <1>4 DEF IInv

LEMMA StutterStep == IInv /\ UNCHANGED vars => IInv'
<1> SUFFICES ASSUME IInv, UNCHANGED vars PROVE IInv' OBVIOUS
<1>1. UNCHANGED <<phase, nRun, assigned, l3AlgoNeededMask, eventCounter, latest, trackerCali,
                  storeCali, mtd, gl3, stage, event, init, finish, nEvent>>
  BY DEF vars, control, buffer
<1>2. TypeOK' BY <1>1 DEF IInv, TypeOK
<1>3. (InFlight /\ SameCalibration /\ OwnData /\ OneCalibration)'
  BY <1>1 DEF IInv, InFlight, Filled, SameCalibration, OwnData, OneCalibration
<1>4. Masked' /\ Quiet' BY <1>1 DEF IInv, Masked, Mask, Quiet
<1>5. QED BY <1>2, <1>3, <1>4 DEF IInv

LEMMA Step == IInv /\ [Next]_vars => IInv'
<1> SUFFICES ASSUME IInv, [Next]_vars PROVE IInv' OBVIOUS
<1>1. CASE NewResult BY <1>1, NewResultStep
<1>2. CASE SendConfig BY <1>2, SendConfigStep
<1>3. CASE StartRun BY <1>3, StartRunStep
<1>4. CASE StopRun BY <1>4, StopRunStep
<1>5. ASSUME NEW s \in Slot, NEW c \in Content, Process(s, c) PROVE IInv'
  BY <1>5, ProcessFills
<1>6. ASSUME NEW s \in Slot, NEW luck \in BOOLEAN, Finish(s, luck) PROVE IInv'
  BY <1>6, FinishStep
<1>7. ASSUME NEW s \in Slot, Crash(s) PROVE IInv'
  BY <1>7, CrashStep
<1>8. CASE UNCHANGED vars BY <1>8, StutterStep
<1>9. QED BY <1>1, <1>2, <1>3, <1>4, <1>5, <1>6, <1>7, <1>8 DEF Next

(* The inductive invariant of the event task.                              *)
THEOREM EventInvariance == Spec => []IInv
<1>1. Init => IInv BY Initially
<1>2. IInv /\ [Next]_vars => IInv' BY Step
<1>3. QED BY <1>1, <1>2, PTL DEF Spec

(* The event task keeps to its types with any number of buffers, triggers, *)
(* events and runs.                                                        *)
THEOREM EventTypeCorrect == Spec => []TypeOK
<1>1. IInv => TypeOK BY DEF IInv
<1>2. QED BY <1>1, EventInvariance, PTL

(* Events in any number of buffers never mix: what finish() puts out of    *)
(* tracks, towers, TOF hits and MTD hits is the event's own.               *)
THEOREM EventsDoNotMix == Spec => []OwnData
<1>1. IInv => OwnData BY DEF IInv
<1>2. QED BY <1>1, EventInvariance, PTL

(* An event that nobody overtakes is reconstructed with one calibration,   *)
(* however many results arrive while it is in flight.                      *)
THEOREM CalibratedOnce == Spec => []OneCalibration
<1>1. IInv => OneCalibration BY DEF IInv
<1>2. QED BY <1>1, EventInvariance, PTL

------------------------------------------------------------------------------
(* A trigger is accepted when its own algorithm is satisfied: the masks    *)
(* send a decision to the triggers that asked for it.                      *)
LEMMA AcceptedByOwn ==
  ASSUME Masked, NEW t \in Trigger, NEW e, NEW g, NEW luck
  PROVE  t \in L3TrgMask(e, g, luck) <=>
           /\ t \in e.what.l2
           /\ assigned[t] \in Algorithm /\ Satisfied(assigned[t], g, luck)
<1>1. \A a \in Algorithm : t \in l3AlgoNeededMask[a] <=> assigned[t] = a
  BY DEF Masked, Mask
<1>2. t \in L3TrgMask(e, g, luck) <=>
        \E a \in Algorithm : Satisfied(a, g, luck) /\ t \in e.what.l2 /\ t \in l3AlgoNeededMask[a]
  BY DEF L3TrgMask
<1>3. QED BY <1>1, <1>2

(* On the event's own data the algorithms find what the event alone says.  *)
LEMMA DecidesOwn ==
  ASSUME NEW s \in Slot, Filled(s), NEW t \in Trigger, Decidable(t, event[s]),
         NEW g, g = Loaded(Reset(gl3), init[s]), NEW luck
  PROVE  assigned[t] \in Algorithm /\ Satisfied(assigned[t], g, luck) <=> ToAccept(t, event[s])
<1> DEFINE e == event[s]
           a == assigned[t]
<1>1. /\ g.tracks = Only(e, Has(e, "TPX"))
      /\ g.mtdEvent = Only(e, Has(e, "MTD"))
      /\ Has(e, "MTD") /\ Has(e, "TRG") /\ e.what.qtOk => g.flags = {e}
  BY StoreOwn
<1>2. Meets(a, g.tracks) <=> Has(e, "TPX") /\ a \in e.what.passes
  BY <1>1 DEF Meets, Only
<1>3. Meets(a, g.mtdEvent) <=> Has(e, "MTD") /\ a \in e.what.passes
  BY <1>1 DEF Meets, Only
<1>4. a \in ByMuons =>
        (Muons(a, g, luck) <=> Has(e, "TPX") /\ Has(e, "MTD") /\ a \in e.what.passes)
  <2>1. g.tracks # {} <=> Has(e, "TPX") BY <1>1 DEF Only
  <2>2. g.mtdEvent # {} <=> Has(e, "MTD") BY <1>1 DEF Only
  <2>3. a \in ByMuons /\ Has(e, "MTD") => g.flags = g.mtdEvent
    BY <1>1 DEF Only, Decidable
  <2>4. QED BY <1>3, <2>1, <2>2, <2>3 DEF Muons
<1>5. a # "LowMult" BY DEF Decidable
<1> HIDE DEF a, e
<1>6. ToAccept(t, e) <=>
        \/ a = "noHLT"
        \/ a = "HighPt" /\ Has(e, "TPX") /\ a \in e.what.passes
        \/ a \in ByMuons /\ Has(e, "TPX") /\ Has(e, "MTD") /\ a \in e.what.passes
  BY DEF ToAccept, a
<1>7. Satisfied(a, g, luck) <=>
        a = "noHLT" \/ (a = "HighPt" /\ Meets(a, g.tracks)) \/ (a \in ByMuons /\ Muons(a, g, luck))
  BY <1>5 DEF Satisfied, TriggerOn
<1>8. a \in {"noHLT", "HighPt"} \cup ByMuons => a \in Algorithm
  BY DEF Algorithm, ByMuons
<1>9. a \in Algorithm /\ Satisfied(a, g, luck) <=> ToAccept(t, e)
  BY <1>2, <1>4, <1>6, <1>7, <1>8
<1>10. QED BY <1>9 DEF a, e

(* Only finish() finishes an event.                                        *)
LEMMA FinishesByFinish ==
  ASSUME IInv, [Next]_vars, NEW s \in Slot, Finishes(s)
  PROVE  \E luck \in BOOLEAN : Finish(s, luck)
<1>1. stage[s] = "processed" /\ stage'[s] = "finished" BY DEF Finishes
<1>2. stage' # stage BY <1>1
<1>3. ~NewResult /\ ~SendConfig /\ ~StartRun /\ ~StopRun /\ ~UNCHANGED vars
  BY <1>2 DEF NewResult, SendConfig, StartRun, StopRun, vars, buffer
<1>4. ASSUME NEW r \in Slot PROVE ~Crash(r)
  BY <1>2 DEF Crash, buffer
<1>5. ASSUME NEW r \in Slot, NEW c \in Content PROVE ~Process(r, c)
  <2>1. Process(r, c) => stage' = [stage EXCEPT ![r] = "processed"] BY DEF Process
  <2>2. stage \in [Slot -> {"free", "processed", "finished"}] BY DEF IInv, TypeOK
  <2>3. QED BY <1>1, <2>1, <2>2
<1>6. PICK r \in Slot, luck \in BOOLEAN : Finish(r, luck)
  BY <1>3, <1>4, <1>5 DEF Next
<1>7. stage' = [stage EXCEPT ![r] = "finished"] BY <1>6 DEF Finish
<1>8. r = s
  BY <1>1, <1>7 DEF IInv, TypeOK
<1>9. QED BY <1>6, <1>8

(* finish() accepts an event for exactly those of its triggers whose       *)
(* algorithm it satisfies: masks of earlier runs and results of earlier    *)
(* events in the buffer play no part.                                      *)
THEOREM DecidedByOwn == Spec => Decided
<1>1. ASSUME IInv, [Next]_vars, NEW s \in Slot, NEW t \in Trigger,
             Finishes(s), Decidable(t, event[s])
      PROVE  t \in finish'[s].l3TrgMask <=> t \in event[s].what.l2 /\ ToAccept(t, event[s])
  <2>1. PICK luck \in BOOLEAN : Finish(s, luck) BY <1>1, FinishesByFinish
  <2>2. PICK g : g = Loaded(Reset(gl3), init[s]) OBVIOUS
  <2>3. finish' = [finish EXCEPT ![s] =
          [tracks |-> g.tracks, towers |-> g.towers, tofhits |-> g.tofhits,
           mtdhits |-> g.mtdEvent, flags |-> g.flags, tofMatch |-> TofMatch(g),
           trackCali |-> init[s].cali, storeCali |-> storeCali,
           number |-> eventCounter, l3TrgMask |-> L3TrgMask(event[s], g, luck)]]
    BY <2>1, <2>2 DEF Finish
  <2>4. finish'[s].l3TrgMask = L3TrgMask(event[s], g, luck)
    <3>1. finish \in [Slot -> FinishType] BY <1>1 DEF IInv, TypeOK
    <3>2. QED BY <2>3, <3>1
  <2>5. Filled(s) /\ Masked BY <1>1 DEF IInv, InFlight, Finishes
  <2>6. assigned[t] \in Algorithm /\ Satisfied(assigned[t], g, luck) <=> ToAccept(t, event[s])
    BY <1>1, <2>2, <2>5, DecidesOwn
  <2>7. QED BY <2>4, <2>5, <2>6, AcceptedByOwn
<1>2. IInv /\ [Next]_vars =>
        [\A s \in Slot, t \in Trigger :
           Finishes(s) /\ Decidable(t, event[s]) =>
             (t \in finish'[s].l3TrgMask <=> t \in event[s].what.l2 /\ ToAccept(t, event[s]))]_vars
  BY <1>1
<1>3. QED BY <1>2, EventInvariance, PTL DEF Spec, Decided

------------------------------------------------------------------------------
(* Numbers and recursion.                                                  *)
LEMMA LeastNumber ==
  ASSUME NEW S \in SUBSET Nat, S # {}
  PROVE  \E x \in S : \A y \in S : x <= y
<1> DEFINE Less == {ss \in Nat \X Nat : ss[1] < ss[2]}
<1>1. IsWellFoundedOn(Less, Nat)
  BY NatLessThanWellFounded, Zenon DEF OpToRel
<1> HIDE DEF Less
<1>2. PICK x \in S : \A y \in S : ~(<<y, x>> \in Less)
  BY <1>1, WFMin
<1>3. ASSUME NEW y \in S PROVE x <= y
  <2>1. x \in Nat /\ y \in Nat /\ <<y, x>> \notin Less
    BY <1>2
  <2>2. ~(y < x)
    <3>1. SUFFICES ASSUME y < x PROVE <<y, x>> \in Less
      BY <2>1
    <3>2. <<y, x>> \in Nat \X Nat /\ <<y, x>>[1] < <<y, x>>[2]
      BY <2>1, <3>1
    <3> QED
      BY <3>2 DEF Less
  <2> QED
    BY <2>1, <2>2
<1> QED
  BY <1>3

(* A property of 0 that every number hands on to the next one is one of    *)
(* all numbers up to n; P is the set of those that have it.                *)
LEMMA UpTo ==
  ASSUME NEW n \in Nat, NEW P, 0 \in P, \A i \in 1..n : i - 1 \in P => i \in P
  PROVE  0..n \subseteq P
<1> DEFINE bad == {i \in 0..n : i \notin P}
<1>1. ASSUME bad # {} PROVE FALSE
  <2>1. bad \in SUBSET Nat
    OBVIOUS
  <2>2. PICK i \in bad : \A j \in bad : i <= j
    BY <1>1, <2>1, LeastNumber
  <2>3. i \in 1..n /\ i - 1 \in 0..n /\ ~(i <= i - 1)
    OBVIOUS
  <2>4. i - 1 \in P
    BY <2>2, <2>3
  <2> QED
    BY <2>3, <2>4
<1> QED
  BY <1>1

(* A function that is defined from its value before exists.                *)
Steps(S, n) == [S \X (1..n) -> S]
Follows(f, start, n, step) == f[0] = start /\ \A i \in 1..n : f[i] = step[<<f[i - 1], i>>]

LEMMA Recursion ==
  ASSUME NEW S, NEW start \in S, NEW n \in Nat, NEW step \in Steps(S, n)
  PROVE  \E f \in [0..n -> S] : Follows(f, start, n, step)
<1> USE DEF Steps
<1> DEFINE Upto(k, f) == f[0] = start /\ \A i \in 1..k : f[i] = step[<<f[i - 1], i>>]
           P == {k \in 0..n : \E f \in [0..k -> S] : Upto(k, f)}
<1>1. 0 \in P
  <2> DEFINE f == [i \in 0..0 |-> start]
  <2>1. f \in [0..0 -> S] /\ Upto(0, f)
    OBVIOUS
  <2>2. 0 \in 0..n
    OBVIOUS
  <2> HIDE DEF f
  <2> QED
    BY <2>1, <2>2
<1>2. ASSUME NEW k \in 1..n, k - 1 \in P PROVE k \in P
  <2>1. PICK f \in [0..(k - 1) -> S] : Upto(k - 1, f)
    BY <1>2
  <2> DEFINE g == [i \in 0..k |-> IF i = k THEN step[<<f[k - 1], k>>] ELSE f[i]]
  <2>2. f[k - 1] \in S /\ step[<<f[k - 1], k>>] \in S
    <3>1. f[k - 1] \in S
      OBVIOUS
    <3>2. <<f[k - 1], k>> \in S \X (1..n)
      BY <3>1
    <3> QED
      BY <3>1, <3>2
  <2>3. g \in [0..k -> S]
    <3>1. \A i \in 0..k : i = k \/ i \in 0..(k - 1)
      OBVIOUS
    <3> QED
      BY <2>2, <3>1
  <2>4. g[0] = start
    BY <2>1
  <2>5. ASSUME NEW i \in 1..k PROVE g[i] = step[<<g[i - 1], i>>]
    <3>1. i - 1 \in 0..(k - 1) /\ i - 1 \in 0..k /\ i \in 0..k /\ i - 1 # k
      OBVIOUS
    <3>2. g[i - 1] = f[i - 1]
      BY <3>1
    <3>3. CASE i = k
      BY <3>1, <3>2, <3>3
    <3>4. CASE i # k
      <4>1. i \in 1..(k - 1)
        BY <3>4
      <4> QED
        BY <2>1, <3>1, <3>2, <3>4, <4>1
    <3> QED
      BY <3>3, <3>4
  <2> HIDE DEF g
  <2>6. k \in 0..n
    OBVIOUS
  <2> QED
    BY <2>3, <2>4, <2>5, <2>6
<1> HIDE DEF P
<1>3. 0..n \subseteq P
  BY <1>1, <1>2, UpTo
<1>4. n \in P
  BY <1>3
<1> QED
  BY <1>4 DEF P, Follows

------------------------------------------------------------------------------
(* Numbers in order.                                                       *)
Rank(I, i) == Cardinality({k \in I : k <= i})

LEMMA RankIs ==
  ASSUME NEW n \in Nat, NEW I \in SUBSET (1..n)
  PROVE  /\ Rank(I, 0) = 0 /\ Rank(I, n) = Cardinality(I)
         /\ \A i \in 0..n : Rank(I, i) \in Nat
         /\ \A i \in 1..n : Rank(I, i) = IF i \in I THEN Rank(I, i - 1) + 1 ELSE Rank(I, i - 1)
<1> DEFINE Upto(i) == {k \in I : k <= i}
<1>1. IsFiniteSet(I)
  <2>1. IsFiniteSet(1..n)
    BY FS_Interval
  <2> QED
    BY <2>1, FS_Subset
<1>2. \A i : Rank(I, i) = Cardinality(Upto(i))
  BY DEF Rank
<1>3. \A i : IsFiniteSet(Upto(i)) /\ Cardinality(Upto(i)) \in Nat
  <2> TAKE i
  <2>1. Upto(i) \in SUBSET I
    OBVIOUS
  <2> HIDE DEF Upto
  <2> QED
    BY <1>1, <2>1, FS_Subset, FS_CardinalityType
<1>4. Upto(0) = {} /\ Upto(n) = I
  <2>1. \A k \in I : ~(k <= 0) /\ k <= n
    OBVIOUS
  <2> QED
    BY <2>1, Zenon
<1>5. ASSUME NEW i \in 1..n
      PROVE  Cardinality(Upto(i)) = IF i \in I THEN Cardinality(Upto(i - 1)) + 1
                                    ELSE Cardinality(Upto(i - 1))
  <2>1. \A k \in I : k <= i <=> k <= i - 1 \/ k = i
    BY <1>5
  <2>2. ~(i <= i - 1)
    BY <1>5
  <2>3. CASE i \in I
    <3>1. Upto(i) = Upto(i - 1) \cup {i} /\ i \notin Upto(i - 1)
      BY <2>1, <2>2, <2>3, Zenon
    <3> HIDE DEF Upto
    <3>2. Cardinality(Upto(i - 1) \cup {i}) = Cardinality(Upto(i - 1)) + 1
      BY <1>3, <3>1, FS_AddElement
    <3> QED
      BY <2>3, <3>1, <3>2
  <2>4. CASE i \notin I
    <3>1. Upto(i) = Upto(i - 1)
      BY <2>1, <2>4, Zenon
    <3> HIDE DEF Upto
    <3> QED
      BY <2>4, <3>1
  <2> QED
    BY <2>3, <2>4
<1> HIDE DEF Upto
<1> QED
  BY <1>2, <1>3, <1>4, <1>5, FS_EmptySet


(* The n-th of a set of numbers has n - 1 before it.                       *)
LEMMA NthIs ==
  ASSUME NEW n \in Nat, NEW I \in SUBSET (1..n)
  PROVE  /\ Cardinality(I) \in Nat
         /\ \A m \in 1..Cardinality(I) : Nth(I, m) \in I /\ Rank(I, Nth(I, m)) = m
         /\ \A i \in I : Rank(I, i) \in 1..Cardinality(I) /\ Nth(I, Rank(I, i)) = i
<1> DEFINE c == Cardinality(I)
<1>1. /\ Rank(I, 0) = 0 /\ Rank(I, n) = c
      /\ \A i \in 0..n : Rank(I, i) \in Nat
      /\ \A i \in 1..n : Rank(I, i) = IF i \in I THEN Rank(I, i - 1) + 1 ELSE Rank(I, i - 1)
  BY RankIs
<1>2. c \in Nat
  <2>1. n \in 0..n
    OBVIOUS
  <2> QED
    BY <1>1, <2>1
<1> HIDE DEF c
<1>3. ASSUME NEW i \in 0..n, NEW j \in i..n
      PROVE  Rank(I, i) <= Rank(I, j)
  <2> DEFINE P == {k \in 0..(n - i) : Rank(I, i) <= Rank(I, i + k)}
  <2>1. 0 \in P
    BY <1>1
  <2>2. ASSUME NEW k \in 1..(n - i), k - 1 \in P PROVE k \in P
    <3>1. i + k \in 1..n /\ i + k - 1 \in 0..n /\ i + (k - 1) = i + k - 1
      OBVIOUS
    <3>2. Rank(I, i) <= Rank(I, i + k - 1)
      BY <2>2, <3>1
    <3>3. Rank(I, i + k) >= Rank(I, i + k - 1) /\ Rank(I, i + k) \in Nat /\ Rank(I, i + k - 1) \in Nat
          /\ Rank(I, i) \in Nat
      BY <1>1, <3>1
    <3>4. Rank(I, i) <= Rank(I, i + k)
      BY <3>2, <3>3
    <3> QED
      BY <3>4
  <2> HIDE DEF P
  <2>3. 0..(n - i) \subseteq P
    <3>1. n - i \in Nat
      OBVIOUS
    <3> QED
      BY <2>1, <2>2, <3>1, UpTo
  <2>4. j - i \in P /\ i + (j - i) = j
    BY <2>3
  <2> QED
    BY <2>4 DEF P
<1>4. ASSUME NEW i \in I PROVE Rank(I, i) \in 1..c
  <2>1. i \in 1..n /\ i - 1 \in 0..n /\ i \in 0..n /\ n \in i..n
    OBVIOUS
  <2>2. Rank(I, i) = Rank(I, i - 1) + 1 /\ Rank(I, i - 1) \in Nat /\ Rank(I, i) <= c
    BY <1>1, <1>3, <2>1
  <2> QED
    BY <1>2, <2>2
<1>5. ASSUME NEW i \in I, NEW j \in I, i < j PROVE Rank(I, i) < Rank(I, j)
  <2>1. i \in 0..n /\ j \in 1..n /\ j - 1 \in i..n /\ j - 1 \in 0..n
    BY <1>5
  <2>2. Rank(I, i) <= Rank(I, j - 1) /\ Rank(I, j) = Rank(I, j - 1) + 1
    BY <1>1, <1>3, <2>1
  <2>3. Rank(I, i) \in Nat /\ Rank(I, j - 1) \in Nat
    BY <1>1, <2>1
  <2> QED
    BY <2>2, <2>3
<1>6. ASSUME NEW m \in 1..c PROVE \E i \in I : Rank(I, i) = m
  <2> DEFINE S == {i \in 0..n : Rank(I, i) >= m}
  <2>1. n \in S /\ S \in SUBSET Nat
    BY <1>1, <1>2
  <2>2. PICK i \in S : \A j \in S : i <= j
    BY <2>1, LeastNumber
  <2>3. i \in 0..n /\ Rank(I, i) >= m
    OBVIOUS
  <2>4. i # 0
    BY <1>1, <2>3
  <2>5. i \in 1..n /\ i - 1 \in 0..n /\ ~(i <= i - 1)
    BY <2>3, <2>4
  <2>6. ~(Rank(I, i - 1) >= m)
    BY <2>2, <2>5
  <2>7. Rank(I, i - 1) \in Nat /\ Rank(I, i) \in Nat
        /\ Rank(I, i) = IF i \in I THEN Rank(I, i - 1) + 1 ELSE Rank(I, i - 1)
    BY <1>1, <2>3, <2>5
  <2>8. i \in I /\ Rank(I, i) = m
    BY <2>3, <2>6, <2>7
  <2> QED
    BY <2>8
<1>7. ASSUME NEW m \in 1..c PROVE Nth(I, m) \in I /\ Rank(I, Nth(I, m)) = m
  <2>1. \E i \in I : Cardinality({j \in I : j <= i}) = m
    BY <1>6 DEF Rank
  <2> QED
    BY <2>1 DEF Nth, Rank
<1>8. ASSUME NEW i \in I PROVE Nth(I, Rank(I, i)) = i
  <2>1. Rank(I, i) \in 1..c
    BY <1>4
  <2> DEFINE k == Nth(I, Rank(I, i))
  <2>2. k \in I /\ Rank(I, k) = Rank(I, i)
    BY <1>7, <2>1
  <2> HIDE DEF k
  <2>3. ~(k < i) /\ ~(i < k)
    <3>1. Rank(I, k) \in Nat /\ Rank(I, i) \in Nat
      BY <1>1, <2>2
    <3> QED
      BY <1>5, <2>2, <3>1
  <2>4. k \in Nat /\ i \in Nat
    BY <2>2
  <2>5. k = i
    BY <2>3, <2>4
  <2> QED
    BY <2>5 DEF k
<1> QED
  BY <1>2, <1>4, <1>7, <1>8 DEF c

------------------------------------------------------------------------------
(* The tracking with the cellular automaton.                               *)
Places == 0..maxHits - 1

(* The tracks that were found, and the pairs that are made of them.        *)
FoundTracks ==
  /\ Len(CATracks) \in Nat
  /\ \A t \in 1..Len(CATracks) : CATracks[t].hits \in Seq(0..nHits - 1)
  /\ caStage = "reading" => CATracks = <<>>

PairType ==
  [id : Nat, nHits : Nat, mean : {CATracks[t].mean : t \in 1..Len(CATracks)},
   outerMostRow : 0..45, innerMostRow : 0..45, fitted : Seq(Places)]

(* A hit of the event is on a track that was converted and that has it, or *)
(* on none.                                                                *)
OnItsTrack ==
  \A h \in 0..nHits - 1 :
    \/ fHits[h].track = NoTrack
    \/ fHits[h].track \in 1..iTrk /\ h \in Span(fHits[h].track)

(* A pair is of a track of its own, and fitted with hits that are linked   *)
(* to that track and are as many as it counts.                             *)
PairsLinked ==
  /\ trackPairs \in Seq(PairType)
  /\ \A i \in 1..Len(trackPairs) :
       LET p == trackPairs[i]
       IN /\ p.id \in 1..iTrk /\ Len(p.fitted) = p.nHits
          /\ \A k \in 1..Len(p.fitted) :
               p.fitted[k] \in 0..nHits - 1 /\ fHits[p.fitted[k]].track = p.id
  /\ \A i, j \in 1..Len(trackPairs) : i # j => trackPairs[i].id # trackPairs[j].id

CaInv == CaTypeOK /\ FoundTracks /\ OnItsTrack /\ PairsLinked /\ OwnHitsKept

LEMMA CaSizes ==
  /\ maxHits \in Nat /\ maxHits > 5 /\ MaxEvents \in Nat /\ MinNHits \in Nat \ {0}
  /\ Places = 0..maxHits - 1 /\ NoTrack = 0 /\ NoHit = -1
BY CaAssumption DEF Places, NoTrack, NoHit

LEMMA CaInitInv == CaInit => CaInv
<1> SUFFICES ASSUME CaInit PROVE CaInv
  OBVIOUS
<1> USE CaSizes DEF CaInit
<1>1. Len(CATracks) = 0 /\ Len(trackPairs) = 0
  OBVIOUS
<1>2. Empty \in CaHit
  BY DEF Empty, CaHit
<1>3. CaTypeOK
  BY <1>1, <1>2 DEF CaTypeOK
<1>4. FoundTracks
  BY <1>1 DEF FoundTracks
<1>5. OnItsTrack
  BY DEF OnItsTrack
<1>6. PairsLinked
  BY <1>1 DEF PairsLinked
<1>7. OwnHitsKept
  BY DEF OwnHitsKept
<1> QED
  BY <1>3, <1>4, <1>5, <1>6, <1>7 DEF CaInv

------------------------------------------------------------------------------
(* Reading.                                                                *)
Reads == {read \in [nHits : 0..maxHits - 6, fHits : [Places -> CaHit], ok : BOOLEAN] :
            \A h \in 0..read.nHits - 1 : read.fHits[h].track = NoTrack}

LEMMA KeptIs ==
  ASSUME NEW r \in Row
  PROVE  /\ Kept(r) \in SUBSET (1..Len(r.clusters)) /\ Len(r.clusters) \in Nat
         /\ Cardinality(Kept(r)) \in 0..Len(r.clusters)
         /\ \A m \in 0..Cardinality(Kept(r)) - 1 : \E i \in Kept(r) : Place(r, i) = m
<1> DEFINE n == Len(r.clusters)
<1>1. r.clusters \in Seq(Cluster) /\ n \in Nat /\ DOMAIN r.clusters = 1..n
  BY LenProperties DEF Row
<1> HIDE DEF n
<1>2. Kept(r) \in SUBSET (1..n)
  BY <1>1 DEF Kept
<1>3. Cardinality(Kept(r)) \in Nat /\ Cardinality(Kept(r)) <= n
  <2>1. IsFiniteSet(1..n) /\ Cardinality(1..n) = n
    BY <1>1, FS_Interval
  <2> QED
    BY <1>2, <2>1, FS_Subset, FS_CardinalityType
<1>4. ASSUME NEW i \in Kept(r) PROVE Place(r, i) = Rank(Kept(r), i) - 1
  <2>1. {j \in Kept(r) : j < i} = {j \in Kept(r) : j <= i - 1}
    <3>1. \A j \in Kept(r) : j < i <=> j <= i - 1
      BY <1>2
    <3> QED
      BY <3>1
  <2>2. Place(r, i) = Rank(Kept(r), i - 1)
    BY <2>1 DEF Place, Rank
  <2>3. i \in 1..n /\ i - 1 \in 0..n
    BY <1>1, <1>2
  <2>4. Rank(Kept(r), i) = Rank(Kept(r), i - 1) + 1 /\ Rank(Kept(r), i - 1) \in Nat
    BY <1>1, <1>2, <2>3, RankIs
  <2> QED
    BY <2>2, <2>4
<1>5. ASSUME NEW m \in 0..Cardinality(Kept(r)) - 1
      PROVE  \E i \in Kept(r) : Place(r, i) = m
  <2>1. m + 1 \in 1..Cardinality(Kept(r))
    BY <1>3
  <2>2. PICK i \in Kept(r) : Rank(Kept(r), i) = m + 1
    BY <1>1, <1>2, <2>1, NthIs
  <2>3. Place(r, i) = m
    BY <1>4, <2>2
  <2> QED
    BY <2>3
<1> QED
  BY <1>1, <1>2, <1>3, <1>5 DEF n

LEMMA AddRowReads ==
  ASSUME NEW read \in Reads, NEW sector \in Sectors, NEW r \in Row
  PROVE  AddRow(read, sector, r) \in Reads
<1> DEFINE s == AddRow(read, sector, r)
           At(h) == {i \in Kept(r) : read.nHits + Place(r, i) = h}
           New(h) == NewHit(sector, r.row, r.clusters[CHOOSE i \in At(h) : TRUE], read.fHits[h])
           n == read.nHits + Cardinality(Kept(r))
<1>1. /\ read.nHits \in 0..maxHits - 6 /\ read.fHits \in [Places -> CaHit] /\ read.ok \in BOOLEAN
      /\ read \in [nHits : 0..maxHits - 6, fHits : [Places -> CaHit], ok : BOOLEAN]
      /\ \A h \in 0..read.nHits - 1 : read.fHits[h].track = NoTrack
  BY DEF Reads
<1>2. CASE ~(read.ok /\ Readable(r, read.nHits))
  <2>1. s = [read EXCEPT !.ok = FALSE]
    BY <1>2 DEF AddRow
  <2> QED
    BY <1>1, <2>1 DEF Reads
<1>3. CASE read.ok /\ Readable(r, read.nHits)
  <2>1. s = [nHits |-> n, fHits |-> [h \in Places |-> IF At(h) = {} THEN read.fHits[h] ELSE New(h)],
             ok |-> TRUE]
    BY <1>1, <1>3 DEF AddRow
  <2>2. n \in 0..maxHits - 6 /\ Cardinality(Kept(r)) \in Nat
    BY <1>1, <1>3, KeptIs, CaSizes DEF Readable, Room
  <2>3. ASSUME NEW h \in Places, At(h) # {}
        PROVE  New(h) \in CaHit /\ New(h).track = NoTrack
    <3>1. PICK i \in Kept(r) : i = (CHOOSE j \in At(h) : TRUE)
      BY <2>3
    <3>2. i \in 1..Len(r.clusters) /\ r.clusters \in Seq(Cluster)
      BY KeptIs DEF Row
    <3>3. r.clusters[i] \in Cluster
      BY <3>2, ElementOfSeq
    <3>4. r.row \in 0..45
      BY <1>3 DEF Readable
    <3>5. New(h) = NewHit(sector, r.row, r.clusters[i], read.fHits[h])
      BY <3>1
    <3> HIDE DEF New
    <3> QED
      BY <3>3, <3>4, <3>5, CaSizes DEF NewHit, CaHit, Cluster
  <2>4. ASSUME NEW h \in 0..n - 1
        PROVE  h \in Places /\ (At(h) = {} => read.fHits[h].track = NoTrack)
    <3>1. h \in Places
      BY <2>2, CaSizes
    <3>2. CASE h < read.nHits
      BY <1>1, <2>2, <3>1, <3>2
    <3>3. CASE ~(h < read.nHits)
      <4>1. h - read.nHits \in 0..Cardinality(Kept(r)) - 1
        BY <1>1, <2>2, <3>3
      <4>2. PICK i \in Kept(r) : Place(r, i) = h - read.nHits
        BY <4>1, KeptIs
      <4>3. read.nHits + Place(r, i) = h
        BY <1>1, <2>2, <4>2
      <4> QED
        BY <3>1, <4>3
    <3> QED
      BY <3>2, <3>3
  <2> HIDE DEF At, New, n, s
  <2> DEFINE f == [h \in Places |-> IF At(h) = {} THEN read.fHits[h] ELSE New(h)]
  <2>5. f \in [Places -> CaHit]
    BY <1>1, <2>3
  <2>6. \A h \in 0..n - 1 : f[h].track = NoTrack
    BY <2>3, <2>4
  <2> HIDE DEF f
  <2>7. s = [nHits |-> n, fHits |-> f, ok |-> TRUE]
    BY <2>1 DEF f
  <2>8. s \in [nHits : 0..maxHits - 6, fHits : [Places -> CaHit], ok : BOOLEAN]
    BY <2>2, <2>5, <2>7
  <2>9. s.nHits = n /\ s.fHits = f
    BY <2>7
  <2>10. \A h \in 0..s.nHits - 1 : s.fHits[h].track = NoTrack
    BY <2>6, <2>9
  <2> QED
    BY <2>8, <2>10 DEF Reads, s
<1> QED
  BY <1>2, <1>3

LEMMA ReadRowsReads ==
  ASSUME CaTypeOK, \A h \in 0..nHits - 1 : fHits[h].track = NoTrack,
         NEW sector \in Sectors, NEW rows \in SectorData
  PROVE  ReadRows(sector, rows) \in Reads
<1> DEFINE start == [nHits |-> nHits, fHits |-> fHits, ok |-> TRUE]
           n == Len(rows)
           Def(f) == f = [k \in 0..n |-> IF k = 0 THEN start ELSE AddRow(f[k - 1], sector, rows[k])]
           read == CHOOSE f : Def(f)
           step == [x \in Reads \X (1..n) |-> AddRow(x[1], sector, rows[x[2]])]
<1>1. start \in Reads
  BY DEF CaTypeOK, Reads, Places
<1>2. n \in Nat /\ \A k \in 1..n : rows[k] \in Row
  <2>1. rows \in Seq(Row)
    BY CaAssumption
  <2> QED
    BY <2>1, LenProperties, ElementOfSeq
<1>3. ReadRows(sector, rows) = read[n]
  BY DEF ReadRows
<1> HIDE DEF start, n
<1>4. \A x \in Reads, k \in 1..n : AddRow(x, sector, rows[k]) \in Reads
  BY <1>2, AddRowReads
<1>5. \E f : Def(f)
  <2>1. step \in Steps(Reads, n)
    BY <1>4 DEF Steps
  <2>2. PICK f \in [0..n -> Reads] : Follows(f, start, n, step)
    BY <1>1, <1>2, <2>1, Recursion
  <2>3. \A k \in 1..n : f[k - 1] \in Reads
    BY <1>2
  <2>4. \A k \in 1..n : f[k] = AddRow(f[k - 1], sector, rows[k])
    BY <2>2, <2>3 DEF Follows
  <2>5. f[0] = start
    BY <2>2 DEF Follows
  <2>6. \A k \in 0..n : k = 0 \/ k \in 1..n
    OBVIOUS
  <2> QED
    BY <2>4, <2>5, <2>6
<1>6. Def(read)
  BY <1>5
<1> HIDE DEF read
<1> DEFINE P == {k \in 0..n : read[k] \in Reads}
<1>7. 0 \in P
  BY <1>1, <1>2, <1>6
<1>8. ASSUME NEW k \in 1..n, k - 1 \in P PROVE k \in P
  <2>1. k \in 0..n /\ k # 0
    BY <1>2
  <2>2. read[k] = AddRow(read[k - 1], sector, rows[k])
    BY <1>6, <2>1
  <2> QED
    BY <1>4, <1>8, <2>1, <2>2
<1> HIDE DEF P
<1>9. n \in P
  BY <1>2, <1>7, <1>8, UpTo
<1> QED
  BY <1>3, <1>9 DEF P

------------------------------------------------------------------------------
(* Conversion.                                                             *)
Distinct(own) == \A j, k \in 1..Len(own) : j # k => own[j] # own[k]

(* The hits that a track takes: those of its span that are free, each      *)
(* once.                                                                   *)
LEMMA TakenIs ==
  ASSUME CaInv, NEW t \in 1..Len(CATracks)
  PROVE  /\ Taken(t) \in Seq(0..nHits - 1) /\ Len(Taken(t)) \in Nat /\ Distinct(Taken(t))
         /\ {Taken(t)[k] : k \in 1..Len(Taken(t))} = {h \in Span(t) : Free(h)}
<1> DEFINE hits == CATracks[t].hits
           n == Len(hits)
           I == FreeAt(hits)
           c == Cardinality(I)
           own == Taken(t)
<1>1. hits \in Seq(0..nHits - 1) /\ n \in Nat /\ DOMAIN hits = 1..n
      /\ \A k \in 1..n : hits[k] \in 0..nHits - 1
  <2>1. hits \in Seq(0..nHits - 1)
    BY DEF CaInv, FoundTracks
  <2> QED
    BY <2>1, LenProperties, ElementOfSeq
<1>2. own = [k \in 1..c |-> hits[Nth(I, c - k + 1)]]
  BY DEF Taken
<1>3. Span(t) = {hits[k] : k \in 1..n}
  BY DEF Span
<1> HIDE DEF hits, n, own
<1>4. I \in SUBSET (1..n)
  BY <1>1 DEF FreeAt
<1>5. /\ \A k \in I : Free(hits[k])
      /\ \A j, k \in I : hits[j] = hits[k] => j = k
  <2>1. \A k \in I : Free(hits[k]) /\ \A j \in 1..n : j > k => hits[j] # hits[k]
    BY <1>1 DEF FreeAt
  <2>2. \A j, k \in I : j > k \/ k > j \/ j = k
    BY <1>4
  <2> QED
    BY <1>4, <2>1, <2>2
<1>6. ASSUME NEW h \in Span(t), Free(h) PROVE \E k \in I : hits[k] = h
  <2> DEFINE S == {n - k : k \in {l \in 1..n : hits[l] = h}}
  <2>1. S \in SUBSET Nat /\ S # {}
    BY <1>1, <1>3
  <2>2. PICK x \in S : \A y \in S : x <= y
    BY <2>1, LeastNumber
  <2>3. PICK k \in 1..n : hits[k] = h /\ x = n - k
    OBVIOUS
  <2>4. ASSUME NEW j \in 1..n, j > k PROVE hits[j] # hits[k]
    <3>1. SUFFICES ASSUME hits[j] = h PROVE FALSE
      BY <2>3
    <3>2. n - j \in S
      BY <3>1
    <3>3. x <= n - j
      BY <2>2, <3>2
    <3> HIDE DEF S
    <3> QED
      BY <1>1, <2>3, <2>4, <3>3
  <2>5. k \in I
    BY <1>1, <1>6, <2>3, <2>4 DEF FreeAt
  <2> QED
    BY <2>3, <2>5
<1> HIDE DEF I
<1>7. /\ c \in Nat
      /\ \A m \in 1..c : Nth(I, m) \in I /\ Rank(I, Nth(I, m)) = m
      /\ \A i \in I : Rank(I, i) \in 1..c /\ Nth(I, Rank(I, i)) = i
  BY <1>1, <1>4, NthIs
<1> HIDE DEF c
<1>8. \A k \in 1..c : c - k + 1 \in 1..c /\ Nth(I, c - k + 1) \in I /\ Rank(I, Nth(I, c - k + 1)) = c - k + 1
  BY <1>7
<1>9. own \in Seq(0..nHits - 1) /\ Len(own) = c /\ \A k \in 1..c : own[k] = hits[Nth(I, c - k + 1)]
  <2>1. \A k \in 1..c : hits[Nth(I, c - k + 1)] \in 0..nHits - 1
    BY <1>1, <1>4, <1>8
  <2> QED
    BY <1>2, <1>7, <2>1
<1>10. ASSUME NEW j \in 1..c, NEW k \in 1..c, own[j] = own[k] PROVE j = k
  <2> DEFINE a == Nth(I, c - j + 1)
             b == Nth(I, c - k + 1)
  <2>3. a \in I /\ b \in I /\ own[j] = hits[a] /\ own[k] = hits[b]
    BY <1>8, <1>9
  <2>1. a = b
    <3> HIDE DEF a, b
    <3> QED
      BY <1>5, <1>10, <2>3
  <2>2. c - j + 1 = c - k + 1
    BY <1>8, <2>1
  <2> QED
    BY <1>7, <2>2
<1>11. Distinct(own)
  BY <1>9, <1>10 DEF Distinct
<1>12. ASSUME NEW k \in 1..c PROVE own[k] \in {h \in Span(t) : Free(h)}
  <2> DEFINE a == Nth(I, c - k + 1)
  <2>1. a \in I /\ own[k] = hits[a]
    BY <1>8, <1>9
  <2> HIDE DEF a
  <2>2. a \in 1..n /\ Free(hits[a])
    BY <1>4, <1>5, <2>1
  <2>3. hits[a] \in Span(t)
    BY <1>3, <2>2
  <2> QED
    BY <2>1, <2>2, <2>3
<1>13. ASSUME NEW h \in Span(t), Free(h) PROVE \E k \in 1..c : own[k] = h
  <2>1. PICK i \in I : hits[i] = h
    BY <1>6, <1>13
  <2>2. Rank(I, i) \in 1..c /\ Nth(I, Rank(I, i)) = i
    BY <1>7
  <2>3. c - Rank(I, i) + 1 \in 1..c /\ c - (c - Rank(I, i) + 1) + 1 = Rank(I, i)
    BY <1>7, <2>2
  <2>4. own[c - Rank(I, i) + 1] = h
    BY <1>9, <2>1, <2>2, <2>3
  <2> QED
    BY <2>3, <2>4
<1>14. {own[k] : k \in 1..Len(own)} = {h \in Span(t) : Free(h)}
  BY <1>9, <1>12, <1>13
<1> QED
  BY <1>7, <1>9, <1>11, <1>14 DEF own

(* The links of the hits that a track takes.                               *)
LEMMA LinkedIs ==
  ASSUME CaInv, NEW t \in 1..Len(CATracks)
  PROVE  /\ Linked(t) \in [Places -> CaHit]
         /\ \A k \in 1..Len(Taken(t)) :
              /\ Linked(t)[Taken(t)[k]].track = t
              /\ Linked(t)[Taken(t)[k]].next = IF k = Len(Taken(t)) THEN NoHit ELSE Taken(t)[k + 1]
              /\ Linked(t)[Taken(t)[k]].row \in 0..45
         /\ \A h \in Places : (\A k \in 1..Len(Taken(t)) : Taken(t)[k] # h) => Linked(t)[h] = fHits[h]
<1> DEFINE own == Taken(t)
           links == Linked(t)
           At(h) == CHOOSE k \in 1..Len(own) : own[k] = h
<1>1. /\ own \in Seq(0..nHits - 1) /\ Len(own) \in Nat /\ Distinct(own)
      /\ \A k \in 1..Len(own) : own[k] \in 0..nHits - 1
  BY TakenIs, ElementOfSeq
<1>2. fHits \in [Places -> CaHit] /\ nHits \in 0..maxHits - 6 /\ t \in Nat
  BY DEF CaInv, CaTypeOK, Places, FoundTracks
<1>3. links = [h \in Places |->
                 IF \E k \in 1..Len(own) : own[k] = h
                 THEN [fHits[h] EXCEPT !.track = t,
                                       !.next = IF At(h) = Len(own) THEN NoHit ELSE own[At(h) + 1]]
                 ELSE fHits[h]]
  BY <1>2 DEF Linked
<1> HIDE DEF own, links
<1>4. ASSUME NEW k \in 1..Len(own) PROVE At(own[k]) = k /\ own[k] \in Places
  <2>1. own[k] \in Places
    BY <1>1, <1>2, CaSizes
  <2> QED
    BY <1>1, <2>1 DEF Distinct
<1> HIDE DEF At
<1>5. ASSUME NEW k \in 1..Len(own)
      PROVE  /\ links[own[k]] \in CaHit
             /\ links[own[k]].track = t
             /\ links[own[k]].next = IF k = Len(own) THEN NoHit ELSE own[k + 1]
             /\ links[own[k]].row \in 0..45
  <2> DEFINE next == IF k = Len(own) THEN NoHit ELSE own[k + 1]
  <2>1. links[own[k]] = [fHits[own[k]] EXCEPT !.track = t, !.next = next]
    BY <1>3, <1>4
  <2>2. next \in -1..maxHits - 1
    <3>1. CASE k = Len(own)
      BY <3>1, CaSizes
    <3>2. CASE k # Len(own)
      <4>1. k + 1 \in 1..Len(own)
        BY <1>1, <3>2
      <4>2. own[k + 1] \in 0..nHits - 1
        BY <1>1, <4>1
      <4> QED
        BY <1>2, <3>2, <4>2, CaSizes
    <3> QED
      BY <3>1, <3>2
  <2>3. fHits[own[k]] \in CaHit
    BY <1>2, <1>4
  <2> HIDE DEF next
  <2>4. links[own[k]] \in CaHit /\ links[own[k]].track = t /\ links[own[k]].next = next
        /\ links[own[k]].row \in 0..45
    BY <1>2, <2>1, <2>2, <2>3 DEF CaHit
  <2> QED
    BY <2>4 DEF next
<1>6. \A h \in Places : (\A k \in 1..Len(own) : own[k] # h) => links[h] = fHits[h]
  BY <1>3
<1>7. links \in [Places -> CaHit]
  <2>1. \A h \in Places : links[h] \in CaHit
    BY <1>2, <1>5, <1>6
  <2>2. \E f : links = [h \in Places |-> f[h]]
    <3>1. links = [h \in Places |-> links[h]]
      BY <1>3
    <3> QED
      BY <3>1
  <2> QED
    BY <2>1, <2>2
<1> QED
  BY <1>5, <1>6, <1>7 DEF own, links

(* A walk along links visits the hits in the order they were taken, and    *)
(* ends with the last one.                                                 *)
LEMMA ChainIs ==
  ASSUME NEW own \in Seq(Places), Len(own) \in Nat \ {0}, Distinct(own), NEW links,
         \A k \in 1..Len(own) : links[own[k]].next = IF k = Len(own) THEN NoHit ELSE own[k + 1]
  PROVE  Chain(links, own[1]) = own
<1> DEFINE n == Len(own)
           first == own[1]
           Def(f) == f = [k \in 0..maxHits |->
                            IF k = 0 THEN first
                            ELSE IF f[k - 1] = NoHit THEN NoHit ELSE links[f[k - 1]].next]
           seen == CHOOSE f : Def(f)
           seq == [k \in 0..maxHits |-> IF k < n THEN own[k + 1] ELSE NoHit]
<1>1. \A k \in 1..n : own[k] \in Places /\ own[k] # NoHit
  <2>1. \A k \in 1..n : own[k] \in Places
    BY ElementOfSeq
  <2> QED
    BY <2>1, CaSizes
<1>2. n <= maxHits
  <2>1. IsFiniteSet(Places) /\ Cardinality(Places) = maxHits
    BY CaSizes, FS_Interval
  <2> DEFINE f == [k \in 1..n |-> own[k]]
  <2>2. f \in Injection(1..n, Places)
    BY <1>1, Zenon DEF Injection, Distinct, IsInjective
  <2>3. Cardinality(1..n) <= Cardinality(Places)
    BY <2>1, <2>2, FS_Injection
  <2>4. Cardinality(1..n) = n
    <3>1. n \in Nat /\ n >= 1
      OBVIOUS
    <3> HIDE DEF n
    <3>2. Cardinality(1..n) = IF 1 > n THEN 0 ELSE n - 1 + 1
      BY <3>1, FS_Interval
    <3> QED
      BY <3>1, <3>2
  <2> QED
    BY <2>1, <2>3, <2>4
<1> USE CaSizes
<1>3. Def(seq)
  <2>1. seq[0] = first
    OBVIOUS
  <2>2. ASSUME NEW k \in 1..maxHits
        PROVE  seq[k] = IF seq[k - 1] = NoHit THEN NoHit ELSE links[seq[k - 1]].next
    <3>1. k - 1 \in 0..maxHits /\ k \in 0..maxHits
      OBVIOUS
    <3>2. CASE k - 1 < n
      <4>1. k \in 1..n /\ seq[k - 1] = own[k] /\ (k < n => seq[k] = own[k + 1]) /\ (k = n => seq[k] = NoHit)
        BY <3>1, <3>2
      <4> HIDE DEF seq
      <4>2. seq[k - 1] # NoHit /\ links[seq[k - 1]].next = IF k = n THEN NoHit ELSE own[k + 1]
        BY <1>1, <4>1
      <4> QED
        BY <4>1, <4>2
    <3>3. CASE ~(k - 1 < n)
      BY <3>1, <3>3
    <3> QED
      BY <3>2, <3>3
  <2>3. \A k \in 0..maxHits : k = 0 \/ k \in 1..maxHits
    OBVIOUS
  <2>4. seq = [k \in 0..maxHits |-> seq[k]]
    OBVIOUS
  <2> HIDE DEF seq, first
  <2> QED
    BY <2>1, <2>2, <2>3, <2>4
<1>4. Def(seen)
  BY <1>3
<1> HIDE DEF seen
<1>5. \A k \in 0..maxHits : seen[k] = seq[k]
  <2> DEFINE P == {k \in 0..maxHits : seen[k] = seq[k]}
  <2>1. 0 \in P
    BY <1>3, <1>4
  <2>2. ASSUME NEW k \in 1..maxHits, k - 1 \in P PROVE k \in P
    <3>1. k \in 0..maxHits /\ k # 0 /\ seen[k - 1] = seq[k - 1]
      BY <2>2
    <3> HIDE DEF seq
    <3>2. seen[k] = IF seen[k - 1] = NoHit THEN NoHit ELSE links[seen[k - 1]].next
      BY <1>4, <3>1
    <3>3. seq[k] = IF seq[k - 1] = NoHit THEN NoHit ELSE links[seq[k - 1]].next
      BY <1>3, <3>1
    <3> QED
      BY <3>1, <3>2, <3>3
  <2> HIDE DEF P
  <2>3. 0..maxHits \subseteq P
    BY <2>1, <2>2, UpTo
  <2> QED
    BY <2>3 DEF P
<1> DEFINE length == Cardinality({k \in 0..maxHits : seen[k] # NoHit})
<1>6. length = n
  <2>1. {k \in 0..maxHits : seen[k] # NoHit} = 0..(n - 1)
    <3>1. ASSUME NEW k \in 0..maxHits PROVE seen[k] # NoHit <=> k < n
      <4>1. seen[k] = IF k < n THEN own[k + 1] ELSE NoHit
        BY <1>5
      <4>2. k < n => k + 1 \in 1..n
        OBVIOUS
      <4> QED
        BY <1>1, <4>1, <4>2
    <3> HIDE DEF n
    <3>2. n \in Nat
      BY DEF n
    <3> QED
      BY <1>2, <3>1, <3>2
  <2>2. Cardinality(0..(n - 1)) = n
    <3>1. n - 1 \in Int /\ ~(0 > n - 1) /\ n - 1 - 0 + 1 = n /\ 0 \in Int
      OBVIOUS
    <3> HIDE DEF n
    <3>2. Cardinality(0..(n - 1)) = IF 0 > n - 1 THEN 0 ELSE n - 1 - 0 + 1
      BY <3>1, FS_Interval
    <3> QED
      BY <3>1, <3>2
  <2> QED
    BY <2>1, <2>2
<1>7. Chain(links, first) = [k \in 1..length |-> seen[k - 1]]
  BY DEF Chain, seen
<1>8. [k \in 1..n |-> seen[k - 1]] = own
  <2>1. \A k \in 1..n : seen[k - 1] = own[k]
    <3> TAKE k \in 1..n
    <3>1. k - 1 \in 0..maxHits /\ k - 1 < n /\ (k - 1) + 1 = k
      BY <1>2
    <3> QED
      BY <1>5, <3>1
  <2>2. own = [k \in 1..n |-> own[k]]
    OBVIOUS
  <2> QED
    BY <2>1, <2>2
<1> QED
  BY <1>6, <1>7, <1>8

------------------------------------------------------------------------------
(* The steps.                                                              *)
LEMMA EventStartStep == CaInv /\ EventStart => CaInv'
<1> SUFFICES ASSUME CaInv, EventStart PROVE CaInv'
  OBVIOUS
<1> USE CaSizes DEF EventStart
<1>1. Len(CATracks') = 0 /\ Len(trackPairs') = 0
  OBVIOUS
<1>2. CaTypeOK'
  BY <1>1 DEF CaInv, CaTypeOK
<1>3. FoundTracks'
  BY <1>1 DEF FoundTracks
<1>4. OnItsTrack'
  BY DEF OnItsTrack
<1>5. PairsLinked'
  BY <1>1 DEF PairsLinked
<1>6. OwnHitsKept'
  BY DEF OwnHitsKept
<1> QED
  BY <1>2, <1>3, <1>4, <1>5, <1>6 DEF CaInv

(* While the sectors are read no track is there yet.                       *)
LEMMA WhileReading ==
  ASSUME CaInv, caStage = "reading"
  PROVE  /\ iTrk = 0 /\ CATracks = <<>> /\ trackPairs = <<>> /\ Len(CATracks) = 0 /\ Len(trackPairs) = 0
         /\ \A h \in 0..nHits - 1 : fHits[h].track = NoTrack
<1>1. CATracks = <<>> /\ Len(CATracks) = 0
  BY DEF CaInv, FoundTracks
<1>2. iTrk = 0
  BY <1>1 DEF CaInv, CaTypeOK
<1>3. trackPairs \in Seq(PairType) /\ Len(trackPairs) <= 0
  BY <1>2 DEF CaInv, CaTypeOK, PairsLinked
<1>4. Len(trackPairs) = 0 /\ trackPairs = <<>>
  BY <1>3, LenProperties, EmptySeq
<1> QED
  BY <1>1, <1>2, <1>4 DEF CaInv, OnItsTrack

LEMMA EventDataStep ==
  ASSUME CaInv, NEW sector \in Sectors, NEW rows \in SectorData, EventData(sector, rows)
  PROVE  CaInv'
<1> USE CaSizes
<1>1. /\ iTrk = 0 /\ CATracks = <<>> /\ trackPairs = <<>> /\ Len(CATracks) = 0 /\ Len(trackPairs) = 0
      /\ \A h \in 0..nHits - 1 : fHits[h].track = NoTrack
  BY WhileReading DEF EventData
<1>2. ReadRows(sector, rows) \in Reads
  BY <1>1, ReadRowsReads DEF CaInv
<1>3. nHits' \in 0..maxHits - 6 /\ fHits' \in [Places -> CaHit]
      /\ \A h \in 0..nHits' - 1 : fHits'[h].track = NoTrack
  BY <1>2 DEF EventData, Reads
<1>4. UNCHANGED <<caStage, nEvents, CATracks, iTrk, trackPairs>> /\ unread' \subseteq unread
  BY DEF EventData
<1>5. CaTypeOK'
  BY <1>3, <1>4 DEF CaInv, CaTypeOK, Places, CaHit
<1>6. FoundTracks'
  BY <1>1, <1>4 DEF FoundTracks
<1>7. OnItsTrack'
  BY <1>3 DEF OnItsTrack, Span
<1>8. PairsLinked'
  BY <1>1, <1>4 DEF PairsLinked
<1>9. OwnHitsKept'
  BY <1>1, <1>4 DEF OwnHitsKept
<1> QED
  BY <1>5, <1>6, <1>7, <1>8, <1>9 DEF CaInv

LEMMA RunCATrackerStep == CaInv /\ RunCATracker => CaInv'
<1> SUFFICES ASSUME CaInv, RunCATracker PROVE CaInv'
  OBVIOUS
<1>1. /\ iTrk = 0 /\ CATracks = <<>> /\ trackPairs = <<>> /\ Len(CATracks) = 0 /\ Len(trackPairs) = 0
      /\ \A h \in 0..nHits - 1 : fHits[h].track = NoTrack
  BY WhileReading DEF RunCATracker
<1>2. UNCHANGED <<nEvents, unread, nHits, fHits, iTrk, trackPairs>>
      /\ caStage' \in {"between", "converting"}
  BY DEF RunCATracker
<1>3. PICK found \in Found :
        CATracks' = [i \in 1..Len(found) |->
                       [hits |-> found[i],
                        mean |-> IF Len(found[i]) < MinHitsForDedx THEN NoDedx
                                 ELSE TruncatedMean(found[i])]]
  BY DEF RunCATracker
<1>4. Len(found) \in Nat /\ \A i \in 1..Len(found) : found[i] \in Seq(0..nHits - 1)
  <2>1. found \in Seq(Seq(Nat))
    BY CaAssumption DEF Found
  <2>2. ASSUME NEW i \in 1..Len(found) PROVE found[i] \in Seq(0..nHits - 1)
    <3>1. found[i] \in Seq(Nat)
      BY <2>1, ElementOfSeq
    <3>2. \A k \in 1..Len(found[i]) : found[i][k] \in 0..nHits - 1
      <4>1. \A k \in 1..Len(found[i]) : found[i][k] \in Nat /\ found[i][k] < nHits
        BY <3>1, ElementOfSeq DEF Found
      <4> QED
        BY <4>1 DEF CaInv, CaTypeOK
    <3> DEFINE q == found[i]
    <3> HIDE DEF q
    <3>3. q \in Seq(Nat) /\ \A k \in 1..Len(q) : q[k] \in 0..nHits - 1
      BY <3>1, <3>2 DEF q
    <3>4. q \in [1..Len(q) -> 0..nHits - 1] /\ Len(q) \in Nat
      BY <3>3, LenProperties
    <3>5. q \in Seq(0..nHits - 1)
      BY <3>4, SeqDef, Zenon
    <3> QED
      BY <3>5 DEF q
  <2> QED
    BY <2>1, <2>2, LenProperties
<1>5. Len(CATracks') = Len(found) /\ \A i \in 1..Len(found) : CATracks'[i].hits = found[i]
  BY <1>3, <1>4
<1>6. CaTypeOK'
  BY <1>1, <1>2, <1>4, <1>5 DEF CaInv, CaTypeOK, CaHit
<1>7. FoundTracks'
  BY <1>2, <1>4, <1>5 DEF FoundTracks
<1>8. OnItsTrack'
  BY <1>1, <1>2 DEF OnItsTrack, Span
<1>9. PairsLinked'
  BY <1>1, <1>2 DEF PairsLinked
<1>10. OwnHitsKept'
  BY <1>1, <1>2 DEF OwnHitsKept
<1> QED
  BY <1>6, <1>7, <1>8, <1>9, <1>10 DEF CaInv

(* A track whose span no track before it has takes all of it.              *)
LEMMA OwnSpanIsFree ==
  ASSUME CaInv, NEW t \in 1..Len(CATracks), t = iTrk + 1,
         \A s \in 1..t - 1 : Span(s) \cap Span(t) = {}
  PROVE  /\ {Taken(t)[k] : k \in 1..Len(Taken(t))} = Span(t)
         /\ Len(Taken(t)) = Cardinality(Span(t))
<1> DEFINE own == Taken(t)
           n == Len(own)
<1>1. n \in Nat /\ Distinct(own) /\ {own[k] : k \in 1..n} = {h \in Span(t) : Free(h)}
  BY TakenIs
<1>2. ASSUME NEW h \in Span(t) PROVE Free(h)
  <2>1. h \in 0..nHits - 1
    <3>1. PICK k \in 1..Len(CATracks[t].hits) : h = CATracks[t].hits[k]
      BY DEF Span
    <3>2. CATracks[t].hits \in Seq(0..nHits - 1)
      BY DEF CaInv, FoundTracks
    <3> QED
      BY <3>1, <3>2, ElementOfSeq
  <2>2. SUFFICES ASSUME fHits[h].track # NoTrack PROVE FALSE
    BY DEF Free
  <2>3. fHits[h].track \in 1..iTrk /\ h \in Span(fHits[h].track)
    BY <2>1, <2>2 DEF CaInv, OnItsTrack
  <2>4. fHits[h].track \in 1..t - 1
    BY <2>3 DEF CaInv, CaTypeOK
  <2> QED
    BY <2>3, <2>4
<1> HIDE DEF own, n
<1>3. {own[k] : k \in 1..n} = Span(t)
  BY <1>1, <1>2
<1>4. n = Cardinality(Span(t))
  <2> DEFINE f == [k \in 1..n |-> own[k]]
  <2>1. f \in Bijection(1..n, Span(t))
    <3>1. f \in [1..n -> Span(t)]
      BY <1>3
    <3>2. \A j, k \in 1..n : f[j] = f[k] => j = k
      BY <1>1 DEF Distinct, n
    <3>3. \A h \in Span(t) : \E k \in 1..n : f[k] = h
      BY <1>3
    <3> HIDE DEF f
    <3> QED
      BY <3>1, <3>2, <3>3, Zenon DEF Bijection, Injection, Surjection, IsInjective
  <2>2. ExistsBijection(1..n, Span(t))
    BY <2>1, Zenon DEF ExistsBijection
  <2>3. n \in Nat /\ n \in Int /\ 1 \in Int
    BY <1>1
  <2> HIDE DEF f
  <2>4. IsFiniteSet(1..n) /\ Cardinality(1..n) = IF 1 > n THEN 0 ELSE n - 1 + 1
    BY <2>3, FS_Interval
  <2>5. Cardinality(1..n) = n
    BY <2>3, <2>4
  <2> QED
    BY <2>2, <2>4, <2>5, FS_Bijection
<1> QED
  BY <1>3, <1>4 DEF own, n

LEMMA ConvertStep == CaInv /\ Convert => CaInv'
<1> SUFFICES ASSUME CaInv, Convert PROVE CaInv'
  OBVIOUS
<1> USE CaSizes
<1> DEFINE t == iTrk + 1
           own == Taken(t)
           n == Len(own)
           links == Linked(t)
           p == Pair(t, own, links)
           m == Len(trackPairs)
<1>1. /\ iTrk \in Nat /\ t \in 1..Len(CATracks) /\ t \in Nat /\ Len(CATracks) \in Nat
      /\ nHits \in 0..maxHits - 6 /\ fHits \in [Places -> CaHit]
      /\ trackPairs \in Seq(PairType) /\ m \in Nat /\ m <= iTrk
  <2>1. Len(CATracks) \in Nat /\ iTrk \in Nat
    BY DEF CaInv, CaTypeOK, FoundTracks
  <2>2. iTrk < Len(CATracks)
    BY DEF Convert
  <2>3. trackPairs \in Seq(PairType)
    BY DEF CaInv, PairsLinked
  <2> QED
    BY <2>1, <2>2, <2>3, LenProperties DEF CaInv, CaTypeOK, Places
<1>2. /\ iTrk' = t /\ fHits' = links
      /\ trackPairs' = IF n < MinNHits THEN trackPairs ELSE Append(trackPairs, p)
      /\ UNCHANGED <<caStage, nEvents, unread, nHits, CATracks>>
  BY DEF Convert
<1>3. own \in Seq(0..nHits - 1) /\ n \in Nat /\ Distinct(own)
      /\ {own[k] : k \in 1..n} = {h \in Span(t) : Free(h)}
  BY <1>1, TakenIs
<1>4. /\ links \in [Places -> CaHit]
      /\ \A k \in 1..n : /\ links[own[k]].track = t
                         /\ links[own[k]].next = IF k = n THEN NoHit ELSE own[k + 1]
                         /\ links[own[k]].row \in 0..45
      /\ \A h \in Places : (\A k \in 1..n : own[k] # h) => links[h] = fHits[h]
  BY <1>1, LinkedIs
<1>5. ASSUME n >= MinNHits
      PROVE  p \in PairType /\ p.id = t /\ p.nHits = n /\ p.fitted = own
  <2>1. n \in Nat \ {0}
    BY <1>3, <1>5
  <2>2. own \in Seq(Places)
    <3>1. \A k \in 1..n : own[k] \in Places
      BY <1>1, <1>3, ElementOfSeq
    <3> QED
      BY <1>3, <3>1
  <2>3. Chain(links, own[1]) = own
    BY <1>3, <1>4, <2>1, <2>2, ChainIs
  <2>4. ASSUME NEW k \in 1..n PROVE fHits[own[k]].row \in 0..45
    <3>1. own[k] \in Places
      BY <2>2, ElementOfSeq
    <3> QED
      BY <1>1, <3>1 DEF CaHit
  <2>5. 1 \in 1..n /\ n \in 1..n
    BY <2>1
  <2> HIDE DEF links
  <2>6. p = [id |-> t, nHits |-> n, mean |-> CATracks[t].mean,
             outerMostRow |-> fHits[own[1]].row, innerMostRow |-> fHits[own[n]].row,
             fitted |-> own]
    BY <2>3 DEF Pair
  <2> HIDE DEF p, own, n, t
  <2> QED
    BY <1>1, <2>1, <2>2, <2>4, <2>5, <2>6 DEF PairType
<1> HIDE DEF links, p, own, n
<1>6. PairType' = PairType /\ \A s : Span(s)' = Span(s)
  BY <1>2 DEF PairType, Span
<1>7. /\ trackPairs' \in Seq(PairType) /\ Len(trackPairs') = (IF n < MinNHits THEN m ELSE m + 1)
      /\ \A i \in 1..m : trackPairs'[i] = trackPairs[i]
      /\ n >= MinNHits => trackPairs'[m + 1] = p
  <2>1. CASE n < MinNHits
    BY <1>1, <1>2, <1>3, <2>1
  <2>2. CASE ~(n < MinNHits)
    <3>1. p \in PairType /\ trackPairs' = Append(trackPairs, p)
      BY <1>2, <1>3, <1>5, <2>2
    <3> QED
      BY <1>1, <1>3, <2>2, <3>1, AppendProperties
  <2> QED
    BY <2>1, <2>2
<1>8. CaTypeOK'
  <2>1. t \in 0..Len(CATracks) /\ Len(trackPairs') <= t
    BY <1>1, <1>3, <1>7
  <2> QED
    BY <1>2, <1>4, <2>1 DEF CaInv, CaTypeOK, Places, CaHit
<1>9. FoundTracks'
  BY <1>2 DEF CaInv, FoundTracks
<1>10. ASSUME NEW h \in 0..nHits - 1
       PROVE  \/ h \in Span(t) /\ Free(h) /\ links[h].track = t
              \/ links[h] = fHits[h] /\ ~(Free(h) /\ h \in Span(t))
  <2>1. h \in Places
    BY <1>1
  <2>2. CASE \E k \in 1..n : own[k] = h
    BY <1>3, <1>4, <2>2
  <2>3. CASE \A k \in 1..n : own[k] # h
    BY <1>3, <1>4, <2>1, <2>3
  <2> QED
    BY <2>2, <2>3
<1>11. OnItsTrack'
  <2> SUFFICES ASSUME NEW h \in 0..nHits - 1, links[h].track # NoTrack
               PROVE  links[h].track \in 1..t /\ h \in Span(links[h].track)
    BY <1>2 DEF OnItsTrack, Span
  <2>1. \/ fHits[h].track = NoTrack
        \/ fHits[h].track \in 1..iTrk /\ h \in Span(fHits[h].track)
    BY DEF CaInv, OnItsTrack
  <2> QED
    BY <1>1, <1>10, <2>1
<1>12. PairsLinked'
  <2>1. ASSUME NEW i \in 1..m
        PROVE  LET q == trackPairs[i]
               IN /\ q.id \in 1..iTrk /\ Len(q.fitted) = q.nHits
                  /\ \A k \in 1..Len(q.fitted) :
                       q.fitted[k] \in 0..nHits - 1 /\ links[q.fitted[k]].track = q.id
    <3> DEFINE q == trackPairs[i]
    <3>1. /\ q.id \in 1..iTrk /\ Len(q.fitted) = q.nHits
          /\ \A k \in 1..Len(q.fitted) :
               q.fitted[k] \in 0..nHits - 1 /\ fHits[q.fitted[k]].track = q.id
      BY DEF CaInv, PairsLinked
    <3> HIDE DEF q
    <3>2. \A h \in 0..nHits - 1 : fHits[h].track = q.id => links[h] = fHits[h]
      BY <1>1, <1>10, <3>1 DEF Free
    <3>3. /\ q.id \in 1..iTrk /\ Len(q.fitted) = q.nHits
          /\ \A k \in 1..Len(q.fitted) :
               q.fitted[k] \in 0..nHits - 1 /\ links[q.fitted[k]].track = q.id
      BY <3>1, <3>2
    <3> QED
      BY <3>3 DEF q
  <2>2. ASSUME n >= MinNHits
        PROVE  /\ p.id = t /\ Len(p.fitted) = p.nHits
               /\ \A k \in 1..Len(p.fitted) :
                    p.fitted[k] \in 0..nHits - 1 /\ links[p.fitted[k]].track = p.id
    <3>1. p.id = t /\ p.nHits = n /\ p.fitted = own /\ Len(own) = n
      BY <1>5, <2>2 DEF n
    <3>2. \A k \in 1..n : own[k] \in 0..nHits - 1
      BY <1>3, <3>1, ElementOfSeq
    <3> QED
      BY <1>4, <3>1, <3>2
  <2>3. ASSUME NEW i \in 1..Len(trackPairs')
        PROVE  \/ i \in 1..m /\ trackPairs'[i] = trackPairs[i]
               \/ i = m + 1 /\ n >= MinNHits /\ trackPairs'[i] = p
    <3>1. m \in Nat /\ n \in Nat
      BY <1>1, <1>3
    <3>2. CASE n < MinNHits
      BY <1>7, <3>1, <3>2
    <3>3. CASE n >= MinNHits
      BY <1>7, <3>1, <3>3
    <3> QED
      BY <3>1, <3>2, <3>3
  <2> HIDE DEF t
  <2>4. ASSUME NEW i \in 1..Len(trackPairs')
        PROVE  LET q == trackPairs'[i]
               IN /\ q.id \in 1..t /\ Len(q.fitted) = q.nHits
                  /\ \A k \in 1..Len(q.fitted) :
                       q.fitted[k] \in 0..nHits - 1 /\ links[q.fitted[k]].track = q.id
    <3>1. CASE i \in 1..m /\ trackPairs'[i] = trackPairs[i]
      <4>1. \A x \in 1..iTrk : x \in 1..t
        BY <1>1 DEF t
      <4> QED
        BY <2>1, <3>1, <4>1
    <3>2. CASE i = m + 1 /\ n >= MinNHits /\ trackPairs'[i] = p
      <4>1. t \in 1..t
        BY <1>1
      <4> QED
        BY <2>2, <3>2, <4>1
    <3> QED
      BY <2>3, <3>1, <3>2
  <2>5. ASSUME NEW i \in 1..Len(trackPairs'), NEW j \in 1..Len(trackPairs'), i # j
        PROVE  trackPairs'[i].id # trackPairs'[j].id
    <3>1. \A k \in 1..m : trackPairs[k].id \in 1..iTrk /\ trackPairs[k].id # t
      <4>1. \A k \in 1..m : trackPairs[k].id \in 1..iTrk
        BY <2>1
      <4>2. t \notin 1..iTrk
        BY <1>1 DEF t
      <4> QED
        BY <4>1, <4>2
    <3>2. \A k, l \in 1..m : k # l => trackPairs[k].id # trackPairs[l].id
      BY DEF CaInv, PairsLinked
    <3>3. n >= MinNHits => p.id = t
      BY <2>2
    <3> QED
      BY <2>3, <2>5, <3>1, <3>2, <3>3
  <2> QED
    BY <1>2, <1>6, <1>7, <2>4, <2>5 DEF PairsLinked
<1>13. OwnHitsKept'
  <2> SUFFICES ASSUME NEW s \in 1..t, Cardinality(Span(s)) >= MinNHits,
                      \A r \in 1..s - 1 : Span(r) \cap Span(s) = {}
               PROVE  \E i \in 1..Len(trackPairs') :
                        trackPairs'[i].id = s /\ ToSet(trackPairs'[i].fitted) = Span(s)
    BY <1>2, <1>6 DEF OwnHitsKept
  <2>1. CASE s \in 1..iTrk
    <3>1. PICK i \in 1..m : trackPairs[i].id = s /\ ToSet(trackPairs[i].fitted) = Span(s)
      BY <2>1 DEF CaInv, OwnHitsKept
    <3>2. i \in 1..Len(trackPairs')
      BY <1>1, <1>7
    <3> QED
      BY <1>7, <3>1, <3>2
  <2>2. CASE s = t
    <3>1. {own[k] : k \in 1..n} = Span(t) /\ n = Cardinality(Span(t))
      BY <1>1, <2>2, OwnSpanIsFree DEF own, n
    <3>2. n >= MinNHits
      BY <2>2, <3>1
    <3>3. m + 1 \in 1..Len(trackPairs') /\ trackPairs'[m + 1] = p
      BY <1>1, <1>3, <1>7, <3>2
    <3>4. p.id = t /\ p.fitted = own
      BY <1>5, <3>2
    <3>5. DOMAIN own = 1..n
      BY <1>3, LenProperties DEF n
    <3>6. ToSet(own) = Span(t)
      BY <3>1, <3>5 DEF ToSet
    <3> QED
      BY <2>2, <3>3, <3>4, <3>6
  <2>3. s \in 1..iTrk \/ s = t
    BY <1>1
  <2> QED
    BY <2>1, <2>2, <2>3
<1> QED
  BY <1>8, <1>9, <1>11, <1>12, <1>13 DEF CaInv

LEMMA CaInvStep == CaInv /\ [CaNext]_caVars => CaInv'
<1> SUFFICES ASSUME CaInv, [CaNext]_caVars PROVE CaInv'
  OBVIOUS
<1>1. CASE EventStart
  BY <1>1, EventStartStep
<1>2. CASE RunCATracker
  BY <1>2, RunCATrackerStep
<1>3. CASE Convert
  BY <1>3, ConvertStep
<1>4. CASE \E sector \in Sectors, rows \in SectorData : EventData(sector, rows)
  BY <1>4, EventDataStep
<1>5. ASSUME UNCHANGED <<nEvents, unread, nHits, fHits, CATracks, iTrk, trackPairs>>,
             caStage' = caStage \/ caStage' = "between"
      PROVE  CaInv'
  <2>1. PairType' = PairType /\ \A t : Span(t)' = Span(t)
    BY <1>5 DEF PairType, Span
  <2>2. CaTypeOK' /\ FoundTracks'
    BY <1>5 DEF CaInv, CaTypeOK, FoundTracks, CaHit
  <2>3. OnItsTrack'
    BY <1>5, <2>1 DEF CaInv, OnItsTrack
  <2>4. PairsLinked'
    BY <1>5, <2>1 DEF CaInv, PairsLinked
  <2>5. OwnHitsKept'
    BY <1>5, <2>1 DEF CaInv, OwnHitsKept
  <2> QED
    BY <2>2, <2>3, <2>4, <2>5 DEF CaInv
<1>6. CASE EventDone \/ UNCHANGED caVars
  BY <1>5, <1>6 DEF EventDone, caVars
<1> QED
  BY <1>1, <1>2, <1>3, <1>4, <1>6 DEF CaNext

LEMMA InvIsFittedOnce == CaInv => FittedOnce
<1> SUFFICES ASSUME CaInv PROVE FittedOnce
  OBVIOUS
<1>1. ASSUME NEW i \in 1..Len(trackPairs)
      PROVE  LET p == trackPairs[i]
             IN /\ p.id \in 1..iTrk /\ Len(p.fitted) = p.nHits
                /\ \A h \in ToSet(p.fitted) : h \in 0..nHits - 1 /\ fHits[h].track = p.id
  <2> DEFINE p == trackPairs[i]
  <2>1. p \in PairType
    BY ElementOfSeq DEF CaInv, PairsLinked
  <2>2. DOMAIN p.fitted = 1..Len(p.fitted)
    BY <2>1, LenProperties DEF PairType
  <2>3. /\ p.id \in 1..iTrk /\ Len(p.fitted) = p.nHits
        /\ \A k \in 1..Len(p.fitted) :
             p.fitted[k] \in 0..nHits - 1 /\ fHits[p.fitted[k]].track = p.id
    BY DEF CaInv, PairsLinked
  <2> HIDE DEF p
  <2>4. \A h \in ToSet(p.fitted) : h \in 0..nHits - 1 /\ fHits[h].track = p.id
    BY <2>2, <2>3 DEF ToSet
  <2> QED
    BY <2>3, <2>4 DEF p
<1>2. ASSUME NEW i \in 1..Len(trackPairs)
      PROVE  ToSet(trackPairs[i].fitted) \subseteq Span(trackPairs[i].id)
  <2> SUFFICES ASSUME NEW h \in ToSet(trackPairs[i].fitted) PROVE h \in Span(trackPairs[i].id)
    OBVIOUS
  <2>1. h \in 0..nHits - 1 /\ fHits[h].track = trackPairs[i].id /\ trackPairs[i].id \in 1..iTrk
    BY <1>1
  <2>2. fHits[h].track # NoTrack
    BY <2>1, CaSizes
  <2> QED
    BY <2>1, <2>2 DEF CaInv, OnItsTrack
<1>3. ASSUME NEW i \in 1..Len(trackPairs), NEW j \in 1..Len(trackPairs), i # j
      PROVE  ToSet(trackPairs[i].fitted) \cap ToSet(trackPairs[j].fitted) = {}
  <2>1. trackPairs[i].id # trackPairs[j].id
    BY <1>3 DEF CaInv, PairsLinked
  <2> QED
    BY <1>1, <2>1
<1> QED
  BY <1>1, <1>2, <1>3 DEF FittedOnce

LEMMA CaInvariance == CaSpec => []CaInv
BY CaInitInv, CaInvStep, PTL DEF CaSpec

(* The array of hits is never overrun, the places to spare stay free, and  *)
(* there is at most one pair for a track (readSectorFromESB, fillTracks).  *)
THEOREM CaTypeCorrect == CaSpec => []CaTypeOK
BY CaInvariance, PTL DEF CaInv

(* No hit is fitted in two tracks, and the second fit of a track walks     *)
(* exactly the hits that it counts, whatever tracks the library finds,     *)
(* which hits they share, and what was linked before (Convert2, fitHelix). *)
THEOREM HitsFittedOnce == CaSpec => []FittedOnce
BY CaInvariance, InvIsFittedOnce, PTL

(* A track that shares no hit with an earlier one keeps them all           *)
(* (Convert2, fillTracks).                                                 *)
THEOREM UnsharedHitsKept == CaSpec => []OwnHitsKept
BY CaInvariance, PTL DEF CaInv

------------------------------------------------------------------------------
(* The hits of the sector tracker.                                         *)
OnTrack(t) == {h \in InUse : track[h] = t}

(* A list from first to last, threaded by next through the hits of T, goes *)
(* inwards without skipping a row that T has, and T has a row only once.   *)
Thread(T, first, last, next) ==
  /\ first \in T /\ last \in T /\ next[last] = 0
  /\ \A h \in T : hit[last].row <= hit[h].row /\ hit[h].row <= hit[first].row
  /\ \A g, h \in T : hit[g].row = hit[h].row => g = h
  /\ \A h \in T \ {last} :
       /\ next[h] \in T /\ hit[next[h]].row < hit[h].row
       /\ \A g \in T : hit[g].row >= hit[h].row \/ hit[g].row <= hit[next[h]].row

(* Every hit that is tracked is on a track there is, and its track is a    *)
(* list of exactly its hits; a hit on no track has no link of another      *)
(* hypersector, unless it is out of range.                                 *)
TracksLinked ==
  /\ \A h \in InUse : track[h] \in 0..Len(tracks)
  /\ \A h \in InUse : InRange(h) /\ track[h] = 0 => nextTrackHit[h] = 0
  /\ \A t \in 1..Len(tracks) :
       Thread(OnTrack(t), tracks[t].firstHit, tracks[t].lastHit, nextTrackHit)

(* The candidate that is being built is the last track, and a segment ends *)
(* before it gets to the innermost row.                                    *)
Candidate ==
  /\ ftfStage \in {"segment", "down", "up"} => Len(tracks) # 0
  /\ ftfStage = "segment" =>
       /\ this.nHits # 0
       /\ this.nHits = 1 => hit[this.lastHit].row >= MinHitsPerTrack
       /\ this.nHits = 2 => hit[this.lastHit].row >= MinHitsPerTrack - SegmentRange

FtfInv ==
  /\ FtfTypeOK
  /\ ftfStage \notin {"reading", "written"} => TracksLinked
  /\ Candidate
  /\ ftfStage \in {"reading", "tracked", "written"} => at = 0

LEMMA FtfSizes ==
  /\ RowOuter \in Nat /\ NPhi \in Nat /\ NEta \in Nat
  /\ MinHitsPerTrack \in Nat /\ SegmentRange \in Nat /\ TrackRange \in Nat
  /\ NPrimary \in Nat /\ NSecondary \in Nat
  /\ MaxTracks \in Nat /\ MaxHits \in Nat /\ BankTracks \in Nat /\ MaxHyper \in Nat
  /\ SectorBanks \subseteq Seq(Seq(Hit)) /\ Index = 1..MaxHits
  /\ HitsForSegment \in 1..3 /\ MinHitsPerTrack > SegmentRange + 1
BY TrackerAssumption, SegmentAssumption DEF Index

(* What FtfTypeOK says of one hit or one track.                            *)
LEMMA FtfTyped ==
  ASSUME FtfTypeOK
  PROVE  /\ Len(hit) \in Nat /\ InUse \subseteq Index /\ InUse = 1..Len(hit)
         /\ \A h \in InUse : hit[h] \in Hit /\ hit[h].row \in 1..RowOuter
         /\ Len(tracks) \in Nat /\ \A t \in 1..Len(tracks) : tracks[t] \in Track
         /\ DOMAIN nextTrackHit = Index /\ DOMAIN track = Index
<1>1. hit \in Seq(Hit) /\ Len(hit) <= MaxHits /\ tracks \in Seq(Track)
  BY DEF FtfTypeOK
<1>2. Len(hit) \in Nat /\ \A h \in 1..Len(hit) : hit[h] \in Hit
  BY <1>1, LenProperties, ElementOfSeq
<1>3. Len(tracks) \in Nat /\ \A t \in 1..Len(tracks) : tracks[t] \in Track
  BY <1>1, LenProperties, ElementOfSeq
<1>4. \A x \in Hit : x.row \in 1..RowOuter
  BY DEF Hit
<1>5. 1..Len(hit) \subseteq 1..MaxHits
  BY <1>1, <1>2, FtfSizes
<1>6. DOMAIN nextTrackHit = Index /\ DOMAIN track = Index
  BY DEF FtfTypeOK
<1> QED
  BY <1>2, <1>3, <1>4, <1>5, <1>6, FtfSizes DEF InUse

------------------------------------------------------------------------------
(* Lists of hits.                                                          *)
LEMMA ThreadSame ==
  ASSUME NEW T, NEW first, NEW last, NEW next, NEW next2,
         Thread(T, first, last, next), \A h \in T : next2[h] = next[h]
  PROVE  Thread(T, first, last, next2)
BY Zenon DEF Thread

LEMMA ThreadOne ==
  ASSUME FtfTypeOK, NEW h \in InUse, nextTrackHit[h] = 0
  PROVE  Thread({h}, h, h, nextTrackHit)
<1>1. hit[h].row \in Nat
  BY FtfTyped, FtfSizes
<1> QED
  BY <1>1 DEF Thread

LEMMA ThreadAddLast ==
  ASSUME FtfTypeOK, NEW T \in SUBSET InUse, NEW first, NEW last,
         NEW h \in InUse \ T, nextTrackHit[h] = 0,
         Thread(T, first, last, nextTrackHit), hit[h].row < hit[last].row
  PROVE  Thread(T \cup {h}, first, h, [nextTrackHit EXCEPT ![last] = h])
<1> DEFINE next == [nextTrackHit EXCEPT ![last] = h]
<1>1. \A g \in T \cup {h} : g \in Index /\ hit[g].row \in Nat
  <2>1. \A g \in InUse : g \in Index /\ hit[g].row \in Nat
    BY FtfTyped, FtfSizes
  <2> QED
    BY <2>1
<1>2. /\ first \in T /\ last \in T /\ h \notin T /\ h # last
      /\ \A g \in T : hit[last].row <= hit[g].row /\ hit[g].row <= hit[first].row
      /\ \A g, k \in T : hit[g].row = hit[k].row => g = k
  BY DEF Thread
<1>3. next[last] = h /\ next[h] = 0 /\ \A g \in T \ {last} : next[g] = nextTrackHit[g]
  BY <1>1, <1>2, FtfTyped
<1> HIDE DEF next
<1>4. \A g \in T : hit[h].row < hit[g].row
  BY <1>1, <1>2
<1>5. ASSUME NEW g \in T \ {last}
      PROVE  /\ next[g] \in T /\ hit[next[g]].row < hit[g].row
             /\ \A k \in T \cup {h} : hit[k].row >= hit[g].row \/ hit[k].row <= hit[next[g]].row
  <2>1. /\ next[g] \in T /\ hit[next[g]].row < hit[g].row
        /\ \A k \in T : hit[k].row >= hit[g].row \/ hit[k].row <= hit[next[g]].row
    BY <1>3 DEF Thread
  <2>2. hit[h].row <= hit[next[g]].row
    BY <1>1, <1>4, <2>1
  <2> QED
    BY <2>1, <2>2
<1>6. \A k \in T \cup {h} : hit[k].row >= hit[last].row \/ hit[k].row <= hit[h].row
  BY <1>1, <1>2
<1>7. \A g \in T \cup {h} : hit[h].row <= hit[g].row /\ hit[g].row <= hit[first].row
  BY <1>1, <1>2, <1>4
<1>8. \A g, k \in T \cup {h} : hit[g].row = hit[k].row => g = k
  BY <1>1, <1>2, <1>4
<1>9. ASSUME NEW g \in (T \cup {h}) \ {h}
      PROVE  /\ next[g] \in T \cup {h} /\ hit[next[g]].row < hit[g].row
             /\ \A k \in T \cup {h} : hit[k].row >= hit[g].row \/ hit[k].row <= hit[next[g]].row
  <2>1. CASE g = last
    BY <1>2, <1>3, <1>4, <1>6, <2>1
  <2>2. CASE g # last
    BY <1>5, <2>2
  <2> QED
    BY <2>1, <2>2
<1>10. Thread(T \cup {h}, first, h, next)
  BY <1>2, <1>3, <1>7, <1>8, <1>9 DEF Thread
<1> QED
  BY <1>10 DEF next

LEMMA ThreadAddFirst ==
  ASSUME FtfTypeOK, NEW T \in SUBSET InUse, NEW first, NEW last,
         NEW h \in InUse \ T,
         Thread(T, first, last, nextTrackHit), hit[h].row > hit[first].row
  PROVE  Thread(T \cup {h}, h, last, [nextTrackHit EXCEPT ![h] = first])
<1> DEFINE next == [nextTrackHit EXCEPT ![h] = first]
<1>1. \A g \in T \cup {h} : g \in Index /\ hit[g].row \in Nat
  <2>1. \A g \in InUse : g \in Index /\ hit[g].row \in Nat
    BY FtfTyped, FtfSizes
  <2> QED
    BY <2>1
<1>2. /\ first \in T /\ last \in T /\ h \notin T /\ h # last /\ nextTrackHit[last] = 0
      /\ \A g \in T : hit[last].row <= hit[g].row /\ hit[g].row <= hit[first].row
      /\ \A g, k \in T : hit[g].row = hit[k].row => g = k
  BY DEF Thread
<1>3. next[h] = first /\ \A g \in T : next[g] = nextTrackHit[g]
  BY <1>1, <1>2, FtfTyped
<1> HIDE DEF next
<1>4. \A g \in T : hit[g].row < hit[h].row
  BY <1>1, <1>2
<1>5. ASSUME NEW g \in T \ {last}
      PROVE  /\ next[g] \in T /\ hit[next[g]].row < hit[g].row
             /\ \A k \in T \cup {h} : hit[k].row >= hit[g].row \/ hit[k].row <= hit[next[g]].row
  <2>1. /\ next[g] \in T /\ hit[next[g]].row < hit[g].row
        /\ \A k \in T : hit[k].row >= hit[g].row \/ hit[k].row <= hit[next[g]].row
    BY <1>3 DEF Thread
  <2>2. hit[h].row >= hit[g].row
    BY <1>1, <1>4
  <2> QED
    BY <2>1, <2>2
<1>6. \A k \in T \cup {h} : hit[k].row >= hit[h].row \/ hit[k].row <= hit[first].row
  BY <1>1, <1>2
<1>7. \A g \in T \cup {h} : hit[last].row <= hit[g].row /\ hit[g].row <= hit[h].row
  BY <1>1, <1>2, <1>4
<1>8. \A g, k \in T \cup {h} : hit[g].row = hit[k].row => g = k
  BY <1>1, <1>2, <1>4
<1>9. ASSUME NEW g \in (T \cup {h}) \ {last}
      PROVE  /\ next[g] \in T \cup {h} /\ hit[next[g]].row < hit[g].row
             /\ \A k \in T \cup {h} : hit[k].row >= hit[g].row \/ hit[k].row <= hit[next[g]].row
  <2>1. CASE g = h
    BY <1>2, <1>3, <1>4, <1>6, <2>1
  <2>2. CASE g # h
    BY <1>5, <2>2
  <2> QED
    BY <2>1, <2>2
<1>10. next[last] = 0
  BY <1>2, <1>3
<1>11. Thread(T \cup {h}, h, last, next)
  BY <1>2, <1>7, <1>8, <1>9, <1>10 DEF Thread
<1> QED
  BY <1>11 DEF next

(* A walk along a list comes to each of its hits once, and ends.           *)
NoTwice(s) == \A j, k \in 1..Len(s) : j # k => s[j] # s[k]

LEMMA WalkIs ==
  ASSUME FtfTypeOK, NEW T \in SUBSET InUse, NEW first, NEW last,
         Thread(T, first, last, nextTrackHit)
  PROVE  /\ Walk(first) \in Seq(InUse) /\ Len(Walk(first)) \in Nat /\ NoTwice(Walk(first))
         /\ OnList(first) = T
<1> DEFINE n == MaxHits
           H == 0..MaxHits
           After(x) == IF x = 0 THEN 0 ELSE nextTrackHit[x]
           Def(f) == f = [k \in 0..MaxHits |-> IF k = 0 THEN first
                            ELSE IF f[k - 1] = 0 THEN 0 ELSE nextTrackHit[f[k - 1]]]
           hop == CHOOSE f : Def(f)
           N == {k \in 0..MaxHits : hop[k] # 0}
           step == [x \in H \X (1..n) |-> After(x[1])]
<1>1. Walk(first) = [k \in 1..Cardinality(N) |-> hop[k - 1]]
  BY DEF Walk
<1>2. /\ T \subseteq InUse /\ InUse \subseteq Index /\ Index = 1..n /\ n \in Nat
      /\ \A h \in T : hit[h].row \in 1..RowOuter /\ h # 0
      /\ RowOuter \in Nat
  BY FtfTyped, FtfSizes
<1>3. /\ first \in T /\ last \in T /\ nextTrackHit[last] = 0
      /\ \A h \in T : hit[last].row <= hit[h].row /\ hit[h].row <= hit[first].row
      /\ \A g, h \in T : hit[g].row = hit[h].row => g = h
      /\ \A h \in T \ {last} :
           /\ nextTrackHit[h] \in T /\ hit[nextTrackHit[h]].row < hit[h].row
           /\ \A g \in T : hit[g].row >= hit[h].row \/ hit[g].row <= hit[nextTrackHit[h]].row
  BY DEF Thread
<1>4. first \in H /\ \A x \in H : After(x) \in H
  <2>1. nextTrackHit \in [1..n -> 0..n]
    BY <1>2 DEF FtfTypeOK
  <2>2. \A x \in H : x = 0 \/ x \in 1..n
    BY <1>2
  <2> QED
    BY <1>2, <1>3, <2>1, <2>2
<1>5. \E f : Def(f)
  <2>1. step \in Steps(H, n)
    BY <1>4 DEF Steps
  <2>2. PICK f \in [0..n -> H] : Follows(f, first, n, step)
    <3> HIDE DEF H, step
    <3> QED
      BY <1>2, <1>4, <2>1, Recursion
  <2>3. \A k \in 1..n : f[k - 1] \in H
    BY <1>2
  <2>4. \A k \in 1..n : f[k] = After(f[k - 1])
    BY <2>2, <2>3 DEF Follows
  <2>5. f[0] = first
    BY <2>2 DEF Follows
  <2>6. \A k \in 0..n : k = 0 \/ k \in 1..n
    BY <1>2
  <2> QED
    BY <2>4, <2>5, <2>6
<1>6. Def(hop)
  BY <1>5
<1> HIDE DEF hop
<1>7. hop[0] = first /\ \A k \in 1..n : hop[k] = After(hop[k - 1])
  BY <1>2, <1>6
<1>8. \A k \in 0..n : hop[k] = 0 \/ hop[k] \in T
  <2> DEFINE P == {k \in 0..n : hop[k] = 0 \/ hop[k] \in T}
  <2>1. 0 \in P
    BY <1>2, <1>3, <1>7
  <2>2. ASSUME NEW k \in 1..n, k - 1 \in P PROVE k \in P
    <3>1. k \in 0..n /\ hop[k] = After(hop[k - 1])
      BY <1>7
    <3>2. hop[k - 1] = 0 \/ hop[k - 1] = last \/ hop[k - 1] \in T \ {last}
      BY <2>2
    <3> QED
      BY <1>2, <1>3, <3>1, <3>2
  <2> HIDE DEF P
  <2>3. 0..n \subseteq P
    BY <1>2, <2>1, <2>2, UpTo
  <2> QED
    BY <2>3 DEF P
<1>9. \A k \in N : \A i \in 0..(k - 1) : i \in N /\ hit[hop[k]].row < hit[hop[i]].row
  <2> DEFINE P == {k \in 0..n : hop[k] # 0 =>
                     \A i \in 0..(k - 1) : hop[i] # 0 /\ hit[hop[k]].row < hit[hop[i]].row}
  <2>1. 0 \in P
    BY <1>2
  <2>2. ASSUME NEW k \in 1..n, k - 1 \in P PROVE k \in P
    <3>1. SUFFICES ASSUME hop[k] # 0, NEW i \in 0..(k - 1)
                   PROVE  hop[i] # 0 /\ hit[hop[k]].row < hit[hop[i]].row
      OBVIOUS
    <3>2. k - 1 \in 0..n /\ k \in 0..n /\ i \in 0..n /\ hop[k] = After(hop[k - 1])
      <4>1. k - 1 \in 0..n /\ k \in 0..n /\ i \in 0..n
        BY <1>2
      <4> QED
        BY <1>7, <4>1
    <3>3. hop[k - 1] # 0 /\ hop[k - 1] # last /\ hop[k - 1] \in T \ {last}
      BY <1>3, <1>8, <3>1, <3>2
    <3>4. hop[k] \in T /\ hit[hop[k]].row < hit[hop[k - 1]].row
      BY <1>3, <3>2, <3>3
    <3>5. CASE i = k - 1
      BY <3>3, <3>4, <3>5
    <3>6. CASE i # k - 1
      <4>1. i \in 0..(k - 1 - 1)
        BY <3>6
      <4>2. hop[i] # 0 /\ hit[hop[k - 1]].row < hit[hop[i]].row
        BY <2>2, <3>3, <4>1
      <4>3. hop[i] \in T /\ hop[k - 1] \in T
        BY <1>8, <3>2, <3>3, <4>2
      <4>4. hit[hop[i]].row \in Nat /\ hit[hop[k - 1]].row \in Nat /\ hit[hop[k]].row \in Nat
        <5>1. \A h \in T : hit[h].row \in Nat
          BY <1>2
        <5> QED
          BY <3>4, <4>3, <5>1
      <4> QED
        BY <3>4, <4>2, <4>4
    <3> QED
      BY <3>5, <3>6
  <2> HIDE DEF P
  <2>3. 0..n \subseteq P
    BY <1>2, <2>1, <2>2, UpTo
  <2>4. ASSUME NEW k \in N, NEW i \in 0..(k - 1)
        PROVE  i \in N /\ hit[hop[k]].row < hit[hop[i]].row
    <3>1. k \in P /\ hop[k] # 0 /\ i \in 0..n
      BY <1>2, <2>3
    <3> QED
      BY <3>1 DEF P
  <2> QED
    BY <2>4
<1>10. \A j, k \in N : hop[j] \in T /\ hop[k] \in T /\ (j # k => hop[j] # hop[k])
  <2>1. TAKE j, k \in N
  <2>2. hop[j] \in T /\ hop[k] \in T /\ j \in Nat /\ k \in Nat
    BY <1>8
  <2>3. hit[hop[j]].row \in Nat /\ hit[hop[k]].row \in Nat
    <3>1. \A h \in T : hit[h].row \in Nat
      BY <1>2
    <3> QED
      BY <2>2, <3>1
  <2>4. CASE j < k
    <3>1. j \in 0..(k - 1)
      BY <2>2, <2>4
    <3> QED
      BY <1>9, <2>2, <2>3, <3>1
  <2>5. CASE k < j
    <3>1. k \in 0..(j - 1)
      BY <2>2, <2>5
    <3> QED
      BY <1>9, <2>2, <2>3, <3>1
  <2> QED
    BY <2>2, <2>4, <2>5
<1>11. n \notin N
  <2>1. SUFFICES ASSUME n \in N PROVE FALSE
    OBVIOUS
  <2>2. \A k \in 0..n : k \in N
    <3>1. \A k \in 0..n : k = n \/ k \in 0..(n - 1)
      BY <1>2
    <3> QED
      BY <1>9, <2>1, <3>1
  <2> DEFINE f == [k \in 0..n |-> hop[k]]
  <2>3. \A k \in 0..n : f[k] \in 1..n
    BY <1>2, <1>10, <2>2
  <2>4. f \in [0..n -> 1..n]
    BY <2>3
  <2>5. Cardinality(1..n) < Cardinality(0..n) /\ IsFiniteSet(1..n) /\ IsFiniteSet(0..n)
    <3>1. n \in Int /\ ~(0 > n) /\ ~(1 > n + 1) /\ n - 0 + 1 > n /\ n - 1 + 1 = n /\ (1 > n => n = 0)
      BY <1>2
    <3>2. IsFiniteSet(1..n) /\ Cardinality(1..n) = IF 1 > n THEN 0 ELSE n - 1 + 1
      BY <3>1, FS_Interval
    <3>3. IsFiniteSet(0..n) /\ Cardinality(0..n) = IF 0 > n THEN 0 ELSE n - 0 + 1
      BY <3>1, FS_Interval
    <3> QED
      BY <3>1, <3>2, <3>3
  <2> HIDE DEF f
  <2>6. PICK x, y \in 0..n : x # y /\ f[x] = f[y]
    BY <2>4, <2>5, FS_PigeonHole
  <2> QED
    BY <1>10, <2>2, <2>6 DEF f
<1>12. PICK z \in 1..n : N = 0..(z - 1)
  <2> DEFINE S == {k \in 0..n : hop[k] = 0}
  <2>1. S \in SUBSET Nat /\ n \in S
    BY <1>2, <1>11
  <2>2. PICK z \in S : \A k \in S : z <= k
    BY <2>1, LeastNumber
  <2>3. z \in 0..n /\ hop[z] = 0 /\ z # 0
    BY <1>2, <1>3, <1>7
  <2>4. z \in 1..n
    BY <1>2, <2>3
  <2>5. ASSUME NEW k \in 0..n PROVE k \in N <=> k \in 0..(z - 1)
    <3>1. CASE k \in 0..(z - 1)
      <4>1. ~(z <= k)
        BY <2>3, <3>1
      <4> QED
        BY <2>2, <3>1, <4>1
    <3>2. CASE k \notin 0..(z - 1)
      <4>1. k = z \/ z \in 0..(k - 1)
        BY <2>3, <3>2
      <4>2. z \notin N
        BY <2>3
      <4> QED
        BY <1>9, <3>2, <4>1, <4>2
    <3> QED
      BY <3>1, <3>2
  <2>6. \A k \in 0..(z - 1) : k \in 0..n
    BY <1>2, <2>3
  <2>7. N = 0..(z - 1)
    BY <2>5, <2>6
  <2> QED
    BY <2>4, <2>7
<1>13. Cardinality(N) = z
  <2>1. z \in Int /\ z >= 1 /\ z - 1 \in Int
    BY <1>12
  <2>2. Cardinality(0..(z - 1)) = z
    BY <2>1, FS_Interval
  <2> QED
    BY <1>12, <2>2
<1> HIDE DEF N
<1> DEFINE w == Walk(first)
<1>14. w = [k \in 1..z |-> hop[k - 1]]
  BY <1>1, <1>13
<1>15. /\ \A k \in 1..z : w[k] = hop[k - 1] /\ w[k] \in T
       /\ w \in Seq(InUse) /\ Len(w) = z
  <2>1. \A k \in 1..z : k - 1 \in N
    BY <1>12
  <2>2. \A k \in 1..z : w[k] = hop[k - 1] /\ w[k] \in T
    BY <1>10, <1>14, <2>1
  <2>3. \A k \in 1..z : hop[k - 1] \in InUse
    BY <1>2, <1>10, <2>1
  <2> QED
    BY <1>12, <1>14, <2>2, <2>3
<1> HIDE DEF w
<1>16. NoTwice(w)
  <2>1. ASSUME NEW j \in 1..z, NEW k \in 1..z, j # k PROVE w[j] # w[k]
    <3>1. j - 1 \in N /\ k - 1 \in N /\ j - 1 # k - 1
      BY <1>12, <2>1
    <3> QED
      BY <1>10, <1>15, <3>1
  <2> QED
    BY <1>15, <2>1 DEF NoTwice
<1>17. ASSUME NEW h \in T PROVE \E k \in N : hop[k] = h
  <2> DEFINE M == {g \in T : \A k \in N : hop[k] # g}
             A(g) == {k \in T : hit[k].row > hit[g].row}
  <2>1. SUFFICES ASSUME h \in M PROVE FALSE
    BY <1>17
  <2>2. PICK m \in M : \A g \in M : hit[g].row <= hit[m].row
    <3> DEFINE S == {RowOuter - hit[g].row : g \in M}
    <3>1. S \in SUBSET Nat /\ S # {}
      BY <1>2, <2>1
    <3>2. PICK x \in S : \A y \in S : x <= y
      BY <3>1, LeastNumber
    <3>3. PICK m \in M : x = RowOuter - hit[m].row
      BY <3>2
    <3>4. ASSUME NEW g \in M PROVE hit[g].row <= hit[m].row
      <4>1. RowOuter - hit[m].row <= RowOuter - hit[g].row
        BY <3>2, <3>3
      <4>2. hit[g].row \in Nat /\ hit[m].row \in Nat
        BY <1>2
      <4> HIDE DEF S
      <4> QED
        BY <1>2, <4>1, <4>2
    <3> QED
      BY <3>4
  <2>3. m \in T /\ \A k \in N : hop[k] # m
    BY <2>2
  <2>4. 0 \in N /\ hop[0] = first /\ m # first
    BY <1>7, <1>12, <2>3
  <2>5. PICK g \in A(m) : \A k \in A(m) : hit[g].row <= hit[k].row
    <3> DEFINE S == {hit[k].row : k \in A(m)}
    <3>1. first \in A(m)
      <4>1. hit[m].row <= hit[first].row /\ hit[m].row # hit[first].row
        BY <1>3, <2>3, <2>4
      <4> QED
        BY <1>2, <1>3, <2>3, <4>1
    <3>2. S \in SUBSET Nat /\ S # {}
      BY <1>2, <3>1
    <3>3. PICK x \in S : \A y \in S : x <= y
      BY <3>2, LeastNumber
    <3>4. PICK g \in A(m) : x = hit[g].row
      BY <3>3
    <3> QED
      BY <3>3, <3>4
  <2>6. g \in T /\ hit[g].row > hit[m].row
    OBVIOUS
  <2>7. g \notin M
    <3>1. \A k \in M : ~(hit[k].row > hit[m].row)
      <4>1. \A k \in M : hit[k].row <= hit[m].row /\ hit[k].row \in Nat /\ hit[m].row \in Nat
        BY <1>2, <2>2
      <4> QED
        BY <4>1
    <3> QED
      BY <2>6, <3>1
  <2>8. PICK k \in N : hop[k] = g
    BY <2>6, <2>7
  <2>9. g # last
    <3>1. hit[last].row <= hit[m].row /\ hit[last].row \in Nat /\ hit[m].row \in Nat
      BY <1>2, <1>3, <2>3
    <3> QED
      BY <2>6, <3>1
  <2> DEFINE b == nextTrackHit[g]
  <2>10. /\ b \in T /\ hit[b].row < hit[g].row
         /\ hit[m].row >= hit[g].row \/ hit[m].row <= hit[b].row
    BY <1>3, <2>3, <2>6, <2>9
  <2> HIDE DEF b
  <2>11. hit[b].row \in Nat /\ hit[g].row \in Nat /\ hit[m].row \in Nat
    BY <1>2, <2>3, <2>6, <2>10
  <2>12. ~(hit[b].row > hit[m].row)
    <3>1. SUFFICES ASSUME b \in A(m) PROVE FALSE
      BY <2>10
    <3>2. hit[g].row <= hit[b].row
      BY <2>5, <3>1
    <3> HIDE DEF A
    <3> QED
      BY <2>10, <2>11, <3>2
  <2>13. b = m
    <3>1. hit[b].row = hit[m].row
      <4> HIDE DEF A, M
      <4> QED
        BY <2>6, <2>10, <2>11, <2>12
    <3> QED
      BY <1>3, <2>3, <2>10, <3>1
  <2>14. k \in 0..(z - 1) /\ k + 1 \in 1..n /\ (k + 1) - 1 = k /\ k + 1 \in 0..n
    BY <1>2, <1>12
  <2>15. hop[k + 1] = m
    BY <1>2, <1>7, <2>6, <2>8, <2>13, <2>14 DEF b
  <2>16. k + 1 \in N
    BY <1>2, <2>3, <2>14, <2>15 DEF N
  <2> QED
    BY <2>3, <2>15, <2>16
<1>18. OnList(first) = T
  <2>1. OnList(first) = {w[k] : k \in 1..z}
    BY <1>15 DEF OnList, w
  <2>2. ASSUME NEW h \in T PROVE \E k \in 1..z : w[k] = h
    <3>1. PICK i \in N : hop[i] = h
      BY <1>17
    <3>2. i + 1 \in 1..z /\ (i + 1) - 1 = i
      BY <1>12
    <3> QED
      BY <1>15, <3>1, <3>2
  <2> QED
    BY <1>15, <2>1, <2>2
<1> QED
  BY <1>12, <1>15, <1>16, <1>18 DEF w

------------------------------------------------------------------------------
(* Reading: the array never holds more than maxHits.                       *)
LEMMA ReadMezzanineIs ==
  ASSUME NEW h \in Seq(Hit), NEW board \in Seq(Hit)
  PROVE  ReadMezzanine(h, board) \in Seq(Hit)
<1> DEFINE n == Len(board)
           S == Seq(Hit)
           Add(x, i) == IF Wanted(board[i]) THEN Append(x, board[i]) ELSE x
           Def(f) == f = [i \in 0..n |-> IF i = 0 THEN h
                            ELSE IF Wanted(board[i]) THEN Append(f[i - 1], board[i]) ELSE f[i - 1]]
           read == CHOOSE f : Def(f)
           step == [x \in S \X (1..n) |-> Add(x[1], x[2])]
<1>1. ReadMezzanine(h, board) = read[n]
  BY DEF ReadMezzanine
<1>2. n \in Nat /\ \A i \in 1..n : board[i] \in Hit
  BY LenProperties, ElementOfSeq
<1>3. \A x \in S, i \in 1..n : Add(x, i) \in S
  BY <1>2, AppendProperties
<1> HIDE DEF n
<1>4. \E f : Def(f)
  <2>1. step \in Steps(S, n)
    BY <1>3 DEF Steps
  <2>2. PICK f \in [0..n -> S] : Follows(f, h, n, step)
    <3> HIDE DEF S, step
    <3>1. h \in S
      BY DEF S
    <3> QED
      BY <1>2, <2>1, <3>1, Recursion
  <2>3. \A k \in 1..n : f[k - 1] \in S
    BY <1>2
  <2>4. \A k \in 1..n : f[k] = Add(f[k - 1], k)
    BY <2>2, <2>3 DEF Follows
  <2>5. f[0] = h
    BY <2>2 DEF Follows
  <2>6. \A k \in 0..n : k = 0 \/ k \in 1..n
    BY <1>2
  <2> QED
    BY <2>4, <2>5, <2>6
<1>5. Def(read)
  BY <1>4
<1> HIDE DEF read
<1> DEFINE P == {k \in 0..n : read[k] \in S}
<1>6. 0 \in P
  BY <1>2, <1>5
<1>7. ASSUME NEW k \in 1..n, k - 1 \in P PROVE k \in P
  <2>1. k \in 0..n /\ k # 0
    BY <1>2
  <2>2. read[k] = Add(read[k - 1], k)
    BY <1>5, <2>1
  <2> QED
    BY <1>3, <1>7, <2>1, <2>2
<1> HIDE DEF P
<1>8. n \in P
  <2>1. 0..n \subseteq P
    BY <1>2, <1>6, <1>7, UpTo
  <2> QED
    BY <1>2, <2>1
<1> QED
  BY <1>1, <1>8 DEF P

Readings == {read \in [hits : Seq(Hit), ok : BOOLEAN] : Len(read.hits) <= MaxHits}

LEMMA AddBoardIs ==
  ASSUME NEW read \in Readings, NEW board \in Seq(Hit)
  PROVE  AddBoard(read, board) \in Readings
<1> DEFINE more == ReadMezzanine(read.hits, board)
<1>1. more \in Seq(Hit)
  BY ReadMezzanineIs DEF Readings
<1>2. read \in [hits : Seq(Hit), ok : BOOLEAN] /\ Len(read.hits) <= MaxHits
  BY DEF Readings
<1>3. AddBoard(read, board) = IF read.ok /\ Len(more) <= MaxHits THEN [hits |-> more, ok |-> TRUE]
                              ELSE [read EXCEPT !.ok = FALSE]
  BY DEF AddBoard
<1> HIDE DEF more
<1>4. CASE read.ok /\ Len(more) <= MaxHits
  BY <1>1, <1>3, <1>4 DEF Readings
<1>5. CASE ~(read.ok /\ Len(more) <= MaxHits)
  BY <1>2, <1>3, <1>5 DEF Readings
<1> QED
  BY <1>4, <1>5

LEMMA ReadBoardsIs ==
  ASSUME NEW h \in Seq(Hit), Len(h) <= MaxHits, NEW boards \in Seq(Seq(Hit))
  PROVE  ReadBoards(h, boards) \in Seq(Hit) /\ Len(ReadBoards(h, boards)) <= MaxHits
<1> DEFINE n == Len(boards)
           start == [hits |-> h, ok |-> TRUE]
           Def(f) == f = [i \in 0..n |-> IF i = 0 THEN start ELSE AddBoard(f[i - 1], boards[i])]
           read == CHOOSE f : Def(f)
           step == [x \in Readings \X (1..n) |-> AddBoard(x[1], boards[x[2]])]
<1>1. ReadBoards(h, boards) = read[n].hits
  BY DEF ReadBoards
<1>2. n \in Nat /\ \A i \in 1..n : boards[i] \in Seq(Hit)
  BY LenProperties, ElementOfSeq
<1>3. \A x \in Readings, i \in 1..n : AddBoard(x, boards[i]) \in Readings
  BY <1>2, AddBoardIs
<1>4. start \in Readings
  BY DEF Readings
<1> HIDE DEF n, start
<1>5. \E f : Def(f)
  <2>1. step \in Steps(Readings, n)
    BY <1>3 DEF Steps
  <2>2. PICK f \in [0..n -> Readings] : Follows(f, start, n, step)
    <3> HIDE DEF step
    <3> QED
      BY <1>2, <1>4, <2>1, Recursion
  <2>3. \A k \in 1..n : f[k - 1] \in Readings
    BY <1>2
  <2>4. \A k \in 1..n : f[k] = AddBoard(f[k - 1], boards[k])
    BY <2>2, <2>3 DEF Follows
  <2>5. f[0] = start
    BY <2>2 DEF Follows
  <2>6. \A k \in 0..n : k = 0 \/ k \in 1..n
    BY <1>2
  <2> QED
    BY <2>4, <2>5, <2>6
<1>6. Def(read)
  BY <1>5
<1> HIDE DEF read
<1> DEFINE P == {k \in 0..n : read[k] \in Readings}
<1>7. 0 \in P
  BY <1>2, <1>4, <1>6
<1>8. ASSUME NEW k \in 1..n, k - 1 \in P PROVE k \in P
  <2>1. k \in 0..n /\ k # 0
    BY <1>2
  <2>2. read[k] = AddBoard(read[k - 1], boards[k])
    BY <1>6, <2>1
  <2> QED
    BY <1>3, <1>8, <2>1, <2>2
<1> HIDE DEF P
<1>9. n \in P
  <2>1. 0..n \subseteq P
    BY <1>2, <1>7, <1>8, UpTo
  <2> QED
    BY <1>2, <2>1
<1>10. read[n] \in Readings
  BY <1>9 DEF P
<1> QED
  BY <1>1, <1>10 DEF Readings

------------------------------------------------------------------------------
(* Tracking keeps the lists.                                               *)
LEMMA FtfInitInv == FtfInit => FtfInv
<1> SUFFICES ASSUME FtfInit PROVE FtfInv
  OBVIOUS
<1>1. Len(hit) = 0 /\ Len(tracks) = 0
  BY DEF FtfInit
<1>2. FtfTypeOK
  BY <1>1, FtfSizes DEF FtfInit, FtfTypeOK
<1>3. Candidate
  BY DEF FtfInit, Candidate
<1> QED
  BY <1>2, <1>3 DEF FtfInit, FtfInv

LEMMA FtfReadingKeeps == FtfInv /\ (StartHypersector \/ ReadSector \/ Write) => FtfInv'
<1> SUFFICES ASSUME FtfInv, StartHypersector \/ ReadSector \/ Write PROVE FtfInv'
  OBVIOUS
<1>1. FtfTypeOK /\ at \in {0} \cup 1..Len(hit) /\ (ftfStage \in {"reading", "tracked", "written"} => at = 0)
      /\ Len(hit) \in Nat
  BY FtfTyped DEF FtfInv, FtfTypeOK
<1>2. CASE StartHypersector
  <2> USE <1>2 DEF StartHypersector, finder
  <2>1. Len(hit') = 0 /\ nHyper' \in Nat
    BY <1>1 DEF FtfTypeOK
  <2>2. FtfTypeOK'
    BY <1>1, <2>1, FtfSizes DEF FtfTypeOK
  <2> QED
    BY <1>1, <2>2 DEF FtfInv, Candidate
<1>3. CASE ReadSector
  <2> USE <1>3 DEF ReadSector, finder
  <2>1. hit' \in Seq(Hit) /\ Len(hit') <= MaxHits /\ Len(hit') \in Nat
    <3>1. PICK boards \in SectorBanks : hit' = ReadBoards(hit, boards)
      OBVIOUS
    <3>2. boards \in Seq(Seq(Hit)) /\ hit \in Seq(Hit) /\ Len(hit) <= MaxHits
      BY <1>1, FtfSizes DEF FtfTypeOK
    <3>3. hit' \in Seq(Hit) /\ Len(hit') <= MaxHits
      BY <3>1, <3>2, ReadBoardsIs
    <3> QED
      BY <3>3, LenProperties
  <2>2. nRead' \in 0..2
    BY <1>1 DEF FtfTypeOK
  <2>3. FtfTypeOK'
    BY <1>1, <2>1, <2>2 DEF FtfTypeOK
  <2> QED
    BY <1>1, <2>3 DEF FtfInv, Candidate
<1>4. CASE Write
  <2> USE <1>4 DEF Write, finder, array
  <2>1. FtfTypeOK'
    BY <1>1 DEF FtfTypeOK
  <2> QED
    BY <1>1, <2>1 DEF FtfInv, Candidate
<1> QED
  BY <1>2, <1>3, <1>4

(* What stays in a pass when nothing is added to or taken off the tracks.  *)
LEMMA SameTracks ==
  ASSUME FtfInv, UNCHANGED <<hit, nextTrackHit, track, tracks>>, TracksLinked
  PROVE  TracksLinked'
<1>1. hit' = hit /\ nextTrackHit' = nextTrackHit /\ track' = track /\ tracks' = tracks
  OBVIOUS
<1> QED
  BY <1>1 DEF TracksLinked, Thread, OnTrack, InUse, InRange

LEMMA SegmentLengthIs ==
  ASSUME NEW n \in 1..3, NEW primaries \in BOOLEAN
  PROVE  SegmentLength(primaries, n) \in 1..3
BY DEF SegmentLength, Most

LEMMA BeginPassIs ==
  ASSUME NEW primaries \in BOOLEAN, NEW n \in 1..3, BeginPass(primaries, n)
  PROVE  /\ pass' \in [primaries : BOOLEAN, left : Nat] /\ at' = 0
         /\ nHitsSegment' \in 1..3 /\ nHitsForSegment' \in 1..3
         /\ ftfStage' \in {"scanning", "tracked"}
<1> DEFINE kind == primaries /\ NPrimary > 0
<1>1. kind \in BOOLEAN
  OBVIOUS
<1>2. SegmentLength(kind, n) \in 1..3
  BY <1>1, SegmentLengthIs
<1>3. pass' = [primaries |-> kind, left |-> IF kind THEN NPrimary ELSE NSecondary]
  BY DEF BeginPass
<1>4. nHitsForSegment' \in {n, SegmentLength(kind, n)}
  BY DEF BeginPass
<1>5. at' = 0 /\ nHitsSegment' = n /\ ftfStage' \in {"scanning", "tracked"}
  BY DEF BeginPass
<1> HIDE DEF kind
<1>6. pass' \in [primaries : BOOLEAN, left : Nat]
  BY <1>1, <1>3, FtfSizes
<1> QED
  BY <1>2, <1>4, <1>5, <1>6

LEMMA ProcessSectorKeeps == FtfInv /\ ProcessSector => FtfInv'
<1> SUFFICES ASSUME FtfInv, ProcessSector PROVE FtfInv'
  OBVIOUS
<1>1. FtfTypeOK
  BY DEF FtfInv
<1>2. /\ Len(hit) \in Nat /\ InUse \subseteq Index /\ InUse = 1..Len(hit)
      /\ track' = [h \in Index |-> IF h \in InUse THEN 0 ELSE track[h]]
      /\ tracks' = <<>> /\ hit' = hit /\ InUse' = InUse
      /\ UNCHANGED <<nHyper, nRead, hit, bank>>
  BY <1>1, FtfTyped DEF ProcessSector, InUse
<1>3. track' \in [Index -> 0..MaxTracks] /\ \A h \in InUse : track'[h] = 0
  <2>1. track \in [Index -> 0..MaxTracks] /\ 0 \in 0..MaxTracks
    BY <1>1, FtfSizes DEF FtfTypeOK
  <2> QED
    BY <1>2, <2>1
<1>4. Len(tracks') = 0 /\ tracks' \in Seq(Track) /\ 0 <= MaxTracks
  BY <1>2, FtfSizes
<1>5. nextTrackHit' \in [Index -> 0..MaxHits] /\ \A h \in InUse : InRange(h) => nextTrackHit'[h] = 0
  <2>0. nextTrackHit \in [Index -> 0..MaxHits] /\ 0 \in 0..MaxHits
    BY <1>1, FtfSizes DEF FtfTypeOK
  <2>1. CASE hit = <<>>
    <3>1. nextTrackHit' = nextTrackHit /\ InUse = {}
      BY <1>2, <2>1 DEF ProcessSector
    <3> QED
      BY <2>0, <3>1
  <2>2. CASE hit # <<>>
    <3>1. nextTrackHit' = [h \in Index |-> IF h \in InUse /\ InRange(h) THEN 0 ELSE nextTrackHit[h]]
      BY <2>2 DEF ProcessSector, SetPointers
    <3> QED
      BY <1>2, <2>0, <3>1
  <2> QED
    BY <2>1, <2>2
<1>6. /\ pass' \in [primaries : BOOLEAN, left : Nat] /\ at' = 0
      /\ nHitsSegment' \in 1..3 /\ nHitsForSegment' \in 1..3
      /\ ftfStage' \in {"scanning", "tracked"}
  <2>1. nHitsForSegment \in 1..3 /\ nHitsSegment \in 1..3 /\ pass \in [primaries : BOOLEAN, left : Nat]
        /\ at = 0
    BY <1>1 DEF FtfInv, FtfTypeOK, ProcessSector
  <2>2. CASE hit = <<>>
    BY <2>1, <2>2 DEF ProcessSector
  <2>3. CASE hit # <<>>
    <3>1. BeginPass(TRUE, nHitsForSegment)
      BY <2>3 DEF ProcessSector
    <3> QED
      BY <2>1, <3>1, BeginPassIs
  <2> QED
    BY <2>2, <2>3
<1>7. FtfTypeOK'
  <2>1. nHyper' \in Nat /\ nRead' \in 0..2 /\ hit' \in Seq(Hit) /\ Len(hit') <= MaxHits
    BY <1>1, <1>2 DEF FtfTypeOK
  <2>2. Index' = Index
    BY DEF Index
  <2>3. at' \in 0..Len(hit')
    BY <1>2, <1>6
  <2> QED
    BY <1>3, <1>4, <1>5, <1>6, <2>1, <2>2, <2>3 DEF FtfTypeOK
<1>8. TracksLinked'
  <2>1. \A h \in InUse : InRange(h)' <=> InRange(h)
    BY <1>2 DEF InRange
  <2>2. \A t : t \notin 1..Len(tracks')
    BY <1>4
  <2>3. \A h \in InUse : track'[h] \in 0..Len(tracks')
    BY <1>3, <1>4
  <2> QED
    BY <1>2, <1>5, <2>1, <2>2, <2>3, Zenon DEF TracksLinked
<1>9. Candidate'
  BY <1>6 DEF Candidate
<1> QED
  BY <1>6, <1>7, <1>8, <1>9 DEF FtfInv

LEMMA PassKeeps == FtfInv /\ (EndOfRows \/ TooManyTracks) => FtfInv'
<1> SUFFICES ASSUME FtfInv, EndOfRows \/ TooManyTracks PROVE FtfInv'
  OBVIOUS
<1>1. FtfTypeOK /\ TracksLinked /\ ftfStage = "scanning" /\ UNCHANGED <<array, tracks, bank>>
  BY DEF FtfInv, EndOfRows, TooManyTracks
<1>2. nHitsForSegment \in 1..3 /\ nHitsSegment \in 1..3 /\ pass \in [primaries : BOOLEAN, left : Nat]
  BY <1>1 DEF FtfTypeOK
<1>3. PICK left \in Int, n \in 1..3 : EndPass(left, n)
  <2>1. pass.left - 1 \in Int /\ 0 \in Int
    BY <1>2
  <2>2. EndPass(pass.left - 1, nHitsSegment) \/ EndPass(0, nHitsForSegment)
    BY DEF EndOfRows, TooManyTracks
  <2> QED
    BY <1>2, <2>1, <2>2
<1>4. /\ pass' \in [primaries : BOOLEAN, left : Nat] /\ at' = 0
      /\ nHitsSegment' \in 1..3 /\ nHitsForSegment' \in 1..3
      /\ ftfStage' \in {"scanning", "tracked"}
  <2>1. CASE left > 0
    <3>1. /\ pass' = [pass EXCEPT !.left = left] /\ at' = 0 /\ ftfStage' = ftfStage
          /\ nHitsSegment' = n /\ nHitsForSegment' = SegmentLength(pass.primaries, n)
      BY <1>3, <2>1 DEF EndPass
    <3>2. pass.primaries \in BOOLEAN /\ left \in Nat
      BY <1>2, <2>1
    <3>3. nHitsForSegment' \in 1..3
      BY <3>1, <3>2, SegmentLengthIs
    <3>4. pass' \in [primaries : BOOLEAN, left : Nat]
      BY <1>2, <3>1, <3>2
    <3> QED
      BY <1>1, <3>1, <3>3, <3>4
  <2>2. CASE ~(left > 0) /\ pass.primaries
    <3>1. BeginPass(FALSE, n)
      BY <1>3, <2>2 DEF EndPass
    <3> QED
      BY <3>1, BeginPassIs
  <2>3. CASE ~(left > 0) /\ ~pass.primaries
    BY <1>2, <1>3, <2>3 DEF EndPass
  <2> QED
    BY <2>1, <2>2, <2>3
<1>5. TracksLinked'
  BY <1>1, SameTracks DEF array
<1>6. FtfTypeOK'
  <2>1. at' \in 0..Len(hit')
    BY <1>1, <1>4, FtfTyped DEF array
  <2> QED
    BY <1>1, <1>4, <2>1 DEF FtfTypeOK, array
<1>7. Candidate'
  BY <1>4 DEF Candidate
<1> QED
  BY <1>4, <1>5, <1>6, <1>7 DEF FtfInv

(* The candidate, and the hits that are on it or on other tracks.          *)
LEMMA CandidateIs ==
  ASSUME FtfInv, ftfStage \in {"segment", "down", "up"}
  PROVE  /\ FtfTypeOK /\ TracksLinked /\ id \in 1..Len(tracks) /\ this \in Track
         /\ Len(tracks) \in Nat /\ id <= MaxTracks
         /\ this.firstHit \in OnTrack(id) /\ this.lastHit \in OnTrack(id)
         /\ Thread(OnTrack(id), this.firstHit, this.lastHit, nextTrackHit)
         /\ OnTrack(id) \subseteq InUse
<1>1. FtfTypeOK /\ TracksLinked /\ Len(tracks) # 0
  BY DEF FtfInv, Candidate
<1>2. Len(tracks) \in Nat /\ id = Len(tracks) /\ Len(tracks) <= MaxTracks
  BY <1>1, FtfTyped DEF id, FtfTypeOK
<1>3. id \in 1..Len(tracks)
  BY <1>1, <1>2
<1>4. this \in Track
  BY <1>1, <1>3, FtfTyped DEF this
<1>5. Thread(OnTrack(id), this.firstHit, this.lastHit, nextTrackHit)
  BY <1>1, <1>3 DEF TracksLinked, this
<1>6. this.firstHit \in OnTrack(id) /\ this.lastHit \in OnTrack(id)
  BY <1>5 DEF Thread
<1> QED
  BY <1>1, <1>2, <1>3, <1>4, <1>5, <1>6 DEF OnTrack

(* A hit that goes onto the candidate, at either end.                      *)
LEMMA GrownIs ==
  ASSUME FtfInv, ftfStage \in {"segment", "down", "up"}, UNCHANGED hit,
         NEW h \in InUse, track[h] = 0, InRange(h),
         NEW a \in InUse, NEW next \in InUse,
         nextTrackHit' = [nextTrackHit EXCEPT ![a] = next],
         a = h \/ a \in OnTrack(id),
         track' = [track EXCEPT ![h] = id],
         NEW new \in Track, tracks' = [tracks EXCEPT ![id] = new],
         Thread(OnTrack(id) \cup {h}, new.firstHit, new.lastHit, nextTrackHit')
  PROVE  /\ TracksLinked' /\ Len(tracks') = Len(tracks) /\ this' = new
         /\ nextTrackHit' \in [Index -> 0..MaxHits] /\ track' \in [Index -> 0..MaxTracks]
         /\ tracks' \in Seq(Track) /\ Len(tracks') <= MaxTracks
<1>1. /\ FtfTypeOK /\ TracksLinked /\ id \in 1..Len(tracks) /\ Len(tracks) \in Nat
      /\ OnTrack(id) \subseteq InUse /\ id # 0 /\ id <= MaxTracks
  BY CandidateIs
<1>2. /\ InUse \subseteq Index /\ InUse' = InUse /\ DOMAIN track = Index /\ DOMAIN nextTrackHit = Index
      /\ Index = 1..MaxHits /\ Index' = Index
  BY <1>1, FtfTyped, FtfSizes DEF InUse, Index
<1>3. track'[h] = id /\ \A g \in InUse : g # h => track'[g] = track[g]
  BY <1>2
<1>4. \A g \in InUse : g # a => nextTrackHit'[g] = nextTrackHit[g]
  BY <1>2
<1>5. tracks \in Seq(Track) /\ DOMAIN tracks = 1..Len(tracks) /\ Len(tracks) <= MaxTracks
  BY <1>1, LenProperties DEF FtfTypeOK
<1>6. tracks' \in Seq(Track) /\ Len(tracks') = Len(tracks) /\ tracks'[id] = new
      /\ \A t \in 1..Len(tracks) : t # id => tracks'[t] = tracks[t]
  BY <1>1, <1>5, ExceptSeq
<1>7. nextTrackHit' \in [Index -> 0..MaxHits] /\ track' \in [Index -> 0..MaxTracks]
  <2>1. next \in 0..MaxHits /\ id \in 0..MaxTracks
    BY <1>1, <1>2, FtfSizes DEF id
  <2>2. nextTrackHit \in [Index -> 0..MaxHits] /\ track \in [Index -> 0..MaxTracks]
    BY <1>1 DEF FtfTypeOK
  <2> QED
    BY <2>1, <2>2
<1>8. this' = new
  BY <1>6 DEF this, id
<1>9. \A g \in InUse : track[g] \in 0..Len(tracks) /\ (InRange(g) /\ track[g] = 0 => nextTrackHit[g] = 0)
  BY <1>1 DEF TracksLinked
<1>10. \A g \in InUse : track'[g] \in 0..Len(tracks')
  BY <1>1, <1>3, <1>6, <1>9
<1>11. ASSUME NEW g \in InUse, InRange(g)', track'[g] = 0
       PROVE  nextTrackHit'[g] = 0
  <2>1. g # h /\ track[g] = 0
    BY <1>1, <1>3, <1>11
  <2>2. g # a
    BY <1>1, <2>1 DEF OnTrack
  <2>3. InRange(g)
    BY <1>11 DEF InRange
  <2> QED
    BY <1>4, <1>9, <2>1, <2>2, <2>3
<1>12. ASSUME NEW t \in 1..Len(tracks')
       PROVE  Thread(OnTrack(t), tracks[t].firstHit, tracks[t].lastHit, nextTrackHit)'
  <2>1. CASE t = id
    <3>1. OnTrack(t)' = OnTrack(id) \cup {h}
      BY <1>2, <1>3, <2>1 DEF OnTrack
    <3>2. Thread(OnTrack(t)', tracks'[t].firstHit, tracks'[t].lastHit, nextTrackHit')
      BY <1>6, <2>1, <3>1
    <3> QED
      BY <3>2 DEF Thread
  <2>2. CASE t # id
    <3>1. t # 0 /\ t \in 1..Len(tracks) /\ tracks'[t] = tracks[t]
      BY <1>6, <2>2
    <3>2. OnTrack(t)' = OnTrack(t)
      BY <1>2, <1>3, <2>2, <3>1 DEF OnTrack
    <3>3. \A g \in OnTrack(t) : nextTrackHit'[g] = nextTrackHit[g]
      <4>1. \A g \in OnTrack(t) : g \in InUse /\ g # a
        BY <2>2, <3>1 DEF OnTrack
      <4> QED
        BY <1>4, <4>1
    <3>4. Thread(OnTrack(t), tracks[t].firstHit, tracks[t].lastHit, nextTrackHit)
      BY <1>1, <3>1 DEF TracksLinked
    <3>5. Thread(OnTrack(t), tracks[t].firstHit, tracks[t].lastHit, nextTrackHit')
      BY <3>3, <3>4, ThreadSame
    <3>6. Thread(OnTrack(t)', tracks'[t].firstHit, tracks'[t].lastHit, nextTrackHit')
      BY <3>1, <3>2, <3>5
    <3> QED
      BY <3>6 DEF Thread
  <2> QED
    BY <2>1, <2>2
<1>13. TracksLinked'
  BY <1>2, <1>10, <1>11, <1>12 DEF TracksLinked
<1> QED
  BY <1>5, <1>6, <1>7, <1>8, <1>13

LEMMA AddLastIs ==
  ASSUME FtfInv, ftfStage \in {"segment", "down"}, UNCHANGED hit,
         NEW h \in InUse, track[h] = 0, InRange(h), hit[h].row < hit[this.lastHit].row,
         AddLast(h)
  PROVE  /\ TracksLinked' /\ Len(tracks') = Len(tracks)
         /\ this'.lastHit = h /\ this'.nHits = this.nHits + 1
         /\ nextTrackHit' \in [Index -> 0..MaxHits] /\ track' \in [Index -> 0..MaxTracks]
         /\ tracks' \in Seq(Track) /\ Len(tracks') <= MaxTracks
<1> DEFINE last == this.lastHit
           new == [this EXCEPT !.lastHit = h, !.innerMostRow = hit[h].row, !.nHits = @ + 1]
<1>1. /\ FtfTypeOK /\ TracksLinked /\ this \in Track /\ last \in OnTrack(id) /\ OnTrack(id) \subseteq InUse
      /\ Thread(OnTrack(id), this.firstHit, last, nextTrackHit)
      /\ id \in 1..Len(tracks)
  BY CandidateIs
<1>2. h \in Index /\ hit[h].row \in 1..RowOuter /\ DOMAIN tracks = 1..Len(tracks)
  BY <1>1, FtfTyped, LenProperties DEF FtfTypeOK
<1>3. new \in Track /\ new.firstHit = this.firstHit /\ new.lastHit = h /\ new.nHits = this.nHits + 1
  <2> DEFINE old == this
  <2>1. old \in Track
    BY <1>1
  <2>2. new = [old EXCEPT !.lastHit = h, !.innerMostRow = hit[h].row, !.nHits = @ + 1]
    OBVIOUS
  <2> HIDE DEF old, new
  <2>3. new = [firstHit |-> old.firstHit, lastHit |-> h, nHits |-> old.nHits + 1,
               innerMostRow |-> hit[h].row, outerMostRow |-> old.outerMostRow]
    BY <2>1, <2>2 DEF Track
  <2>4. old.nHits + 1 \in Nat
    BY <2>1 DEF Track
  <2>5. old.firstHit \in Index /\ old.outerMostRow \in 1..RowOuter
    BY <2>1 DEF Track
  <2>6. new \in Track
    BY <1>2, <2>3, <2>4, <2>5 DEF Track
  <2> QED
    BY <2>3, <2>6 DEF old
<1>4. tracks' = [tracks EXCEPT ![id] = new]
  BY <1>1, <1>2 DEF AddLast, this
<1>5. nextTrackHit' = [nextTrackHit EXCEPT ![last] = h] /\ track' = [track EXCEPT ![h] = id]
  BY DEF AddLast
<1>6. nextTrackHit[h] = 0 /\ h \notin OnTrack(id)
  BY <1>1 DEF TracksLinked, OnTrack
<1>7. Thread(OnTrack(id) \cup {h}, this.firstHit, h, [nextTrackHit EXCEPT ![last] = h])
  BY <1>1, <1>6, ThreadAddLast
<1> HIDE DEF last, new
<1>8. Thread(OnTrack(id) \cup {h}, new.firstHit, new.lastHit, nextTrackHit')
  BY <1>3, <1>5, <1>7
<1>9. last \in InUse
  BY <1>1
<1>10. /\ TracksLinked' /\ Len(tracks') = Len(tracks) /\ this' = new
       /\ nextTrackHit' \in [Index -> 0..MaxHits] /\ track' \in [Index -> 0..MaxTracks]
       /\ tracks' \in Seq(Track) /\ Len(tracks') <= MaxTracks
  BY <1>1, <1>3, <1>4, <1>5, <1>8, <1>9, GrownIs
<1> QED
  BY <1>3, <1>10

LEMMA AddFirstIs ==
  ASSUME FtfInv, ftfStage = "up", UNCHANGED hit,
         NEW h \in InUse, track[h] = 0, InRange(h), hit[h].row > hit[this.firstHit].row,
         AddFirst(h)
  PROVE  /\ TracksLinked' /\ Len(tracks') = Len(tracks)
         /\ nextTrackHit' \in [Index -> 0..MaxHits] /\ track' \in [Index -> 0..MaxTracks]
         /\ tracks' \in Seq(Track) /\ Len(tracks') <= MaxTracks
<1> DEFINE first == this.firstHit
           new == [this EXCEPT !.firstHit = h, !.outerMostRow = hit[h].row, !.nHits = @ + 1]
<1>1. /\ FtfTypeOK /\ TracksLinked /\ this \in Track /\ first \in OnTrack(id) /\ OnTrack(id) \subseteq InUse
      /\ Thread(OnTrack(id), first, this.lastHit, nextTrackHit)
      /\ id \in 1..Len(tracks)
  BY CandidateIs
<1>2. h \in Index /\ hit[h].row \in 1..RowOuter /\ DOMAIN tracks = 1..Len(tracks)
  BY <1>1, FtfTyped, LenProperties DEF FtfTypeOK
<1>3. new \in Track /\ new.firstHit = h /\ new.lastHit = this.lastHit
  <2> DEFINE old == this
  <2>1. old \in Track
    BY <1>1
  <2>2. new = [old EXCEPT !.firstHit = h, !.outerMostRow = hit[h].row, !.nHits = @ + 1]
    OBVIOUS
  <2> HIDE DEF old, new
  <2>3. new = [firstHit |-> h, lastHit |-> old.lastHit, nHits |-> old.nHits + 1,
               innerMostRow |-> old.innerMostRow, outerMostRow |-> hit[h].row]
    BY <2>1, <2>2 DEF Track
  <2>4. old.nHits + 1 \in Nat
    BY <2>1 DEF Track
  <2>5. old.lastHit \in Index /\ old.innerMostRow \in 1..RowOuter
    BY <2>1 DEF Track
  <2>6. new \in Track
    BY <1>2, <2>3, <2>4, <2>5 DEF Track
  <2> QED
    BY <2>3, <2>6 DEF old
<1>4. tracks' = [tracks EXCEPT ![id] = new]
  BY <1>1, <1>2 DEF AddFirst, this
<1>5. nextTrackHit' = [nextTrackHit EXCEPT ![h] = first] /\ track' = [track EXCEPT ![h] = id]
  BY DEF AddFirst
<1>6. h \notin OnTrack(id)
  BY <1>1 DEF OnTrack
<1>7. Thread(OnTrack(id) \cup {h}, h, this.lastHit, [nextTrackHit EXCEPT ![h] = first])
  BY <1>1, <1>6, ThreadAddFirst
<1> HIDE DEF first, new
<1>8. Thread(OnTrack(id) \cup {h}, new.firstHit, new.lastHit, nextTrackHit')
  BY <1>3, <1>5, <1>7
<1>9. first \in InUse
  BY <1>1
<1> QED
  BY <1>1, <1>3, <1>4, <1>5, <1>8, <1>9, GrownIs

(* Giving the candidate up leaves nothing of it behind.                    *)
LEMMA DeletedIs ==
  ASSUME FtfInv, ftfStage \in {"segment", "down"}, UNCHANGED hit, DeleteCandidate
  PROVE  /\ TracksLinked'
         /\ nextTrackHit' \in [Index -> 0..MaxHits] /\ track' \in [Index -> 0..MaxTracks]
         /\ tracks' \in Seq(Track) /\ Len(tracks') <= MaxTracks
<1> DEFINE T == OnTrack(id)
<1>1. /\ FtfTypeOK /\ TracksLinked /\ id \in 1..Len(tracks) /\ Len(tracks) \in Nat
      /\ T \subseteq InUse /\ Len(tracks) <= MaxTracks
      /\ Thread(T, this.firstHit, this.lastHit, nextTrackHit) /\ id = Len(tracks)
  BY CandidateIs DEF id
<1>2. OnList(this.firstHit) = T
  BY <1>1, WalkIs
<1>3. /\ InUse \subseteq Index /\ InUse' = InUse /\ Index' = Index
  BY <1>1, FtfTyped DEF InUse, Index
<1>4. /\ nextTrackHit' = [h \in Index |-> IF h \in T THEN 0 ELSE nextTrackHit[h]]
      /\ track' = [h \in Index |-> IF h \in T THEN 0 ELSE track[h]]
      /\ tracks' = SubSeq(tracks, 1, Len(tracks) - 1)
  BY <1>2 DEF DeleteCandidate, id
<1>5. /\ tracks' \in Seq(Track) /\ Len(tracks') = Len(tracks) - 1
      /\ \A t \in 1..Len(tracks) - 1 : tracks'[t] = tracks[t]
  <2> DEFINE n == Len(tracks) - 1
  <2>1. n \in Nat /\ n + 1 = Len(tracks) /\ \A t \in 1..n : t \in 1..Len(tracks)
    BY <1>1
  <2>2. \A t \in 1..n : tracks[t] \in Track
    BY <1>1, <2>1, FtfTyped
  <2>3. tracks' = SubSeq(tracks, 1, n)
    BY <1>4
  <2> HIDE DEF n
  <2>4. tracks' \in Seq(Track) /\ Len(tracks') = (IF 1 <= n THEN n - 1 + 1 ELSE 0)
        /\ \A t \in 1..(n - 1 + 1) : tracks'[t] = tracks[1 + t - 1]
    <3>1. 1 \in Int /\ n \in Int
      BY <2>1
    <3> QED
      BY <2>2, <2>3, <3>1, SubSeqProperties
  <2>5. Len(tracks') = n /\ \A t \in 1..n : tracks'[t] = tracks[t]
    <3>1. \A t \in 1..n : t \in 1..(n - 1 + 1) /\ 1 + t - 1 = t
      BY <2>1
    <3> QED
      BY <2>1, <2>4, <3>1
  <2> QED
    BY <2>4, <2>5 DEF n
<1>6. \A h \in InUse : track[h] \in 0..Len(tracks) /\ (InRange(h) /\ track[h] = 0 => nextTrackHit[h] = 0)
  BY <1>1 DEF TracksLinked
<1>7. \A h \in InUse : h \in T <=> track[h] = id
  BY DEF OnTrack
<1>8. nextTrackHit' \in [Index -> 0..MaxHits] /\ track' \in [Index -> 0..MaxTracks]
  <2>1. nextTrackHit \in [Index -> 0..MaxHits] /\ track \in [Index -> 0..MaxTracks]
        /\ 0 \in 0..MaxHits /\ 0 \in 0..MaxTracks
    BY <1>1, FtfSizes DEF FtfTypeOK
  <2> HIDE DEF T
  <2> QED
    BY <1>4, <2>1
<1>9. ASSUME NEW h \in InUse
      PROVE  /\ track'[h] = IF h \in T THEN 0 ELSE track[h]
             /\ nextTrackHit'[h] = IF h \in T THEN 0 ELSE nextTrackHit[h]
  <2> HIDE DEF T
  <2> QED
    BY <1>3, <1>4
<1> HIDE DEF T
<1>10. \A h \in InUse : track'[h] \in 0..Len(tracks')
  BY <1>1, <1>5, <1>6, <1>7, <1>9
<1>11. \A h \in InUse : InRange(h)' /\ track'[h] = 0 => nextTrackHit'[h] = 0
  BY <1>6, <1>9 DEF InRange
<1>12. ASSUME NEW t \in 1..Len(tracks')
       PROVE  Thread(OnTrack(t), tracks[t].firstHit, tracks[t].lastHit, nextTrackHit)'
  <2>1. t \in 1..Len(tracks) /\ t # id /\ t # 0 /\ tracks'[t] = tracks[t]
    BY <1>1, <1>5
  <2>2. \A h \in InUse : track'[h] = t <=> track[h] = t
    BY <1>7, <1>9, <2>1
  <2>3. OnTrack(t)' = OnTrack(t)
    BY <1>3, <2>2 DEF OnTrack
  <2>4. \A h \in OnTrack(t) : nextTrackHit'[h] = nextTrackHit[h]
    BY <1>7, <1>9, <2>1 DEF OnTrack
  <2>5. Thread(OnTrack(t), tracks[t].firstHit, tracks[t].lastHit, nextTrackHit)
    BY <1>1, <2>1 DEF TracksLinked
  <2>6. Thread(OnTrack(t), tracks[t].firstHit, tracks[t].lastHit, nextTrackHit')
    BY <2>4, <2>5, ThreadSame
  <2>7. Thread(OnTrack(t)', tracks'[t].firstHit, tracks'[t].lastHit, nextTrackHit')
    BY <2>1, <2>3, <2>6
  <2> QED
    BY <2>7 DEF Thread
<1>13. TracksLinked'
  BY <1>3, <1>10, <1>11, <1>12 DEF TracksLinked
<1>14. Len(tracks') <= MaxTracks
  BY <1>1, <1>5, FtfSizes
<1> QED
  BY <1>5, <1>8, <1>13, <1>14

LEMMA RowsDownIs ==
  ASSUME NEW row \in Nat, row > 1, NEW range \in Nat, NEW r \in RowsDown(row, range)
  PROVE  r \in Nat /\ r < row /\ r >= row - range
BY DEF RowsDown, Most, Least

LEMMA RowsUpIs ==
  ASSUME NEW row \in Nat, NEW range \in Nat, NEW r \in RowsUp(row, range)
  PROVE  r > row
BY FtfSizes DEF RowsUp, Most, Least

LEMMA NewTrackKeeps == FtfInv /\ (\E h \in InUse : NewTrack(h)) => FtfInv'
<1> SUFFICES ASSUME FtfInv, NEW h \in InUse, NewTrack(h) PROVE FtfInv'
  OBVIOUS
<1> DEFINE n == Len(tracks) + 1
           new == [firstHit |-> h, lastHit |-> h, nHits |-> 1,
                   innerMostRow |-> hit[h].row, outerMostRow |-> hit[h].row]
<1>1. /\ FtfTypeOK /\ TracksLinked /\ Len(tracks) \in Nat /\ n \in Nat /\ n # 0
      /\ hit[h].row \in 1..RowOuter /\ h \in Index
      /\ InUse \subseteq Index /\ InUse = 1..Len(hit) /\ DOMAIN track = Index
  BY FtfTyped, FtfSizes DEF FtfInv, NewTrack
<1>2. /\ tracks' = Append(tracks, new) /\ track' = [track EXCEPT ![h] = n] /\ at' = h
      /\ ftfStage' = "segment" /\ hit' = hit /\ nextTrackHit' = nextTrackHit /\ InUse' = InUse
      /\ UNCHANGED <<nHyper, nRead, nHitsForSegment, nHitsSegment, pass, bank>>
  BY DEF NewTrack, InUse
<1>3. InRange(h) /\ track[h] = 0 /\ hit[h].row >= MinHitsPerTrack
  BY DEF NewTrack, IsNext, Starts
<1>4. Len(tracks) < MaxTracks
  BY <1>1, FtfSizes DEF NewTrack, Full, FtfTypeOK
<1>5. new \in Track
  BY <1>1 DEF Track
<1>6. /\ tracks' \in Seq(Track) /\ Len(tracks') = n /\ tracks'[n] = new
      /\ \A t \in 1..Len(tracks) : tracks'[t] = tracks[t]
  <2>1. tracks \in Seq(Track)
    BY <1>1 DEF FtfTypeOK
  <2> HIDE DEF new
  <2> QED
    BY <1>1, <1>2, <1>5, <2>1, AppendProperties
<1>7. track'[h] = n /\ \A g \in InUse : g # h => track'[g] = track[g]
  BY <1>1, <1>2
<1>8. /\ \A g \in InUse : track[g] \in 0..Len(tracks) /\ (InRange(g) /\ track[g] = 0 => nextTrackHit[g] = 0)
  BY <1>1 DEF TracksLinked
<1>9. FtfTypeOK'
  <2>1. track' \in [Index -> 0..MaxTracks]
    <3>1. n \in 0..MaxTracks /\ track \in [Index -> 0..MaxTracks]
      BY <1>1, <1>4, FtfSizes DEF FtfTypeOK
    <3> QED
      BY <1>2, <3>1
  <2>2. Len(tracks') <= MaxTracks
    BY <1>1, <1>4, <1>6, FtfSizes
  <2>3. at' \in 0..Len(hit') /\ Index' = Index
    BY <1>1, <1>2 DEF Index
  <2> HIDE DEF n, new
  <2> QED
    BY <1>1, <1>2, <1>6, <2>1, <2>2, <2>3 DEF FtfTypeOK
<1>10. TracksLinked'
  <2>1. \A g \in InUse : track'[g] \in 0..Len(tracks')
    BY <1>1, <1>6, <1>7, <1>8
  <2>2. \A g \in InUse : InRange(g)' /\ track'[g] = 0 => nextTrackHit'[g] = 0
    BY <1>1, <1>2, <1>7, <1>8 DEF InRange
  <2>3. ASSUME NEW t \in 1..Len(tracks')
        PROVE  Thread(OnTrack(t), tracks[t].firstHit, tracks[t].lastHit, nextTrackHit)'
    <3>1. CASE t = n
      <4>1. \A g \in InUse : track[g] # n
        BY <1>1, <1>8
      <4>2. OnTrack(t)' = {h}
        BY <1>2, <1>7, <3>1, <4>1 DEF OnTrack
      <4>3. Thread({h}, h, h, nextTrackHit)
        BY <1>1, <1>3, <1>8, ThreadOne
      <4>4. tracks'[t].firstHit = h /\ tracks'[t].lastHit = h
        BY <1>6, <3>1
      <4>5. Thread(OnTrack(t)', tracks'[t].firstHit, tracks'[t].lastHit, nextTrackHit')
        BY <1>2, <4>2, <4>3, <4>4
      <4> QED
        BY <1>2, <4>5 DEF Thread
    <3>2. CASE t # n
      <4>1. t \in 1..Len(tracks) /\ t # 0 /\ tracks'[t] = tracks[t]
        BY <1>1, <1>6, <2>3, <3>2
      <4>2. OnTrack(t)' = OnTrack(t)
        BY <1>2, <1>3, <1>7, <3>2, <4>1 DEF OnTrack
      <4>3. Thread(OnTrack(t), tracks[t].firstHit, tracks[t].lastHit, nextTrackHit)
        BY <1>1, <4>1 DEF TracksLinked
      <4>4. Thread(OnTrack(t)', tracks'[t].firstHit, tracks'[t].lastHit, nextTrackHit')
        BY <1>2, <4>1, <4>2, <4>3
      <4> QED
        BY <1>2, <4>4 DEF Thread
    <3> QED
      BY <3>1, <3>2
  <2> QED
    BY <1>2, <2>1, <2>2, <2>3 DEF TracksLinked
<1>11. Candidate'
  <2>1. this' = new
    BY <1>6 DEF this, id
  <2>2. this'.nHits = 1 /\ this'.lastHit = h
    BY <2>1
  <2> HIDE DEF new, n
  <2> QED
    BY <1>1, <1>2, <1>3, <1>6, <2>2 DEF Candidate
<1> QED
  BY <1>2, <1>9, <1>10, <1>11 DEF FtfInv

(* A step that builds the candidate in place.                              *)
LEMMA BuildingTypeOK ==
  ASSUME FtfTypeOK, UNCHANGED <<building, at>>,
         nextTrackHit' \in [Index -> 0..MaxHits], track' \in [Index -> 0..MaxTracks],
         tracks' \in Seq(Track), Len(tracks') <= MaxTracks,
         ftfStage' \in {"scanning", "segment", "down", "up"}
  PROVE  FtfTypeOK'
BY DEF FtfTypeOK, building, Index

LEMMA SegmentHitKeeps == FtfInv /\ SegmentHit => FtfInv'
<1> SUFFICES ASSUME FtfInv, SegmentHit PROVE FtfInv'
  OBVIOUS
<1> DEFINE row == hit[this.lastHit].row
<1>1. /\ ftfStage = "segment" /\ this.nHits < nHitsForSegment /\ ftfStage' = ftfStage
      /\ UNCHANGED <<building, at>> /\ hit' = hit
  BY DEF SegmentHit, building
<1>2. /\ FtfTypeOK /\ this \in Track /\ this.lastHit \in InUse /\ row \in Nat
      /\ row \in 1..RowOuter /\ Len(tracks) \in Nat /\ nHitsForSegment \in 1..3
  <2>1. FtfTypeOK /\ this \in Track /\ this.lastHit \in InUse /\ Len(tracks) \in Nat
    BY <1>1, CandidateIs
  <2>2. nHitsForSegment \in 1..3
    BY <2>1 DEF FtfTypeOK
  <2>3. row \in 1..RowOuter /\ row \in Nat
    BY <2>1, FtfTyped, FtfSizes
  <2> QED
    BY <2>1, <2>2, <2>3
<1>3. /\ this.nHits \in {1, 2} /\ row >= MinHitsPerTrack - SegmentRange
      /\ (this.nHits = 1 => row >= MinHitsPerTrack)
  <2>1. this.nHits \in Nat /\ this.nHits # 0
    BY <1>1, <1>2 DEF FtfInv, Candidate, Track
  <2>2. this.nHits \in {1, 2}
    BY <1>1, <1>2, <2>1
  <2>3. (this.nHits = 1 => row >= MinHitsPerTrack) /\ (this.nHits = 2 => row >= MinHitsPerTrack - SegmentRange)
    BY <1>1 DEF FtfInv, Candidate
  <2> HIDE DEF row
  <2> QED
    BY <1>2, <2>2, <2>3, FtfSizes
<1>4. row > 1
  <2> HIDE DEF row
  <2> QED
    BY <1>2, <1>3, FtfSizes
<1>5. PICK h \in Candidates(this.lastHit, RowsDown(row, SegmentRange)) : AddLast(h)
  BY DEF SegmentHit
<1>6. h \in InUse /\ track[h] = 0 /\ InRange(h) /\ hit[h].row \in RowsDown(row, SegmentRange)
  BY DEF Candidates
<1>7. hit[h].row \in Nat /\ hit[h].row < row /\ hit[h].row >= row - SegmentRange
  BY <1>2, <1>4, <1>6, FtfSizes, RowsDownIs
<1>8. /\ TracksLinked' /\ Len(tracks') = Len(tracks)
      /\ this'.lastHit = h /\ this'.nHits = this.nHits + 1
      /\ nextTrackHit' \in [Index -> 0..MaxHits] /\ track' \in [Index -> 0..MaxTracks]
      /\ tracks' \in Seq(Track) /\ Len(tracks') <= MaxTracks
  BY <1>1, <1>5, <1>6, <1>7, AddLastIs
<1>9. FtfTypeOK'
  BY <1>1, <1>2, <1>8, BuildingTypeOK
<1>10. Candidate'
  <2>1. this'.nHits \in {2, 3} /\ (this'.nHits = 2 => this.nHits = 1)
    BY <1>3, <1>8
  <2>2. this'.nHits = 2 => hit[h].row >= MinHitsPerTrack - SegmentRange
    <3> HIDE DEF row
    <3> QED
      BY <1>2, <1>3, <1>7, <2>1, FtfSizes
  <2>3. Len(tracks') # 0
    BY <1>1, <1>8 DEF FtfInv, Candidate
  <2> HIDE DEF row
  <2> QED
    BY <1>1, <1>8, <2>1, <2>2, <2>3 DEF Candidate
<1> QED
  BY <1>1, <1>8, <1>9, <1>10 DEF FtfInv

LEMMA FollowKeeps == FtfInv /\ (FollowDown \/ FollowUp) => FtfInv'
<1> SUFFICES ASSUME FtfInv, FollowDown \/ FollowUp PROVE FtfInv'
  OBVIOUS
<1>1. /\ ftfStage \in {"down", "up"} /\ ftfStage' = ftfStage
      /\ UNCHANGED <<building, at>> /\ hit' = hit
  BY DEF FollowDown, FollowUp, building
<1>2. FtfTypeOK /\ this.lastHit \in InUse /\ this.firstHit \in InUse /\ Len(tracks) # 0
  <2>1. FtfTypeOK /\ this.lastHit \in InUse /\ this.firstHit \in InUse
    BY <1>1, CandidateIs
  <2> QED
    BY <1>1, <2>1 DEF FtfInv, Candidate
<1>3. \A h \in InUse : hit[h].row \in Nat
  BY <1>2, FtfTyped, FtfSizes
<1>4. /\ TracksLinked' /\ Len(tracks') = Len(tracks)
      /\ nextTrackHit' \in [Index -> 0..MaxHits] /\ track' \in [Index -> 0..MaxTracks]
      /\ tracks' \in Seq(Track) /\ Len(tracks') <= MaxTracks
  <2>1. CASE FollowDown
    <3> DEFINE row == hit[this.lastHit].row
    <3>1. row > 1 /\ row \in Nat /\ ftfStage = "down"
      BY <1>2, <1>3, <2>1 DEF FollowDown, Above
    <3>2. PICK h \in Candidates(this.lastHit, RowsDown(row, TrackRange)) : AddLast(h)
      BY <2>1 DEF FollowDown
    <3>3. h \in InUse /\ track[h] = 0 /\ InRange(h) /\ hit[h].row \in RowsDown(row, TrackRange)
      BY DEF Candidates
    <3>4. hit[h].row < row
      BY <3>1, <3>3, FtfSizes, RowsDownIs
    <3> QED
      BY <1>1, <3>1, <3>2, <3>3, <3>4, AddLastIs
  <2>2. CASE FollowUp
    <3> DEFINE row == hit[this.firstHit].row
    <3>1. row \in Nat /\ ftfStage = "up"
      BY <1>2, <1>3, <2>2 DEF FollowUp
    <3>2. PICK h \in Candidates(this.firstHit, RowsUp(row, TrackRange)) : AddFirst(h)
      BY <2>2 DEF FollowUp
    <3>3. h \in InUse /\ track[h] = 0 /\ InRange(h) /\ hit[h].row \in RowsUp(row, TrackRange)
      BY DEF Candidates
    <3>4. hit[h].row > row
      BY <3>1, <3>3, FtfSizes, RowsUpIs
    <3> QED
      BY <1>1, <3>1, <3>2, <3>3, <3>4, AddFirstIs
  <2> QED
    BY <2>1, <2>2
<1>5. FtfTypeOK'
  BY <1>1, <1>2, <1>4, BuildingTypeOK
<1>6. Candidate'
  BY <1>1, <1>2, <1>4 DEF Candidate
<1> QED
  BY <1>1, <1>4, <1>5, <1>6 DEF FtfInv

LEMMA GiveUpKeeps == FtfInv /\ (NoSegment \/ GiveUp) => FtfInv'
<1> SUFFICES ASSUME FtfInv, NoSegment \/ GiveUp PROVE FtfInv'
  OBVIOUS
<1>1. /\ ftfStage \in {"segment", "down"} /\ ftfStage' = "scanning"
      /\ UNCHANGED <<building, at>> /\ hit' = hit /\ DeleteCandidate /\ FtfTypeOK
  BY DEF NoSegment, GiveUp, building, DeleteCandidate, FtfInv
<1>2. /\ TracksLinked' /\ nextTrackHit' \in [Index -> 0..MaxHits] /\ track' \in [Index -> 0..MaxTracks]
      /\ tracks' \in Seq(Track) /\ Len(tracks') <= MaxTracks
  BY <1>1, DeletedIs
<1>3. FtfTypeOK'
  BY <1>1, <1>2, BuildingTypeOK
<1>4. Candidate'
  BY <1>1 DEF Candidate
<1> QED
  BY <1>1, <1>2, <1>3, <1>4 DEF FtfInv

LEMMA GoOnKeeps == FtfInv /\ (Segment \/ Keep \/ Built) => FtfInv'
<1> SUFFICES ASSUME FtfInv, Segment \/ Keep \/ Built PROVE FtfInv'
  OBVIOUS
<1>1. /\ ftfStage \in {"segment", "down", "up"} /\ ftfStage' \in {"down", "up", "scanning"}
      /\ UNCHANGED <<building, at>> /\ UNCHANGED <<hit, nextTrackHit, track, tracks>> /\ FtfTypeOK
  BY DEF Segment, Keep, Built, building, FtfInv
<1>2. TracksLinked /\ Len(tracks) # 0
  BY <1>1 DEF FtfInv, Candidate
<1>3. TracksLinked'
  BY <1>1, <1>2, SameTracks
<1>4. FtfTypeOK'
  BY <1>1 DEF FtfTypeOK, building
<1>5. Candidate'
  BY <1>1, <1>2 DEF Candidate
<1> QED
  BY <1>1, <1>3, <1>4, <1>5 DEF FtfInv

LEMMA FtfInvStep == FtfInv /\ [FtfNext]_ftfVars => FtfInv'
<1> SUFFICES ASSUME FtfInv, [FtfNext]_ftfVars PROVE FtfInv'
  OBVIOUS
<1>1. CASE StartHypersector \/ ReadSector \/ Write
  BY <1>1, FtfReadingKeeps
<1>2. CASE ProcessSector
  BY <1>2, ProcessSectorKeeps
<1>3. CASE ProcessStep
  BY <1>3, NewTrackKeeps, PassKeeps, SegmentHitKeeps, FollowKeeps, GiveUpKeeps, GoOnKeeps DEF ProcessStep
<1>4. CASE UNCHANGED ftfVars
  <2>1. UNCHANGED <<hit, nextTrackHit, track, tracks>> /\ ftfStage' = ftfStage /\ at' = at
    BY <1>4 DEF ftfVars, array, finder
  <2>2. ftfStage \notin {"reading", "written"} => TracksLinked'
    BY <2>1, SameTracks DEF FtfInv
  <2>3. FtfTypeOK'
    BY <1>4 DEF FtfInv, FtfTypeOK, ftfVars, array, finder
  <2>4. Candidate'
    BY <2>1 DEF FtfInv, Candidate, this, id
  <2> QED
    BY <2>1, <2>2, <2>3, <2>4 DEF FtfInv
<1> QED
  BY <1>1, <1>2, <1>3, <1>4 DEF FtfNext

------------------------------------------------------------------------------
(* What is written.                                                        *)
Entry == [hit : InUse, trackId : 0..MaxTracks]

EntryOf(h) == [hit |-> h, trackId |-> track[h]]

(* s writes every hit of D once, and nothing else.                         *)
Covers(s, D) ==
  /\ s \in Seq(Entry) /\ Len(s) \in Nat
  /\ \A k \in 1..Len(s) : \E h \in D : s[k] = EntryOf(h)
  /\ \A j, k \in 1..Len(s) : s[j].hit = s[k].hit => j = k
  /\ \A h \in D : \E k \in 1..Len(s) : s[k] = EntryOf(h)

LEMMA CoversNone == Covers(<<>>, {})
<1>1. <<>> \in Seq(Entry) /\ Len(<<>>) = 0
  OBVIOUS
<1>2. \A k : k \notin 1..0
  OBVIOUS
<1> QED
  BY <1>1, <1>2 DEF Covers

LEMMA CoversConcat ==
  ASSUME NEW s, NEW u, NEW D, NEW E, Covers(s, D), Covers(u, E), D \cap E = {}
  PROVE  Covers(s \o u, D \cup E)
<1> DEFINE m == Len(s)
           n == Len(u)
           v == s \o u
<1>1. /\ s \in Seq(Entry) /\ u \in Seq(Entry) /\ m \in Nat /\ n \in Nat
      /\ \A k \in 1..m : \E h \in D : s[k] = EntryOf(h)
      /\ \A k \in 1..n : \E h \in E : u[k] = EntryOf(h)
      /\ \A j, k \in 1..m : s[j].hit = s[k].hit => j = k
      /\ \A j, k \in 1..n : u[j].hit = u[k].hit => j = k
      /\ \A h \in D : \E k \in 1..m : s[k] = EntryOf(h)
      /\ \A h \in E : \E k \in 1..n : u[k] = EntryOf(h)
  BY DEF Covers
<1>2. /\ v \in Seq(Entry) /\ Len(v) = m + n
      /\ \A k \in 1..m + n : v[k] = IF k <= m THEN s[k] ELSE u[k - m]
  BY <1>1, ConcatProperties
<1> HIDE DEF m, n, v
<1>3. /\ \A k \in 1..m : k \in 1..m + n /\ v[k] = s[k]
      /\ \A k \in 1..n : m + k \in 1..m + n /\ v[m + k] = u[k]
      /\ \A k \in 1..m + n : k \in 1..m \/ (k - m \in 1..n /\ k = m + (k - m))
  <2>1. \A k \in 1..m : k \in 1..m + n /\ k <= m
    BY <1>1
  <2>2. \A k \in 1..n : m + k \in 1..m + n /\ ~(m + k <= m) /\ (m + k) - m = k
    BY <1>1
  <2>3. \A k \in 1..m + n : k \in 1..m \/ (k - m \in 1..n /\ k = m + (k - m))
    BY <1>1
  <2> QED
    BY <1>2, <2>1, <2>2, <2>3
<1>4. \A h : EntryOf(h).hit = h
  BY DEF EntryOf
<1>5. /\ \A k \in 1..m : v[k].hit \in D
      /\ \A k \in 1..n : v[m + k].hit \in E
  <2>1. ASSUME NEW k \in 1..m PROVE v[k].hit \in D
    <3>1. PICK h \in D : s[k] = EntryOf(h)
      BY <1>1
    <3>2. v[k] = s[k]
      BY <1>3
    <3> QED
      BY <1>4, <3>1, <3>2
  <2>2. ASSUME NEW k \in 1..n PROVE v[m + k].hit \in E
    <3>1. PICK h \in E : u[k] = EntryOf(h)
      BY <1>1
    <3>2. v[m + k] = u[k]
      BY <1>3
    <3> QED
      BY <1>4, <3>1, <3>2
  <2> QED
    BY <2>1, <2>2
<1>6. \A k \in 1..m + n : \E h \in D \cup E : v[k] = EntryOf(h)
  <2>1. TAKE k \in 1..m + n
  <2>2. CASE k \in 1..m
    <3>1. PICK h \in D : s[k] = EntryOf(h)
      BY <1>1, <2>2
    <3>2. v[k] = s[k]
      BY <1>3, <2>2
    <3> QED
      BY <3>1, <3>2
  <2>3. CASE k \notin 1..m
    <3>1. k - m \in 1..n /\ k = m + (k - m)
      BY <1>3, <2>3
    <3> DEFINE x == k - m
    <3>2. x \in 1..n /\ k = m + x
      BY <3>1
    <3> HIDE DEF x
    <3>3. PICK h \in E : u[x] = EntryOf(h)
      BY <1>1, <3>2
    <3>4. v[k] = u[x]
      BY <1>3, <3>2
    <3> QED
      BY <3>3, <3>4
  <2> QED
    BY <2>2, <2>3
<1>7. ASSUME NEW j \in 1..m + n, NEW k \in 1..m + n, v[j].hit = v[k].hit
      PROVE  j = k
  <2>1. CASE j \in 1..m /\ k \in 1..m
    BY <1>1, <1>3, <1>7, <2>1
  <2>2. CASE j \notin 1..m /\ k \notin 1..m
    <3> DEFINE x == j - m
               y == k - m
    <3>1. x \in 1..n /\ y \in 1..n /\ j = m + x /\ k = m + y
      BY <1>3, <2>2
    <3> HIDE DEF x, y
    <3>2. v[j] = u[x] /\ v[k] = u[y]
      BY <1>3, <3>1
    <3> QED
      BY <1>1, <1>7, <3>1, <3>2
  <2>3. CASE j \in 1..m /\ k \notin 1..m
    <3>1. v[j].hit \in D /\ v[k].hit \in E
      BY <1>3, <1>5, <2>3
    <3> QED
      BY <1>7, <3>1
  <2>4. CASE j \notin 1..m /\ k \in 1..m
    <3>1. v[j].hit \in E /\ v[k].hit \in D
      BY <1>3, <1>5, <2>4
    <3> QED
      BY <1>7, <3>1
  <2> QED
    BY <2>1, <2>2, <2>3, <2>4
<1>8. ASSUME NEW h \in D \cup E PROVE \E k \in 1..m + n : v[k] = EntryOf(h)
  <2>1. CASE h \in D
    BY <1>1, <1>3, <2>1
  <2>2. CASE h \in E
    <3>1. PICK k \in 1..n : u[k] = EntryOf(h)
      BY <1>1, <2>2
    <3> QED
      BY <1>3, <3>1
  <2> QED
    BY <2>1, <2>2
<1>9. Len(v) \in Nat
  BY <1>1, <1>2
<1>10. Covers(v, D \cup E)
  BY <1>2, <1>6, <1>7, <1>8, <1>9 DEF Covers
<1> QED
  BY <1>10 DEF v

LEMMA CoversLen ==
  ASSUME NEW s, NEW D, Covers(s, D)
  PROVE  IsFiniteSet(D) /\ Len(s) = Cardinality(D)
<1> DEFINE n == Len(s)
           f == [k \in 1..n |-> s[k].hit]
<1>1. \A h : EntryOf(h).hit = h
  BY DEF EntryOf
<1>2. /\ n \in Nat /\ \A k \in 1..n : s[k].hit \in D
      /\ \A j, k \in 1..n : s[j].hit = s[k].hit => j = k
      /\ \A h \in D : \E k \in 1..n : s[k].hit = h
  BY <1>1 DEF Covers
<1> HIDE DEF n
<1>3. f \in [1..n -> D]
  BY <1>2
<1>4. \A j, k \in 1..n : f[j] = f[k] => j = k
  BY <1>2
<1>5. \A h \in D : \E k \in 1..n : f[k] = h
  BY <1>2
<1> HIDE DEF f
<1>6. f \in Injection(1..n, D)
  BY <1>3, <1>4 DEF Injection, IsInjective
<1>7. f \in Surjection(1..n, D)
  BY <1>3, <1>5 DEF Surjection
<1>8. IsFiniteSet(1..n) /\ Cardinality(1..n) = n
  <2>1. Cardinality(1..n) = IF 1 > n THEN 0 ELSE n - 1 + 1
    BY <1>2, FS_Interval
  <2> QED
    BY <1>2, <2>1, FS_Interval
<1>9. IsFiniteSet(D) /\ Cardinality(D) = Cardinality(1..n)
  BY <1>6, <1>7, <1>8, FS_Surjection
<1> QED
  BY <1>8, <1>9 DEF n

LEMMA CoversOne ==
  ASSUME FtfTypeOK, NEW h \in InUse
  PROVE  Covers(<<EntryOf(h)>>, {h})
<1>1. EntryOf(h) \in Entry
  BY FtfTyped DEF EntryOf, Entry, FtfTypeOK
<1> DEFINE e == EntryOf(h)
<1> HIDE DEF e
<1>2. <<e>> \in Seq(Entry) /\ Len(<<e>>) = 1 /\ <<e>>[1] = e
  BY <1>1 DEF e
<1>3. \A k \in 1..1 : k = 1
  OBVIOUS
<1>4. 1 \in 1..1
  OBVIOUS
<1>5. Covers(<<e>>, {h})
  BY <1>2, <1>3, <1>4 DEF Covers, e
<1> QED
  BY <1>5 DEF e

LEMMA CoversTrack ==
  ASSUME FtfTypeOK, TracksLinked, NEW t \in 1..Len(tracks)
  PROVE  Covers(Written(Walk(tracks[t].firstHit), t), OnTrack(t))
<1> DEFINE w == Walk(tracks[t].firstHit)
           n == Len(w)
           s == Written(w, t)
<1>1. Thread(OnTrack(t), tracks[t].firstHit, tracks[t].lastHit, nextTrackHit) /\ OnTrack(t) \subseteq InUse
  BY DEF TracksLinked, OnTrack
<1>2. w \in Seq(InUse) /\ n \in Nat /\ NoTwice(w) /\ OnList(tracks[t].firstHit) = OnTrack(t)
  BY <1>1, WalkIs
<1>3. OnTrack(t) = {w[k] : k \in 1..n}
  BY <1>2 DEF OnList
<1>4. s = [k \in 1..n |-> [hit |-> w[k], trackId |-> t]]
  BY DEF Written
<1>5. \A j, k \in 1..n : j # k => w[j] # w[k]
  BY <1>2 DEF NoTwice
<1> HIDE DEF w, n, s
<1>6. t \in 0..MaxTracks
  BY FtfTyped, FtfSizes DEF FtfTypeOK
<1>7. \A k \in 1..n : w[k] \in OnTrack(t) /\ w[k] \in InUse /\ track[w[k]] = t
  BY <1>3 DEF OnTrack
<1>8. \A k \in 1..n : s[k] = EntryOf(w[k]) /\ s[k] \in Entry /\ s[k].hit = w[k]
  BY <1>4, <1>6, <1>7 DEF EntryOf, Entry
<1>9. s \in Seq(Entry) /\ Len(s) = n
  <2>1. \A k \in 1..n : [hit |-> w[k], trackId |-> t] \in Entry
    BY <1>4, <1>8
  <2> QED
    BY <1>2, <1>4, <2>1
<1>10. \A h \in OnTrack(t) : \E k \in 1..n : s[k] = EntryOf(h)
  BY <1>3, <1>8
<1>11. Covers(s, OnTrack(t))
  BY <1>2, <1>5, <1>7, <1>8, <1>9, <1>10 DEF Covers
<1> QED
  BY <1>11 DEF s, w

LEMMA FillHitsCovers ==
  ASSUME FtfTypeOK, TracksLinked
  PROVE  Covers(FillHits, InUse)
<1> DEFINE n == Len(tracks)
           m == Len(hit)
           S == Seq(Entry)
           On(t) == {h \in InUse : track[h] \in 1..t}
           Off(k) == {h \in InUse : track[h] # 0 \/ h <= k}
           List(t) == Written(Walk(tracks[t].firstHit), t)
           DefL(f) == f = [t \in 0..n |-> IF t = 0 THEN <<>> ELSE f[t - 1] \o List(t)]
           lists == CHOOSE f : DefL(f)
           Add(x, h) == IF track[h] = 0 THEN Append(x, [hit |-> h, trackId |-> 0]) ELSE x
           DefA(f) == f = [h \in 0..m |->
                             IF h = 0 THEN lists[n]
                             ELSE IF track[h] = 0 THEN Append(f[h - 1], [hit |-> h, trackId |-> 0])
                             ELSE f[h - 1]]
           all == CHOOSE f : DefA(f)
           stepL == [x \in S \X (1..n) |-> x[1] \o List(x[2])]
           stepA == [x \in S \X (1..m) |-> Add(x[1], x[2])]
<1>1. FillHits = all[m]
  BY DEF FillHits, id
<1>2. n \in Nat /\ m \in Nat /\ InUse = 1..m
  BY FtfTyped
<1>3. /\ \A h \in InUse : track[h] \in 0..n
      /\ \A t \in 1..n : Covers(List(t), OnTrack(t))
  BY CoversTrack DEF TracksLinked
<1>4. \A x \in S, t \in 1..n : x \o List(t) \in S
  <2>1. \A t \in 1..n : List(t) \in S
    BY <1>3 DEF Covers
  <2> HIDE DEF List
  <2> QED
    BY <2>1, ConcatProperties
<1> HIDE DEF n, m, List
<1>5. \E f : DefL(f)
  <2>1. stepL \in Steps(S, n)
    BY <1>4 DEF Steps
  <2>2. PICK f \in [0..n -> S] : Follows(f, <<>>, n, stepL)
    <3> HIDE DEF S, stepL
    <3>1. <<>> \in S
      BY DEF S
    <3> QED
      BY <1>2, <2>1, <3>1, Recursion
  <2>3. \A k \in 1..n : f[k - 1] \in S
    BY <1>2
  <2>4. \A k \in 1..n : f[k] = f[k - 1] \o List(k)
    BY <2>2, <2>3 DEF Follows
  <2>5. f[0] = <<>>
    BY <2>2 DEF Follows
  <2>6. \A k \in 0..n : k = 0 \/ k \in 1..n
    BY <1>2
  <2> QED
    BY <2>4, <2>5, <2>6
<1>6. DefL(lists)
  BY <1>5
<1> HIDE DEF lists
<1>7. Covers(lists[n], On(n))
  <2> DEFINE P == {t \in 0..n : Covers(lists[t], On(t))}
  <2>1. 0 \in P
    <3>1. On(0) = {} /\ lists[0] = <<>> /\ 0 \in 0..n
      BY <1>2, <1>6
    <3> HIDE DEF On
    <3> QED
      BY <3>1, CoversNone
  <2>2. ASSUME NEW t \in 1..n, t - 1 \in P PROVE t \in P
    <3>1. t \in 0..n /\ t # 0
      BY <1>2
    <3>2. lists[t] = lists[t - 1] \o List(t)
      BY <1>6, <3>1
    <3>3. On(t) = On(t - 1) \cup OnTrack(t) /\ On(t - 1) \cap OnTrack(t) = {}
      <4>1. \A x \in 0..n : (x \in 1..t <=> x \in 1..(t - 1) \/ x = t) /\ ~(x \in 1..(t - 1) /\ x = t)
        BY <1>2
      <4> QED
        BY <1>3, <4>1 DEF OnTrack
    <3>4. Covers(lists[t - 1], On(t - 1)) /\ Covers(List(t), OnTrack(t))
      BY <1>3, <2>2
    <3> HIDE DEF On
    <3>5. Covers(lists[t - 1] \o List(t), On(t - 1) \cup OnTrack(t))
      BY <3>3, <3>4, CoversConcat
    <3> QED
      BY <3>1, <3>2, <3>3, <3>5
  <2> HIDE DEF P
  <2>3. 0..n \subseteq P
    BY <1>2, <2>1, <2>2, UpTo
  <2>4. n \in P
    BY <1>2, <2>3
  <2> QED
    BY <2>4 DEF P
<1>8. lists[n] \in S
  BY <1>7 DEF Covers
<1>9. \A h \in 1..m : track[h] = 0 => [hit |-> h, trackId |-> 0] = EntryOf(h) /\ EntryOf(h) \in Entry
  <2>1. 0 \in 0..MaxTracks
    BY FtfSizes
  <2> QED
    BY <1>2, <2>1 DEF EntryOf, Entry
<1>10. \A x \in S, h \in 1..m : Add(x, h) \in S
  <2>1. ASSUME NEW x \in S, NEW h \in 1..m, track[h] = 0 PROVE Add(x, h) \in S
    <3> DEFINE e == EntryOf(h)
    <3>1. e \in Entry /\ Add(x, h) = Append(x, e)
      BY <1>9, <2>1
    <3> HIDE DEF e
    <3> QED
      BY <3>1, AppendProperties
  <2> QED
    BY <2>1
<1>11. \E f : DefA(f)
  <2> DEFINE start == lists[n]
  <2> HIDE DEF start
  <2>1. stepA \in Steps(S, m)
    BY <1>10 DEF Steps
  <2>2. PICK f \in [0..m -> S] : Follows(f, start, m, stepA)
    <3> HIDE DEF S, stepA
    <3>1. start \in S
      BY <1>8 DEF start
    <3> QED
      BY <1>2, <2>1, <3>1, Recursion
  <2>3. \A k \in 1..m : f[k - 1] \in S
    BY <1>2
  <2>4. \A k \in 1..m : f[k] = Add(f[k - 1], k)
    BY <2>2, <2>3 DEF Follows
  <2>5. f[0] = start
    BY <2>2 DEF Follows
  <2>6. \A k \in 0..m : k = 0 \/ k \in 1..m
    BY <1>2
  <2>7. f = [h \in 0..m |-> IF h = 0 THEN start ELSE Add(f[h - 1], h)]
    <3> HIDE DEF Add
    <3> QED
      BY <2>4, <2>5, <2>6
  <2>8. DefA(f)
    BY <2>7 DEF start
  <2> QED
    BY <2>8
<1>12. DefA(all)
  BY <1>11
<1> HIDE DEF all
<1>13. Covers(all[m], Off(m))
  <2> DEFINE P == {k \in 0..m : Covers(all[k], Off(k))}
  <2>1. 0 \in P
    <3>1. Off(0) = On(n)
      <4>1. \A x \in 0..n : x # 0 <=> x \in 1..n
        BY <1>2
      <4>2. \A h \in InUse : ~(h <= 0)
        BY <1>2
      <4> QED
        BY <1>3, <4>1, <4>2
    <3>2. all[0] = lists[n] /\ 0 \in 0..m
      BY <1>2, <1>12
    <3> HIDE DEF On, Off
    <3> QED
      BY <1>7, <3>1, <3>2
  <2>2. ASSUME NEW k \in 1..m, k - 1 \in P PROVE k \in P
    <3>1. k \in 0..m /\ k # 0 /\ k \in InUse
      BY <1>2
    <3>2. all[k] = Add(all[k - 1], k)
      BY <1>12, <3>1
    <3>3. Covers(all[k - 1], Off(k - 1))
      BY <2>2
    <3>4. \A h \in InUse : (h <= k <=> h <= k - 1 \/ h = k) /\ ~(k <= k - 1)
      BY <1>2
    <3>5. CASE track[k] = 0
      <4>1. Off(k) = Off(k - 1) \cup {k} /\ Off(k - 1) \cap {k} = {}
        BY <3>1, <3>4, <3>5
      <4>2. Covers(<<EntryOf(k)>>, {k})
        BY <3>1, CoversOne
      <4> HIDE DEF Off
      <4>3. Covers(all[k - 1] \o <<EntryOf(k)>>, Off(k - 1) \cup {k})
        BY <3>3, <4>1, <4>2, CoversConcat
      <4>4. all[k] = Append(all[k - 1], EntryOf(k))
        BY <1>9, <3>2, <3>5
      <4>5. all[k - 1] \in Seq(Entry) /\ EntryOf(k) \in Entry
        BY <1>9, <3>3, <3>5 DEF Covers
      <4>6. Append(all[k - 1], EntryOf(k)) = all[k - 1] \o <<EntryOf(k)>>
        <5> DEFINE e == EntryOf(k)
                   x == all[k - 1]
        <5> HIDE DEF e, x
        <5>1. x \in Seq(Entry) /\ e \in Entry
          BY <4>5 DEF e, x
        <5>2. Append(x, e) = x \o <<e>>
          BY <5>1, AppendIsConcat
        <5> QED
          BY <5>2 DEF e, x
      <4> QED
        BY <3>1, <4>1, <4>3, <4>4, <4>6
    <3>6. CASE track[k] # 0
      <4>1. Off(k) = Off(k - 1)
        BY <3>1, <3>4, <3>6
      <4>2. all[k] = all[k - 1]
        BY <3>2, <3>6
      <4> HIDE DEF Off
      <4> QED
        BY <3>1, <3>3, <4>1, <4>2
    <3> QED
      BY <3>5, <3>6
  <2> HIDE DEF P
  <2>3. 0..m \subseteq P
    BY <1>2, <2>1, <2>2, UpTo
  <2>4. m \in P
    BY <1>2, <2>3
  <2> QED
    BY <2>4 DEF P
<1>14. Off(m) = InUse
  BY <1>2
<1> HIDE DEF Off
<1> QED
  BY <1>1, <1>13, <1>14

LEMMA FtfInvAccounts == FtfInv => HitsAccounted
<1> SUFFICES ASSUME FtfInv PROVE HitsAccounted
  OBVIOUS
<1>1. FtfTypeOK /\ (ftfStage \notin {"reading", "written"} => TracksLinked)
  BY DEF FtfInv
<1>2. WrittenOnce
  <2>1. SUFFICES ASSUME ftfStage = "tracked"
                 PROVE  /\ Len(FillHits) = Len(hit)
                        /\ \A h \in InUse : \E k \in 1..Len(FillHits) :
                             FillHits[k] = [hit |-> h, trackId |-> track[h]]
    BY DEF WrittenOnce
  <2> DEFINE s == FillHits
  <2>2. Covers(s, InUse)
    BY <1>1, <2>1, FillHitsCovers
  <2> HIDE DEF s
  <2>3. Len(s) = Cardinality(InUse)
    BY <2>2, CoversLen
  <2>4. Cardinality(InUse) = Len(hit)
    <3> DEFINE n == Len(hit)
    <3>1. n \in Nat /\ InUse = 1..n
      BY <1>1, FtfTyped
    <3> HIDE DEF n
    <3>2. Cardinality(1..n) = IF 1 > n THEN 0 ELSE n - 1 + 1
      BY <3>1, FS_Interval
    <3>3. Cardinality(InUse) = n
      BY <3>1, <3>2
    <3> QED
      BY <3>3 DEF n
  <2>5. \A h \in InUse : \E k \in 1..Len(s) : s[k] = EntryOf(h)
    BY <2>2 DEF Covers
  <2> QED
    BY <2>3, <2>4, <2>5 DEF EntryOf, s
<1>3. OneHitPerRow
  <2>1. SUFFICES ASSUME ftfStage \notin {"reading", "written"}, NEW g \in InUse, NEW h \in InUse,
                        g # h, track[g] = track[h], track[g] # 0
                 PROVE  hit[g].row # hit[h].row
    BY DEF OneHitPerRow
  <2> DEFINE t == track[g]
  <2>2. TracksLinked /\ t \in 1..Len(tracks)
    BY <1>1, <2>1, FtfTyped DEF TracksLinked
  <2>3. g \in OnTrack(t) /\ h \in OnTrack(t)
    BY <2>1 DEF OnTrack
  <2> HIDE DEF t
  <2>4. Thread(OnTrack(t), tracks[t].firstHit, tracks[t].lastHit, nextTrackHit)
    BY <2>2 DEF TracksLinked
  <2> QED
    BY <2>1, <2>3, <2>4 DEF Thread
<1> QED
  BY <1>2, <1>3 DEF HitsAccounted

LEMMA FtfInvariant == FtfSpec => []FtfInv
<1>1. FtfInit => FtfInv
  BY FtfInitInv
<1>2. FtfInv /\ [FtfNext]_ftfVars => FtfInv'
  BY FtfInvStep
<1> QED
  BY <1>1, <1>2, PTL DEF FtfSpec

(* The arrays of the sector tracker hold what is put into them: the hits   *)
(* of two sectors (FtfSl3::readSector) and the tracks (getTracks), and     *)
(* every link and id stays within them.                                    *)
THEOREM FtfTypeCorrect == FtfSpec => []FtfTypeOK
<1>1. FtfInv => FtfTypeOK
  BY DEF FtfInv
<1> QED
  BY <1>1, FtfInvariant, PTL

(* fillHits, which follows the lists that links of earlier hypersectors    *)
(* and of candidates that were given up share an array with, writes every  *)
(* hit once, under the track it is on; and no track has two hits of a row. *)
THEOREM EveryHitWrittenOnce == FtfSpec => []HitsAccounted
<1>1. FtfInv => HitsAccounted
  BY FtfInvAccounts
<1> QED
  BY <1>1, FtfInvariant, PTL
=============================================================================
