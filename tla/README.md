# Verification project for the STAR high-level trigger (HLT)

TLA+ models of the online calibration loop, the detector tasks, the tracking and
the event pipeline of the HLT code in `src/`, the TLC runs that check them on
small instances, and theorems about them proved with TLAPS for every value of
the constants.

## 1. The system

The program reconstructs collisions online and decides which to keep.
Run control (outside the repository) drives three kinds of tasks:

| part | code | state it keeps | operations |
|---|---|---|---|
| calibration server | `L4ServerTask`, `L4_Server` | beam line, gains, the reply buffer `SendInfo`, a dE/dx histogram, a message counter, two files with one line per run | configureRun, stopRun, restart (run control); receive INIT or CALB, reply, broadcast (network thread) |
| calibration client | `hltCaliClient` | one lazily made instance per process, its UDP socket, the last result received, a mutex | send INIT, send CALB, receive a result, copy it |
| decider task | `L4HLTTask_decider` | the receive thread | init, sendConfig, decide |
| event task | `L4HLTTask_cpu` over the detector entities of `hlt_*.h` | one tracker, one event store and one event counter, shared by all events in flight | sendConfig, startRun, process, finish, stopRun |
| offload task | `L4HLTTask_simu`, `scif_*` | connection to a coprocessor card | connect, register memory, exchange events |
| single-process task | `l4HLTTask`, `udp_client` | as the event task, plus output blobs that live across events; an earlier form, no longer linked | configureRun, startRun (INIT with retries), handleEvent, stopRun |
| event store | `online_tracking_collector`, `gl3Event`, `gl3Track`, `gl3Node` | tracks, hits, nodes, vertex, index of tracks by sector and id | read sectors, merge tracks, match detectors, vertex, primaries, fill banks |
| trigger decision | `gl3TriggerDecider` | cuts, prescale and accept counters, decision per algorithm | setTriggersFromRunControl, decide_* |
| trackers | `online_TPC_CA_tracker`, `Ftf*` | hits by row and volume, tracks under construction | read a sector, find, extend and fit tracks |
| vertex finders | `online_tracking_vertex`, `gl3LMVertexFinder` | candidate track list, position | iterate |
| detector readers | `gl3EMC`, `gl3TOF`, `gl3MTD`, `HLT_TOF`, `HLT_MTD`, `l3*` | hit arrays of fixed size, calibration tables | decode an event, match to tracks |
| sector tasks of TOF | `daq_hlt_tof`, `tof_hlt_sector` | shared memory and its semaphore, the queue, links to the GL3 instances, lists of edges | do_config, do_run_start, do_run_stop, do_track, do_event, do_send |
| histograms | `gl3Histo`, `gl3HistoManager` | bins, maximum | fill, integrate, weighted mean |
| parameters | the `readHLTparameters` of the decider, the collector, the hit map and the server | one text file, read by each with a stream of its own | read |

How they interact: each node's decider sends a CALB datagram per event to the
server and a receive thread stores what the server sends back (a reply to the
INIT of sendConfig, or a broadcast every hundred CALB messages). Event tasks
copy the stored result at the start of every event and reconstruct with it;
what they reconstruct (the vertex, its number of tracks, MIP tracks) is the
next CALB message. Everything between the processes is UDP without
acknowledgement; within a process, threads share objects, mostly unlocked.

What is hard, and what would make each part correct:

* **Server.** A network thread is cancelled, not asked to stop, in the middle of
  a message, while run control goes on to write files and delete objects. It is
  correct if no thread ever runs on a deleted object, if the files hold exactly
  what a stopped run had learned, if averages and gains cannot run away through
  the loop of file and memory, if a stop always ends and an INIT is always
  answered.
* **Client.** Three kinds of threads make the same singleton without a lock,
  and two copy a struct under one. It is correct if copies are whole, if the
  object that is asked is the one that listens, if nobody uses memory that was
  never written, and if whoever holds the mutex gives it back.
* **Event task.** Entities live as long as a run and serve every event; buffers
  are reused; two halves of an event are handled by two calls between which
  other events and new calibrations may come. It is correct if an event is made
  of its own data, calibrated once, and accepted for exactly the triggers whose
  algorithm it satisfies.
* **TOF task.** A broker in another process writes an event into memory that
  the task still reads unless a semaphore says otherwise; links fail and are
  mounted again. It is correct if an event's hits are its own and all of them,
  if all sectors send an event to the same place, and if the memory comes back.
* **Store, readers, trackers, decision.** Arrays of fixed size indexed by data,
  counters that are reset in one place and used in another, iterations on
  floating point. They are correct if indices stay inside, if what is merged is
  counted once, and if what is reported agrees with what was found.

## 2. Modules

| module | models | notes |
|---|---|---|
| `CalibData` | the values: beam line, gains, readers of the two files, the running average | pure operators |
| `CalibStore` | what the server promises about the beam line: a run starts from the file, learns, leaves one line, or is aborted | abstract |
| `L4Server` | run control and network thread of the server, socket, files | implements `CalibStore` |
| `CaliCell` | what the client promises: one cell per object, stored and copied whole | abstract |
| `CaliClient` | GetInstance, receive thread, decider, event tasks copying results, the network | implements `CaliCell` |
| `EventTask` | buffers, readers, event store, masks and decisions over events and runs | |
| `TriggerDecider` | the trigger setup, the nodes and matches, the nineteen algorithms, their banks, bits and counters | |
| `FtfTracker` | hits, lists and candidates of the old tracker, one hypersector after another | |
| `CaTracker` | clusters to hits, conversion of the tracks of the cellular automaton, refit, energy loss | |
| `SectorMerge` | tracks and hits of all sectors put together, in `gl3Event` and the collector | |
| `MuonTelescope` | edges, strips, hits, QT boards, sectors to track, matching | |
| `TofTask` | broker, shared memory, edges, hits, instances of GL3 | |
| `Reconstruction` | `finalizeReconstruction()`: nodes, vertex, primaries, start times, matching, banks, what goes to the server | |
| `Parameters` | the readers of the file HLTparameters | |
| `MC_*` | the constants of the runs | |
| `*_proofs` | the theorems | those about the two trackers are in `EventTask_proofs`, those about `Parameters` in `L4Server_proofs` |

### Correspondence

`L4Server`. `rc` is where the run-control thread is in `L4ServerTask`
("stopping" and "flushing" are the waits in `pthread_join` of stopRun and
restart). The members of `L4_Server` are variables of the same name: there is
one live object at a time, the one `l4Server` points to, and objects and
threads are numbered by the `configureRun` that made them. `pc[t]` is the next
call of `run()` at which thread `t` can act on a cancellation (recvfrom, LOG,
sendto), so a step is the stretch of code between two of them: `Receive`,
`HandleInit`, `SendReply`, `HandleCalb`, `ResumeCalb`, `Broadcast`; `Cancelled` is
the thread ending there. A CALB message whose track count is out of range is
logged after its run number is stored and before its vertex is looked at, so it is
handled in two steps, with `pc[t] = "mip"` between them, and a stop may fall in
its middle; `CalibStore` says of such a message that it is noted (`half`) and not
learned from. `RunStop` is `run_stop()` on a joined thread, `Exit` the `exit(1)`
of a flush token followed by the start of a new process. `Junk` stands for
memory nobody wrote: `beamlineX` after an empty file, `SendInfo` after `new`.

`CaliClient`. `Check`, `Construct`, `Assign`, `Return` are the steps of the
unlocked `GetInstance`; an object has the name of the thread that constructed
it. `TakeMux`, `CopyPos`, `CopyGain`, `GiveMux` are `RecvCaliResult` (in the
receive thread) and `CopyCaliResult` (in a worker), the struct assignment in two
steps. A result is named by the number of the datagram that carried it, 0 is
memory nobody wrote. `Post` and `Deliver` are the network: what was sent may
arrive never, late, or several times.

`EventTask`. `Process` is `process()`, `Finish` is `finish()`, or `Crash` where
it would read through NULL. `init[s]` and `finish[s]` are the results in an
`L4EventData` buffer, `gl3` the members of the event store that survive a call,
`Unwritten` what is in a buffer before `process()` clears it,
`mtd` what the MTD reader keeps of the trigger words. A datum is the set of
events it comes from, so "the towers of another event" is a value one can see.
`Loaded(Reset(gl3), init[s])` is `Event_start` followed by the `Event_data` of
the detectors whose bit is set.

`TriggerDecider`. One action per `decide_*` function, taken in the order of the
loop in `finish()`: `Turn(a)` is the loop reaching an algorithm some trigger
needs, `Skip` one nobody needs, `Disabled` the early return of a switched-off
one. The two di-electron algorithms that differ only in cuts share an action,
as do those that only look at the vertex and a count. `node` is what the
algorithms leave in the shared `gl3Node`s, `bank[a]` the valid part of a
bank (its first n entries), and `ePair` the array of `hlt_UPCdiEP` itself,
because that bank's count and its entries do not agree. `Judged` is the tower an
electron is selected by, `HeavyTower` the one `decide_HeavyFragment` leaves in the
node of a track that it takes. `EventStart` is
`resetEvent` with `matchMTD` and `makeNodes2`; the tracks come with the event.

`FtfTracker`. A track is a list threaded through the array of hits, as in the
code: `firstHit`, `lastHit`, `nextTrackHit`, `track`. `NewTrack`, `SegmentHit`,
`Segment`, `FollowDown`, `FollowUp`, `GiveUp`, `Keep` are the places where
`buildTrack` and `follow` decide; the hit they take is any in reach of rows and
cells, as the fits might like it best. `FillTracks` and `FillHits` are the
operators that write both out. `ftfStage` is where `getTracks` is; `ProcessStep`
is any of its steps.

`CaTracker`. `EventData` is a sector, row by row, with the early ends of the
code; `RunCATracker` the call of the library, which finds any tracks of
`Patterns`; `Convert` one turn of the loop in `fillTracks`, whose links come from `Linked`.

`SectorMerge`. `ReadSectorTracks`, `MergeTrack`, `StoreTrack`, `ReadHit` are the
loops of `readSectorTracks`, `addTracks` and `readSectorHits`. A track keeps the
pieces it is made of; the code does not, but every property is about them.

`MuonTelescope`. `ReadRdoEvent`, `ReadMtdTrigger`, `DoEvent`, `MatchMTD` are the
calls of an event; decoding, pairing of ends, `findDimuonCandidate` and the
sectors of `DetermineTpcMask` are operators, with the tables of `mtd_defs.h`.

`TofTask`. `GetEvent`, `SemWait`, `CopyRdo`, `SendEvent` are `sender_thread`, the
others the cases of the main loop of `daq_hlt_tof` and the stretches of
`do_track`, `do_event` and `do_send` between which the broker may move.
`truth` is what the broker wrote; only properties look at it. `Tray` are the trays
that `read_rdo_event` accepts, 124 among them, for which no table has an entry:
the cuts that it meets are any (section 6).

`Reconstruction`. One action per call of `finalizeReconstruction()` in its order
(`stage`), after the readers that load an event; `FindPeak` and `MovePeak` are
the iterations of `makeVertex`. A track carries where its helix points.

`Parameters`. `ReadName` takes a word, `ReadValue` the number after a name and
`ReadRow` a row of numbers, with the state of the stream: where it is, whether it
failed, whether it has seen the end (`Ended`), its base. `turn` counts the readers
of a process; the decider's comes twice, as the collector has it read again.

## 3. Runs

| run | question | instance | states |
|---|---|---|---|
| `L4Server` | can a stop, a flush or a late message leave a thread on a deleted object, a run without a port, a half-learned line? does the server implement `CalibStore`? does every stop end and every queued INIT get its answer? | 2 nodes, 2 runs, 1 queued datagram, positions -1..1, one bad vertex, sane and other track counts | 562,808 |
| `CaliClient` | are copies whole and objects made once? does the client implement `CaliCell`? is the mutex always given back? can a worker fall back to unwritten memory? | 1 worker, receive thread, decider, 2 results, 2 runs | 175,090 |
| `EventTask` | does an event inherit from another? is it calibrated once, and accepted for the right triggers? | 2 buffers, 3 events, 2 runs, 4 algorithms, 8 kinds of events | 1,095,986 |
| `EventTaskTof` | (violation) are TOF matches the event's own? | 1 buffer, 2 events | about 500, to the violation |
| `TriggerDecider` | do algorithms that share tracks, cuts and banks disturb each other, or one event the next? | 10 events of up to 3 tracks, all sequences of 2, 3 setups | 68,317 |
| `FtfTracker` | is every hit on one list, or none, and written once, whatever candidates were given up? does tracking end? | 4 rows, 3 cells, 2 hypersectors, 8 hits, 2 tracks | 112,397 |
| `SectorMerge` | is a piece counted twice or lost? do pairs, index and lists of hits name the same tracks? | 3 sectors, 2 events, 5 slots, both classes | 7,961 |
| `MuonTelescope` | are hits of their own strip, flagged by the largest sums, and matched to the nearest? | 4 kinds of board data, 3 of triggers, 4 tracks, 2 events | 1,967 |
| `TofTask` | can the broker's next event, a stop or a lost link spoil an event's hits or send its parts apart? does the broker get the memory back? | 2 boards, 2 instances, 2 events, 2 runs | 39,765 |
| `CaTracker` | is each track fitted again with the hits it counts, and no hit in two? | 2 sectors, 2 events, 15 hits, 3 kept tracks | 10,764 |
| `Reconstruction` | do the banks of an event agree with one another, and a vertex, its count and the VPD's times with the tracks and hits they stand for? | 4 sets of tracks, 2 events, all settings | 74,041 |
| `Parameters` | does each reader end with what the file says, and which files let a process start? | all files of up to 3 lines of 9, and longer ones | 110,000 |

`Parameters` asks the second question twice: only a sound file lets a process
start (`StartsOnlyIfSound`, also proved), and every sound file does
(`StartsIfSound`, liveness).

The violation is one that a comment of the code denies; see section 6.

### Bounds

* Server: two runs are enough for a thread, a socket or a file line of one run
  to meet the next; a vertex outside the window and the 0 that means "none" are
  the cases that `updateBeamline` tells apart, the files hold lines inside the
  window, outside and of no run; the broadcast period is 2 instead of 100, so
  that a broadcast falls inside and between two runs; track counts are in and out
  of the range that is logged. The average has weight
  1/2 instead of 1/10000 so that it moves in small integers.
* Client: two results are enough for one to be torn by the other, one worker to
  be caught between two halves, one queued datagram for a thread to wait or not.
  Workers only meet at the mutex; the proofs are for any number of them.
* Event task: an event is affected by the ones before it only through the store,
  the reader and its buffer; two events pass data on, the third shows that it
  does not go further, two buffers let one overtake another. Four algorithms
  stand for the nineteen: one without data, one on tracks, two on MTD data (one
  of which reads without a test); all nineteen are in `TriggerDecider`.
* Decision: algorithms meet only through nodes, banks and cuts of one event,
  which resetEvent and makeNodes2 renew, so two events show what is not
  renewed. Three tracks give three pairs; two towers and two MTD hits give a
  choice. The events are chosen for what the algorithms tell apart (see
  `MC_TriggerDecider`), every one followed by every other; one has electrons that
  are heavy fragments, so that two algorithms write to one node.
* Trackers: two hypersectors or events, for what the array of hits keeps from one
  to the next; sectors with crowded rows, rows that cannot be read, hits out of
  range, tracks that share hits; arrays so small that each of them fills up.
* Merging: three sectors let a track be extended twice and let a piece come after
  its slot was given away; ids are in and out of the range of the index, one is so
  high that two tracks get one id, and headers state more tracks than a sector has
  places, so that hits are looked up at those of the next and behind the last.
* Muon telescope: words of boards on no module, of no backleg and on both halves,
  a strip with one end, equal distances, each with and without a QT board.
* TOF task: a second event is written while the first is read, tracked or sent;
  the second run finds what the first left queued. Trays are in and out of
  order, of the start detector, without two of their boards, and tray 124.
* Reconstruction: an event with and without each detector after one with it;
  tracks at and below the cut on hits, a peak that moves and one that is lost.
* Parameters: three lines are the least with an integer after a hexadecimal
  number and a third that comes between them.

`CHECK_DEADLOCK FALSE` in every run: the bounds end each of them, and a crash
ends the event task.

### Fairness

Liveness is stated only where the code provides for it. The server's network
thread is `while (1) run()`, and every call of `run()` returns (recvfrom has a
timeout) or acts on a cancellation, so each thread step is weakly fair; so is
the end of a stop or restart once begun, which is the next statement after
`pthread_join`. Run control itself is not fair: it may never stop a run. On the
client the receive thread and the workers are weakly fair as threads; the mutex
is not assumed to be fair, and no message is assumed to arrive. A tracker, the
TOF task and a reader of the file run in one thread that is scheduled (`ProcessStep`,
`Task`, `ParNext` are weakly fair); so is the broker where it waits in `sem_wait`,
but neither what it brings nor run control.

## 4. What is proved

All theorems are of the form `Spec => ...`, for every value of the constants
that the assumption of the module allows (`DataAssumption`, `ServerAssumption`,
`ClientAssumption`, `EventAssumption`, `DeciderAssumption`, `MergeAssumption`,
`TelescopeAssumption`, `TaskAssumption`, `RecoAssumption`, `CaAssumption`,
`TrackerAssumption`, `SegmentAssumption`, `ParametersAssumption`,
`LinesAssumption`; TLC evaluates each).
Most of an assumption says what type a constant has. What says more: a setup is
a sequence of requests (`DeciderAssumption`); a tray of the start detector has at
most the 19 channels of its cables in the tables (`TaskAssumption`, `Len(VpdLE)`);
`zMin` is above the z that means "no vertex", and the data of an event have fewer
towers than the array has places (`RecoAssumption`; 30 cards of 160 words against
5520, `online_tracking_collector.cxx:502`); a sector numbers
its tracks, so that no two of a bank have one number (`MergeAssumption`;
`FtfFinder.cxx:161` numbers them by their place in the array); the array of hits
has more than the 5 places that the test for room keeps free, and a pair needs a
hit at least (`CaAssumption`; the code has 200005 and 5); a segment takes at most
three hits and `minHitsPerTrack` exceeds `segmentRowSearchRange` by more than one
(`SegmentAssumption`; `setParameters` has 2, 5 and 2), so that one cannot end on the
innermost row; a name of a setting is no number, and a file that is not found has
no lines (`ParametersAssumption`). `LinesAssumption` is about the file: a line
begins with a word that is no number, and no word after it is the name of a
setting. The readers do not ask for lines, but this is how the file is meant and how
the reading is said to be right; what follows the name may be anything else, too
few words, too many, or none that is a number.

* `L4Server_proofs`. `TypeOK` and `Lifecycle` together are inductive.
  `Lifecycle` says which thread can be alive in which state of run control: it
  is what makes the join in killThread sufficient. `NoUseAfterDelete` and
  `Listening` follow from it; `FilesWrittenAlone` is the same argument on a
  step. `GainWithinTenPercent` rests on what `ReadGain` returns for any file.
  `BeamlineWithinSpan` rests on two lemmas: a mean and a running average stay
  between their extremes, with integer division. `GainsStayWritten` needs no
  invariant: only `HandleInit` sets gains, and it sets written ones.
  `ImplementsStore` maps every step to a step of `CalibStore` or a stutter; the
  interesting cases are `Cancelled` (the store is closed, and of a message that was
  half applied keeps the run number, which is all that the code has stored of it)
  and `Exit`. `Safety` and `WritesSound`, which the run checks, are conjunctions of
  these.
* The same module, about `Parameters`. `ParInv` says how far a reader has come:
  while the stream is good it is in step with the lines, at the head of its loop
  (`AtHead`), behind a name (`AtName`) or within the rows of numbers (`AtRows`), and
  the lines behind it could be read (`SoundUpTo`). A setting is what the last of
  these lines that gives it says, or else what it was when the reader began
  (`Right`); for the decider, which reads the file twice, that may be what its first
  reading left, and a second changes nothing. An integer is read in base 16 only if a
  trigger bit came before it and the first cut did not come since (`BaseUpTo`),
  which `InOrder` excludes. A read that fails elsewhere than at the end of the file
  leaves a stream that never sees the end; so a reader that ends has read every
  line, but that the last may break off. From this `StartedMeansSound`
  (`StartsOnlyIfSound`) and `SettingsAsWritten` (`AsWritten`).
* `CaliClient_proofs`. The inductive invariant has six parts: types; `Places`
  (which thread can be at which label); `Singleton` (who has constructed what,
  and that at most the receive thread and the decider construct); `Inbound`
  (what is in a socket was posted to it, whole); `Locking` (who holds which
  mutex and what a struct holds while it is being assigned); `Settling` (once
  the decider has returned, what the pointer can still become). From it:
  `MakesOnce`, `MutualExclusion`, `NoTornResult` (together `Safety`),
  `NeverForgets` and the refinement of `CaliCell`.
* `EventTask_proofs`. The inductive invariant: what `process()` leaves in a
  buffer is the event's own for every detector whose bit is set (`InFlight`),
  the event counted last shares its calibration with the store
  (`SameCalibration`), the masks are those of the setup (`Masked`), run control
  does not act while an event is in flight (`Quiet`). From it `OwnData`,
  `OneCalibration` and, with what the algorithms compute on the event's own
  data, `Decided`.
* The same module, about `CaTracker`. `CaInv` adds to the types and
  `OwnHitsKept` that a hit that is marked is on a converted track that has it
  (`OnItsTrack`), and that a pair was fitted with hits of its own track, as many as
  it counts (`PairsLinked`). `CaTypeOK` says that the array is long enough: `Room`
  tests the length of a row before the cut, and the hits that are kept go to places
  of their own below it, by counting a set of indices in order. The hard step is
  `Convert`: the links are set while walking a track that shares hits with others,
  and the second fit walks the links. That the walk meets the track's own hits, in
  order and no other, is shown of the sequence of own hits, whose neighbours are
  linked. Two pairs have two tracks and a hit has one, so none is fitted twice
  (`FittedOnce`).
* The same module, about `FtfTracker`. `FtfInv` says that each track is a list
  threaded through the array (`TracksLinked`): from its first hit to its last, which
  links to none, inwards, one hit per row, and through all hits marked with it and
  no other. It does not speak of the order in which a list was made, so that it is
  kept when a hit is put at either end and when `deleteCandidate` walks the last
  track to free it; that this walk frees every hit, and `FillHits` writes every hit
  once, follows from the rows that descend. `Candidate` says that what is being
  built is the last track and that a segment is still above the innermost row.
  `EveryHitWrittenOnce` (`HitsAccounted`) is about what `FillHits` writes: every hit
  of the hypersector once, with the id of its track or 0. The walks and
  `FillHits` are recursive functions; that these have values is the lemma
  `Recursion`, and what holds of all values `UpTo`, both by the least number that
  has none (as in `MuonTelescope_proofs`).
* `TriggerDecider_proofs`. `OwnBanks` says of each bank that it is filled exactly
  if its algorithm accepted the event, and of each entry what it may be in this
  event (`Entries`). It is inductive together with `Once`: the bits
  set so far are of algorithms the loop has passed, and no two algorithms have
  one name, so none decides twice on an event and takes back a bank. For
  `MuonsDistinct` the invariant adds that a hit's track is matched to that hit
  (`MatchIsMutual`, from the existence of a nearest one in a set of numbers),
  that pairs in the bank come from two hits, and that the di-muon algorithm,
  earlier in the loop, saw the same hits (`Seen`). `Decision` is `Decided`, the
  same of the algorithms passed so far, with `Cuts`: a cut is that of the last
  trigger read that asks for it, which nothing changes once the event is being
  decided on. `TypeOK` adds `Counted`: an algorithm whose turn is to come has not
  been called for this event, so no counter overtakes the events. `Candidates`
  adds `Electrons`, what the bits of a pair claim is true of the nodes: a cell is
  never taken back while an event is decided on, and a tower is that of the lit
  towers with the highest energy, which every later di-electron algorithm finds
  again, since it is a function of the event. Only `decide_HeavyFragment` takes the
  towers of the global track; it comes after DiElectron and before
  DiElectron2Twr, whose own match finds the tower of its bits again. So the
  statement excepts the pairs of DiElectron with a track in the bank of heavy
  fragments, and says which tower these have (`Overwritten`).
* `SectorMerge_proofs`. `TypeOK` is inductive with one more fact, that there is a
  sector while tracks or hits are read. The hard step is `MergeTrack`: the track
  it writes is in the container because the first of the matches exists
  (`FirstIsOne`, from the least element of a set of numbers, three times), and
  at most `MaxTracks - 2` tracks are counted, so the slot beyond them, which
  `StoreTrack` writes and the getters reach, is in the array. `PairsTogether`
  is inductive when it is said of all slots, those beyond the tracks included,
  since a merge may extend a track that was dropped. `NoneLost` and
  `IndexNamesHolder` rest on `MInv`: no two tracks share a piece and what is in
  a track was read (`PiecesInv`), what is left of a sector was not (`Fresh`: the
  sectors ascend and each numbers its tracks), and container and index name the
  slot beyond the tracks only when the array is full (`Beyond`), after which it
  is counted no more; so a merge with a dropped track takes no piece from one
  that is kept. `HitsOnOwnTrack`, and with it `TracksSound`, holds whatever
  numbers and headers a sector brings. A header may state more tracks than the
  index has places for a sector (1250; a sector may bring 1500), and then a hit is
  looked up at a place of a later sector: but the sectors come in order and each
  brings its hits after its tracks, so what is found there was put there under
  that sector and number (`PlaceOfSector`, `SamePlace`). Two cases are excepted,
  each just where the code gives way: a hit looked up at the one place behind the
  index that the test lets pass (`BehindIndex`), and the ids of two tracks of which
  one is numbered `IdBase` (1000) or more (`Low`), since `sector * 1000 + id` is then
  that of a track of a later sector. The data of the run have both.
* `MuonTelescope_proofs`. `MatchesDistinct`: the nearest hit of a track is a
  function of the track, the nearest track of a hit a function of the hit, so
  the pairs that are left are one to one. `HInv` adds to it what makes `TypeOK`
  and `HitsSound`: an edge in the lists lies where its board and channel are
  wired (`EdgesWired`), the positions that fired are those of the two largest
  sums of the trigger words (`Words`, from `TopTwoIs`, an invariant of the scan
  of a board), a hit has the edges of the two ends of one strip (`Sent`, from
  the tables of `mtd_defs.h`: no two channels of a board are one strip,
  `StripsDiffer`, `OtherEnd`) and the sectors to track are those near a hit that
  fired (`MaskNearest`, on angles modulo 360 degrees). The scans are recursive
  functions; that these have values is the lemma `Recursion`, and what holds of
  all values `UpTo`, both by the least number that has none.
* `TofTask_proofs`. `MemInv` says who has the memory and what is in it: what the
  broker has copied, what is queued and what is read is all still there. It is
  inductive because at most one of the semaphore, the broker, the queue and
  the task is in possession, and an order of run control in the queue is no
  event. From it `OneHolder` and `ReadsOwnWords`, two parts of `HitsExact`.
  `Routed` rests on `Mounts`: if no instance was missing at the configuration
  the nth of them is n (by the cardinality of an interval), and a slot that is
  mounted again gets the port of its number. `HitsExact` itself rests on
  `HitsInv`: the lists of edges are those of the boards read so far
  (`Collected`, sorted if the boards are in order), and all pairs that the walk
  has passed and that match are hits (`Walked`). That the walk may pass an edge
  is the lemma of its three steps: with both lists sorted, no partner of the
  lesser of the two edges can come later.
* `Reconstruction_proofs`. `VertexSupported`, for any settings and events: the
  count of `makeVertex` is that of a set of tracks of the event in each
  iteration, however often it is given up or moved. `Base` is the collector at
  every stage: arrays within their sizes, and lists by module that name hits
  that are in the array, of this event if it has TOF data. `NodesInv` follows a
  node through `FillNodes`, the matches and the judgement of primaries, and
  counts the latter; `BanksInv` says that a bank is filled from the state that
  is sent; both give `BanksAgree`. `TimesInv`, with `VertexSupported`, gives
  `EventSound`: a time is there exactly if a hit of its side survived the cut,
  and the cut, which drops a hit far from the mean of the others, never drops
  the last one (`KeptIs`).

Model-checked only: liveness (`Answers`, `MuxReleased`, `TrackingEnds`,
`BrokerGoesOn`, `StartsIfSound`), which is out of the prover's reach, and the
violation. Every other property that a passing run checks is stated by a theorem.

## 5. What is abstracted

* Positions and gains are integers; a mean of lines is any value between the
  least and the greatest, exact when they agree; the fit of the dE/dx peak is a
  choice among scale factors. x and y of the beam line behave alike and are one
  number, and so are the inner and outer gain.
* A cut on kinematics is an attribute of the event (`passes`).
* `process()` and `finish()` are one step each. This is an assumption about the
  framework, which is outside the repository; the emulator runs the tasks on one
  thread and says that it "doesn't currently simulate multiple thread issues"
  (`emulate.C:13`). Two steps interleave only at their boundaries.
* In `TriggerDecider` momentum, energy and distance are small integers; whether
  a track is in a window of dE/dx, or a pair in a window of mass, is an
  attribute of the event. The hull of two windows tested before a match is
  taken to be their union; of the cuts of an algorithm one varies with the run
  (and the upper one of LowMult is a constant); arrays are unbounded.
* When the MTD flags of an event come from another one, whether muon candidates
  are found is a choice (`luck`).
* Run control (`RunControlClass`, `l4Interface`, outside the repository) is
  taken to stop a run before it configures the next, to configure all tasks of
  a node before it starts events, and to stop when no event is in flight; the
  drivers `hltCaliServer.C`, `emulate.C` and `l4Emulator.C` do so.
* The kernel's socket buffer is short: a datagram for a full or missing socket
  is lost.
* `FtfTracker`: chi square, extrapolation and the energy loss decide nothing but
  which hit in reach is taken and whether a track is kept; both are choices.
* `CaTracker`: the cellular automaton is a library outside the repository; it
  may find any of a set of patterns. Every track that is kept gets a second fit,
  so a pair without a primary track does not arise on this path.
* `SectorMerge`: two pieces are close if they are of one helix. The collector's
  branch for a bank without room cannot be reached, since the size of a bank
  bounds the tracks in it.
* `MuonTelescope`: whether the test of a module without QT board passes, which reads
  what lies before the array, is a choice (`before`); lengths are in mm, angles in
  hundredths of a degree; the difference
  of two angles of a match is not wrapped, as in the code. The tables of the
  boards on no module and of the modules with no QT board coincide, and each of
  the four boards of a tdcid has three chips. `readFromMcEvent` is left out.
* `TofTask`: the corrections of a hit (non-linearity, delays, slewing) are left
  out and its hits are a set; the cuts of tray 124 are any window; the memory is a
  word sequence per board. `RUN13GMT`
  is set by the Makefile (`src/L4_HLT/Makefile:145`) and on in the run.
* `Reconstruction`: a bin is a unit wide; the weight of a peak is never 0, so the
  branch for it is not taken; a TOF bank holds at most as many hits as the array
  (`gl3TOF.cxx:680` can lose nothing while the task writes it).
* `Parameters`: one name stands for all that are read alike; a word is either a
  number or a name; the range of `listenPort` is left out. `FtfDedx` has a reader
  that nobody calls. The collector's settings that no line gives are `Unset`: its
  constructor sets some of them only.

## 6. Where code and comment disagree

`EventTaskTof` shows that tracks of an event without TOF data match the cells of
the event before: `gl3TOF::reset` clears the number of hits but not the lists by
module (`gl3TOF.cxx:719`), although `Event_start` is "called before an event i.e.
for some cleanup" (`hlt_entity.h:115`).

Seen while modelling, and part of the models although no run is given to them:

* the calibration loop: a message that a stop falls on may leave its run number in
  the files without its vertex (`L4_Server.cxx:233`, `half` in `CalibStore`); a
  broadcast before the first INIT carries gains nobody
  wrote (`L4_Server.cxx:242`, `Junk` in `SendInfo`; `WritesSound` says that it ends
  with the first INIT); events before the first answer are reconstructed with
  unwritten memory (`L4HLTTask_cpu.cxx:237`; `NeverForgets` says that it ends with
  the first result); the decider and the receive thread may make two clients, the
  INIT leaves from one socket and the thread waits on the other
  (`hltCaliClient.cxx:76`, `Construct`); a late or repeated datagram replaces a
  newer result, there is no sequence number (`hltCaliClient.cxx:129`); a CALB of
  an earlier run moves the beam line of the next (`L4_Server.cxx:225`); the
  broadcast period is 100 messages where a comment says 1000
  (`L4_Server.cxx:246`); configureRun twice without stopRun deletes the object
  under its thread (`L4ServerTask.cxx:20`), which run control is taken not to do;
* the bank of UPC di-electrons, a "di-electron pair bank" (`HLTFormats.h:189`): every
  pair is stored at the position counted by the bank of DiElectron
  (`gl3TriggerDecider.cxx:2772`), so of the positions that the bank counts at most
  one holds a pair of the event, and the others what earlier events left there, or
  nothing. `OwnBanks` says of this bank just that (`UPCPairKept`);
* the decision: the di-muon algorithm reads through NULL in an event without MTD
  data (`gl3TriggerDecider.cxx:2801`, `Crash`); a pair of DiElectron whose
  electron is also a heavy fragment goes out with the tower of the global track,
  not the one it was selected by (`:2109`, `Overwritten`); UPCDiElectron uses
  the cuts of DiElectron on tower energy, p/E and leading momentum (`:2684`,
  `:2735`); decide_LowMult returns when it is switched on (`:2444`, `Enabled`);
  decide_MTDDiMuon uses no cut that run control sets for it; banks of 1000 pairs
  are filled without a bound (`:1874`); a scale of 0 divides by zero (`:2198`);
* the muon telescope: trigger words survive an event and flag the hits of a next
  one without trigger data or QT boards (`mtd_hlt_reader.cxx:862`), which is why
  `Decided` asks for both; `matchMTD` uses a pointer before it tests it;
* tray 124: a trayid is "1,2,......,120,for tray, 121, 122 for upvpd"
  (`tof_hlt_sector.h:54`), and the test lets 124 pass (`tof_hlt_sector.cxx:259`). Its
  edges index the table of boards of 120 trays (`:307`) and the cuts of 122 (`:486`)
  behind their ends. In the layout of the class what lies there are members that
  follow, so that the board is a wrong one and the window is of numbers that are no
  cuts; `Tray` has it, `TypeOK` and `HitsExact` hold with any cut for it. A hit that
  passes is sent as of tray 123, and GL3 drops a cell of a tray from 122 on
  (`gl3TOF.cxx:672`);
* the TOF task: an event that is queued behind the stop of its run is dropped and
  its memory never given back (`daq_hlt_tof.cxx:274`, `BrokerGoesOn` excepts it);
  a slot that is mounted again gets the port of its own number, another instance
  than before if one was skipped (`:546`, `Routed` excepts it); an edge of a board
  that a tray does not have is taken with the channel of the edge before it, or an
  uninitialised one (`tof_hlt_sector.cxx:291`); 10000 hits are not tested for
  (`:405`); trays out of order lose hits (`:393`, `InOrder` in `NoHitMissed`);
* the collector: the getters let the count pass as an index
  (`online_tracking_collector.cxx:708`); the test of the index of tracks lets one
  place too many pass (`:1770`, `gl3Event.cxx:761`), and the ids of tracks numbered
  1000 or more are those of tracks of a later sector (`HitsOnOwnTrack` excepts
  both); a vertex that is given up after an
  iteration leaves the count of that iteration beside a vertex at -999, and the
  server, which looks at the count, blends it in if it is above 50 (`:2168`);
  the last candidate of `Tstart_NoVpd` may be lost by rounding;
* with two events in flight `finish()` numbers an event with the counter of the
  last one processed and uses its gains (`L4HLTTask_cpu.cxx:496`), which
  `OneCalibration` excepts; the cuts are shared with an event in flight (`:272`);
* the parameters: a word that is no number where one is due keeps a reader in its
  loop for ever, which ends at the end of the file only (`gl3TriggerDecider.cxx:553`,
  `StartsIfSound`); the base of a trigger bit stays for the integers after it
  until nHitsCut_highPt (`:571`, `InOrder` in `AsWritten`); triggerOnMTDQuarkonium
  and DiElectron2Twr cannot be switched from the file; what `setQA` prints as
  "name = value" cannot be read back.

## 7. What is left

The plan of this project is done but for what follows, which is left for the
reason given.

* `CalibLoop`, server and clients composed over UDP. Each side is proved against
  what the other may send: the server for any CALB, the client for any sequence
  of results, lost, late or repeated. What the composition would add is the span
  of the beam line at a node; it is the server's (`BeamlineInSpan`) since a
  client stores results whole and changes none (`ImplementsCell`).
* The decoding of L3 banks in the collector, and the QA output.

## 8. Not modelled

* Track fits, vertex fits, energy loss tables, coordinate transformations: they
  are floating-point formulae with no state and no order of steps. The vertex
  finders of their own (`online_tracking_vertex`, `gl3LMVertexFinder`) are called
  by nobody on the CPU path.
* The byte layouts of recorded data (`l3TrgReader*`, `l3BankUtils`, `l3Swap`).
* The offline drivers, except as the order of calls that run control is taken to
  follow.
* The coprocessor code: its other side is outside the repository.
* The earlier single-process task, whose source calls functions that no longer
  exist and is in no list of objects of the Makefile.

`PROJECT.json` lists each with its reason.
