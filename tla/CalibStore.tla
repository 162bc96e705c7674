------------------------------ MODULE CalibStore ------------------------------
(***************************************************************************)
(* What the calibration server promises about the beam line, without       *)
(* threads, sockets or objects: a run starts from what the file recalls,   *)
(* learns from one report after another until it is closed, and then       *)
(* leaves one line behind, or none when it is aborted.  A report is a run  *)
(* number and a vertex.  Between two reports both are those of the same    *)
(* reports; a run may be closed in the middle of one, whose number is then *)
(* in the line and whose vertex is not.                                    *)
(***************************************************************************)
EXTENDS Integers, Sequences

CONSTANTS
  Position,      \* beam-line values
  Vertex,        \* the vertex positions that can be reported
  Unset,         \* the value of a beam line between runs
  Recall(_),     \* the values a run may start from, given the stored lines
  Average(_, _)  \* a value after one more vertex

VARIABLES
  phase,   \* "off", "on", or "closed": nothing is learned any more
  half,    \* the number of a report is noted, its vertex not yet looked at
  value,   \* the beam line of the run
  run,     \* the run number last noted in this run
  store    \* the lines of the beam-line file

storeVars == <<phase, half, value, run, store>>

Begin == /\ phase = "off"
         /\ phase' = "on" /\ half' = FALSE
         /\ value' \in Recall(store)
         /\ run' = 0
         /\ UNCHANGED store

Note == /\ phase = "on" /\ ~half
        /\ half' = TRUE
        /\ run' \in Nat
        /\ UNCHANGED <<phase, value, store>>

(* The vertex of a report: of the one that was noted, or of a new one.     *)
Learn == /\ phase = "on"
         /\ half' = FALSE
         /\ IF half THEN run' = run ELSE run' \in Nat
         /\ value' \in {value} \cup {Average(value, v) : v \in Vertex}
         /\ UNCHANGED <<phase, store>>

Close == /\ phase = "on"
         /\ phase' = "closed" /\ half' = FALSE
         /\ UNCHANGED <<value, run, store>>

(* The line holds what the run had learned when it was closed.             *)
End == /\ phase = "closed"
       /\ phase' = "off"
       /\ store' = Append(store, [run |-> run, pos |-> value])
       /\ value' = Unset
       /\ run' = 0
       /\ UNCHANGED half

Abort == /\ phase = "closed"
         /\ phase' = "off"
         /\ value' = Unset
         /\ run' = 0
         /\ UNCHANGED <<half, store>>

StoreInit == /\ phase = "off" /\ half = FALSE
             /\ value = Unset
             /\ run = 0
             /\ store \in Seq([run : Nat, pos : Position])

StoreNext == Begin \/ Note \/ Learn \/ Close \/ End \/ Abort

StoreSpec == StoreInit /\ [][StoreNext]_storeVars

=============================================================================
