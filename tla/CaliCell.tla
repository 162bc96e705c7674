------------------------------- MODULE CaliCell -------------------------------
(***************************************************************************)
(* What hltCaliClient promises its process: a cell for the last result the *)
(* server sent, written and read as a whole.  GetInstance may make more    *)
(* than one object, so there is a cell per object; every copy a worker     *)
(* takes is the whole content of one of them.                              *)
(***************************************************************************)
CONSTANTS Object,  \* the hltCaliClient objects there can be
          Worker,  \* the event tasks of the process
          Result,  \* values of an hltCaliResult
          Blank    \* one nobody has written

VARIABLES posted,  \* results sent to the socket of an object
          cell,    \* caliResult of each object
          copy     \* hlt_cfg.hltInitCaliData of each worker
vars == <<posted, cell, copy>>

CellInit ==
  /\ posted = {}
  /\ cell = [o \in Object |-> Blank]
  /\ copy = [w \in Worker |-> Blank]

(* The server sends a result to the socket of an object. *)
Post(o, r) ==
  /\ posted' = posted \cup {[to |-> o, data |-> r]}
  /\ UNCHANGED <<cell, copy>>

(* RecvCaliResult stores a result that was sent to its object: possibly    *)
(* again, possibly not the newest one.                                     *)
Store(d) ==
  /\ d \in posted
  /\ cell' = [cell EXCEPT ![d.to] = d.data]
  /\ UNCHANGED <<posted, copy>>

(* CopyCaliResult. *)
Copy(w, o) ==
  /\ copy' = [copy EXCEPT ![w] = cell[o]]
  /\ UNCHANGED <<posted, cell>>

(* sendConfig of the event tasks clears hlt_cfg. *)
Clear ==
  /\ copy' = [w \in Worker |-> Blank]
  /\ UNCHANGED <<posted, cell>>

CellNext ==
  \/ \E o \in Object, r \in Result : Post(o, r)
  \/ \E d \in posted : Store(d)
  \/ \E w \in Worker, o \in Object : Copy(w, o)
  \/ Clear

CellSpec == CellInit /\ [][CellNext]_vars
=============================================================================
