---------------------------- MODULE MC_CaliClient ----------------------------
(* An instance of CaliClient: one worker beside the receive thread and main. *)
EXTENDS CaliClient
CONSTANT w1
MCWorker == {w1}
=============================================================================
