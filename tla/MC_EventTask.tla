---------------------------- MODULE MC_EventTask ----------------------------
(* Instances of EventTask for TLC. *)
EXTENDS EventTask, TLC
CONSTANT t1

Triggers == {t1}
A(has, btowOk, qtOk, passes) ==
  [has |-> has, btowOk |-> btowOk, qtOk |-> qtOk, l2 |-> Triggers, passes |-> passes]

(* Everything, passing all cuts or none; nothing; truncated towers; tracks *)
(* without TOF or MTD; muons without trigger data; trigger data and MTD    *)
(* hits without tracks or QT boards; and an event that fired no trigger.   *)
Mixed == {A(Detector, TRUE, TRUE, Algorithm),
          A(Detector, TRUE, TRUE, {}),
          A({}, TRUE, FALSE, {}),
          A({"BTOW", "TPX"}, FALSE, FALSE, {}),
          A({"BTOW", "TPX"}, TRUE, FALSE, {"HighPt"}),
          A({"TOF", "MTD", "TPX"}, TRUE, FALSE, {"MTDDiMuon"}),
          A({"TRG", "MTD"}, TRUE, FALSE, Algorithm),
          [A(Detector, TRUE, TRUE, Algorithm) EXCEPT !.l2 = {}]}

(* The buffers are alike. *)
Buffers == Permutations(Slot)
=============================================================================
