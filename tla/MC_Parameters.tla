---------------------------- MODULE MC_Parameters ----------------------------
(* Instances of Parameters for TLC: all files of up to three lines of      *)
(* those below, and some longer ones.                                      *)
EXTENDS Parameters, TLC

MCDec == ("1" :> 1) @@ ("15" :> 15) @@ ("12" :> 12) @@ ("20" :> 20)
MCHex == ("1" :> 1) @@ ("15" :> 21) @@ ("12" :> 18) @@ ("20" :> 32)

Line == {<<"triggerBitHighPt", "20">>, <<"nHitsCut_highPt", "15">>, <<"nHitsCut_diElectron", "12">>,
         <<"sigmaDedx1", "15">>, <<"updateBeamline", "20">>,
         <<"scalerToUse", "1", "comment">>, <<"matchAllEMC", "=", "1">>,
         <<"rowSpaceCharge", "1", "15", "12", "20">>, <<"rowSpaceCharge", "1", "15", "12">>}

Lines == UNION {[1..n -> Line] : n \in 0..3}
Longer == {
  <<<<"spaceChargeP0", "12">>, <<"triggerBitHighPt", "1">>, <<"nHitsCut_highPt", "15">>,
    <<"nHitsCut_diElectron", "12">>, <<"triggerOnHighPt", "1">>, <<"listenPort", "20">>>>,
  <<<<"triggerOnHighPt", "1">>, <<"spaceChargeP0", "12">>, <<"listenPort">>>>}

MCFile ==
  {[found |-> TRUE, lines |-> ls, newline |-> b] : ls \in Lines \cup Longer, b \in BOOLEAN}
  \cup {[found |-> FALSE, lines |-> <<>>, newline |-> TRUE]}
=============================================================================
