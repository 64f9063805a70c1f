---------------------------- MODULE MCMirrorPath ----------------------------
(***************************************************************************)
(* A small mirror: two sizes, each the other one turned, and two APIs.     *)
(* The hardware decoder, the V4L2 sink and --flex-display are tried one at *)
(* a time, each with the rest of the loop: they share no state but the     *)
(* display's size, which changes in all three.                             *)
(***************************************************************************)
EXTENDS MirrorPath

MCSizes == {"wide", "tall"}
MCTurn == [s \in MCSizes |-> IF s = "wide" THEN "tall" ELSE "wide"]
MCApis == <<"vaapi", "cuda">>

MCInit ==
  /\ Init
  /\ display = "wide"
  /\ Cardinality(whims) <= 1
  /\ flag # "vaapi" /\ opened \in {Cpu, flag, "vaapi"}
  /\ flex => sink = "none"
  /\ IF flex \/ sink # "none"
     THEN whims = {} /\ flag = "disabled" /\ codec = "h264"
     ELSE whims # {} /\ windowless

MCSpec == MCInit /\ [][Next]_vars /\ Fairness
=============================================================================
