------------------------------- MODULE MCInput -------------------------------
(* The ways a session is started that differ in which road an input takes.   *)
EXTENDS Input

Mode(kb, ms, camera, inject, repeats) ==
  [keyboard |-> kb, mouse |-> ms, control |-> TRUE, camera |-> camera,
   inject |-> inject, repeats |-> repeats, otg |-> FALSE]

MCModes == {
  Mode("sdk", "sdk", FALSE, "mixed", TRUE),
  Mode("sdk", "sdk", FALSE, "text", FALSE),
  Mode("uhid", "uhid", FALSE, "mixed", TRUE),
  Mode("sdk", "sdk", TRUE, "mixed", TRUE),
  Mode("uhid", "uhid", TRUE, "mixed", TRUE),
  [Mode("sdk", "sdk", FALSE, "mixed", TRUE) EXCEPT !.control = FALSE],
  Mode("aoa", "uhid", FALSE, "mixed", TRUE),
  [Mode("sdk", "sdk", FALSE, "mixed", TRUE) EXCEPT !.otg = TRUE] }
=============================================================================
