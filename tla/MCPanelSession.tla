---------------------------- MODULE MCPanelSession ----------------------------
(* Forms that differ in which parts a session gets.                          *)
EXTENDS PanelSession

MCForms == {
  [video |-> TRUE, control |-> TRUE, camera |-> FALSE, uhid |-> TRUE, gamepad |-> TRUE,
   limit |-> FALSE],
  [video |-> TRUE, control |-> FALSE, camera |-> TRUE, uhid |-> TRUE, gamepad |-> TRUE,
   limit |-> TRUE],
  [video |-> FALSE, control |-> TRUE, camera |-> FALSE, uhid |-> FALSE, gamepad |-> FALSE,
   limit |-> FALSE]}

MCMoves == {
  [what |-> "press", of |-> "left"], [what |-> "release", of |-> "left"],
  [what |-> "press", of |-> "right"], [what |-> "axis", to |-> -1],
  [what |-> "stick", to |-> 3]}

MCMachines == {{"audio", "uhid", "gamepads"}, {}}
===============================================================================
