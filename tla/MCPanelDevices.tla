---------------------------- MODULE MCPanelDevices ----------------------------
(* Devices, scanning threads and profiles differ in nothing but their names. *)
EXTENDS PanelDevices, TLC

Alike == Permutations(Serials) \cup Permutations(Scans) \cup Permutations(Profiles)
===============================================================================
