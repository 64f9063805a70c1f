------------------------ MODULE MCServerConnection ------------------------
(* A wired device and a wireless one; command lines that differ from the     *)
(* plain one in what the start looks at.                                     *)
EXTENDS ServerConnection

CONSTANTS usb, tcp

Plain == [list |-> FALSE, streams |-> {"video", "audio"}, requireAudio |-> FALSE,
          audioDup |-> FALSE, source |-> "none", hwdecKnown |-> TRUE, serial |-> NoSerial,
          tcpip |-> NoSerial, usb |-> FALSE, tcp |-> FALSE, env |-> NoSerial, jar |-> TRUE,
          force |-> FALSE, remote |-> FALSE, noCleanup |-> FALSE]

MCOptionSets == {
  [Plain EXCEPT !.streams = {"video", "audio", "control"}, !.env = tcp],
  [Plain EXCEPT !.usb = TRUE, !.noCleanup = TRUE],
  [Plain EXCEPT !.tcp = TRUE, !.force = TRUE, !.streams = {"audio", "control"},
                !.requireAudio = TRUE],
  [Plain EXCEPT !.tcpip = tcp, !.streams = {}],
  [Plain EXCEPT !.remote = TRUE, !.streams = {"video", "audio", "control"}],
  [Plain EXCEPT !.serial = tcp, !.usb = TRUE],
  [Plain EXCEPT !.audioDup = TRUE, !.source = "other"],
  [Plain EXCEPT !.list = TRUE, !.usb = TRUE, !.tcp = TRUE]}
===========================================================================
