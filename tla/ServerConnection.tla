-------------------------- MODULE ServerConnection --------------------------
(***************************************************************************)
(* How a session reaches its server (session/mod.rs, Session::start, with  *)
(* session/startup.rs, adb/commands.rs, adb/tunnel.rs, adb/protocol.rs and *)
(* server/connection.rs): options that contradict each other are refused,  *)
(* a device is chosen, the server is pushed, a tunnel is opened, reverse   *)
(* if it can be and forward if not, the server is started in a shell, and  *)
(* one socket per stream is accepted from it or connected to it.  All of   *)
(* it is one thread, which blocks at every step.                           *)
(*                                                                         *)
(* Beside it run the server on the device, which opens its sockets in the  *)
(* order video, audio, control; the thread that reads the server's shell,  *)
(* whose end is how the client knows the server has gone; and a desk where *)
(* other programs take and leave ports, devices are unplugged, and the     *)
(* server dies or hangs.  They are external, as the client sees them.      *)
(*                                                                         *)
(* A connection is a number.  In forward mode adb accepts a connection     *)
(* whether or not the server listens; one that is made while it does waits *)
(* in the server's backlog, and stays there when the client gives it up.   *)
(***************************************************************************)
EXTENDS Integers, Sequences, FiniteSets, FiniteSetsExt, SequencesExt

CONSTANTS
  Serials,      \* the devices
  TcpSerials,   \* those of them that are host:port
  NoSerial,
  Ports,        \* the range of --port
  OptionSets,   \* the command lines
  MaxAttempts   \* connect_and_read_dummy_byte and connect_to_server_at try a hundred times

ASSUME ServerConnectionAssumption ==
  /\ TcpSerials \subseteq Serials /\ NoSerial \notin Serials
  /\ IsFiniteSet(Ports) /\ Ports = 1..Cardinality(Ports)
  /\ MaxAttempts \in Nat \ {0}
  /\ OptionSets \subseteq
       [streams : SUBSET {"video", "audio", "control"}, source : {"none", "other"},
        serial : Serials \cup {NoSerial}, tcpip : Serials \cup {NoSerial},
        env : Serials \cup {NoSerial}, usb : BOOLEAN, tcp : BOOLEAN, list : BOOLEAN,
        requireAudio : BOOLEAN, audioDup : BOOLEAN, hwdecKnown : BOOLEAN, jar : BOOLEAN,
        force : BOOLEAN, remote : BOOLEAN, noCleanup : BOOLEAN]

VARIABLES
  opts,       \* the command line and $ANDROID_SERIAL
  bus,        \* what adb lists, each device with its state
  busy,       \* ports other programs have
  pc, why,    \* where the start is, and what it failed of
  serial,     \* the device chosen
  road,       \* the tunnel being tried, then the one that opened
  port,       \* the port being tried, then the tunnel's
  listener,   \* the port this client listens on, or 0
  reversed,   \* the port the device's reverse tunnel leads to, or 0
  forwarded,  \* the port adb forwards for this client, or 0
  running,    \* the streams that were started, and whether the audio's is "silent"
  shell,      \* the shell: none, open, ended (by the server), shut (by the client), closed
  sockets,    \* the connections the client has, in order
  trying,     \* the connection that waits for the dummy byte, or 0
  attempts,   \* attempts at the socket being connected
  made,       \* connections made so far
  server,     \* off, starting, listening, connecting, serving, hung, gone
  backlog,    \* connections that wait to be accepted
  opened,     \* the sockets of the server, in order
  served,     \* the device's name is on its way
  fault       \* history: something went wrong that the client has no part in

clientVars == <<opts, pc, why, serial, road, port, listener, sockets, trying, attempts, made>>
serverVars == <<server, backlog, opened, served>>
vars == <<clientVars, running, serverVars, bus, busy, reversed, forwarded, shell, fault>>

Init ==
  /\ opts \in OptionSets
  /\ bus \in [Serials -> {"absent", "unauthorized", "device"}]
  /\ busy \in SUBSET Ports
  /\ pc = "options" /\ why = "nothing" /\ serial = NoSerial
  /\ road = "none" /\ port = 0
  /\ listener = 0 /\ reversed = 0 /\ forwarded = 0
  /\ running = {} /\ shell = "none"
  /\ sockets = << >> /\ trying = 0 /\ attempts = 0 /\ made = 0
  /\ server = "off" /\ backlog = << >> /\ opened = << >> /\ served = FALSE
  /\ fault = FALSE

Only(s) == IF s \in opts.streams THEN <<s>> ELSE << >>
Wanted == Only("video") \o Only("audio") \o Only("control")
HasEnded == shell \in {"ended", "closed"}
Present == bus[serial] = "device"

-----------------------------------------------------------------------------
(* Leaving.  What was opened is closed as its owner is dropped: the sockets, *)
(* the listener, the shell, whose socket is shut down, and the tunnel.       *)
ShellDropped_LetGo == shell
ShellDropped == CASE shell = "open" -> "shut" [] shell = "ended" -> "closed" [] OTHER -> shell

TunnelDropped ==
  /\ reversed' = IF road = "reverse" THEN 0 ELSE reversed
  /\ forwarded' = IF road = "forward" THEN 0 ELSE forwarded

DropAll ==
  /\ listener' = 0
  /\ sockets' = << >>
  /\ trying' = 0
  /\ shell' = ShellDropped
  /\ TunnelDropped

Leave(reason) ==
  /\ pc' = "over"
  /\ why' = reason
  /\ DropAll
  /\ UNCHANGED <<opts, bus, busy, running, serial, road, port, attempts, made, serverVars>>

-----------------------------------------------------------------------------
(* The options.  A query (--list-...) is not a session and makes none of     *)
(* these refusals.                                                           *)
Selectors ==
  {s \in {"serial", "tcpip", "usb", "tcp"} :
     CASE s = "serial" -> opts.serial # NoSerial
       [] s = "tcpip" -> opts.tcpip # NoSerial
       [] s = "usb" -> opts.usb
       [] s = "tcp" -> opts.tcp}

AudioContradicts ==
  LET audio == "audio" \in opts.streams IN
  \/ opts.requireAudio /\ ~audio
  \/ opts.audioDup /\ (~audio \/ opts.source = "other")

Contradictory == AudioContradicts \/ ~opts.hwdecKnown \/ Cardinality(Selectors) > 1

ReadOptions ==
  /\ pc = "options"
  /\ \/ ~opts.list /\ Contradictory /\ Leave("options") /\ UNCHANGED fault
     \/ /\ opts.list \/ ~Contradictory
        /\ pc' = "tcpip"
        /\ UNCHANGED <<opts, why, serial, road, port, listener, sockets, trying, attempts, made,
                       serverVars, bus, busy, running, reversed, forwarded, shell, fault>>

(* connect_tcpip_if_requested: adb connect may fail, and the start goes on.  *)
ConnectTcpip ==
  /\ pc = "tcpip"
  /\ pc' = "select"
  /\ \/ opts.tcpip # NoSerial /\ bus' = [bus EXCEPT ![opts.tcpip] = "device"]
     \/ UNCHANGED bus
  /\ UNCHANGED <<opts, why, serial, road, port, listener, sockets, trying, attempts, made,
                 serverVars, busy, running, reversed, forwarded, shell, fault>>

(* select_device_filtered.                                                   *)
DeviceFilter ==
  CASE opts.usb /\ ~opts.tcp -> Serials \ TcpSerials
    [] opts.tcp /\ ~opts.usb -> TcpSerials
    [] OTHER -> Serials

NamedSerial ==
  IF opts.serial # NoSerial THEN opts.serial
  ELSE IF opts.tcpip # NoSerial THEN opts.tcpip
  ELSE IF opts.usb = opts.tcp THEN opts.env ELSE NoSerial

ReadyDevices == {s \in Serials : bus[s] = "device"}

SelectDevice ==
  /\ pc = "select"
  /\ \/ /\ serial' \in IF NamedSerial # NoSerial THEN {NamedSerial}
                       ELSE LET accepted == ReadyDevices \cap DeviceFilter IN
                            IF Cardinality(accepted) = 1 THEN accepted ELSE {}
        /\ pc' = "push"
        /\ UNCHANGED <<opts, why, road, port, listener, sockets, trying, attempts, made,
                       serverVars, bus, busy, running, reversed, forwarded, shell, fault>>
     \/ /\ NamedSerial = NoSerial
        /\ Cardinality(ReadyDevices \cap DeviceFilter) # 1
        /\ Leave("device")
        /\ UNCHANGED fault

(* resolve_server_path and the push; a query is asked here and is over.      *)
FirstRoad == IF opts.force \/ opts.remote THEN "forward" ELSE "reverse"

Push ==
  /\ pc = "push"
  /\ \/ Leave("push") /\ fault' = TRUE
     \/ opts.list /\ opts.jar /\ Present /\ Leave("listed") /\ UNCHANGED fault
     \/ /\ ~opts.list /\ opts.jar /\ Present
        /\ pc' = "tunnel"
        /\ road' = FirstRoad
        /\ UNCHANGED <<opts, why, serial, port, listener, sockets, trying, attempts, made,
                       serverVars, bus, busy, running, reversed, forwarded, shell, fault>>

-----------------------------------------------------------------------------
(* The tunnel.  open_reverse walks the ports this client can listen on and   *)
(* keeps the listener while the device is asked.                             *)
Listening(p) == p

Bindable == {p \in Ports : p > port /\ p \notin busy}

BindReverse ==
  /\ pc = "tunnel" /\ road = "reverse"
  /\ IF Bindable # {}
     THEN LET p == Min(Bindable) IN
          /\ port' = p
          /\ listener' = Listening(p)
          /\ pc' = "asking"
          /\ UNCHANGED road
     ELSE /\ road' = "forward"
          /\ port' = 0
          /\ UNCHANGED <<listener, pc>>
  /\ UNCHANGED <<opts, why, serial, sockets, trying, attempts, made, serverVars, bus, busy, running,
                 reversed, forwarded, shell, fault>>

(* Two answers, the daemon's and the device's.  No second answer is taken    *)
(* for a yes, whether it was one or not.                                     *)
ReverseAnswers ==
  /\ pc = "asking"
  /\ \/ /\ Present
        /\ reversed' = port
        /\ pc' = "shell"
        /\ UNCHANGED <<listener, fault>>
     \/ /\ pc' = "shell"
        /\ fault' = TRUE
        /\ UNCHANGED <<listener, reversed>>
     \/ /\ listener' = 0
        /\ pc' = "tunnel"
        /\ UNCHANGED <<reversed, fault>>
  /\ UNCHANGED <<opts, why, serial, road, port, sockets, trying, attempts, made, serverVars,
                 bus, busy, running, forwarded, shell>>

Forward ==
  /\ pc = "tunnel" /\ road = "forward"
  /\ IF port + 1 \notin Ports THEN Leave("ports") /\ UNCHANGED fault
     ELSE /\ port' = port + 1
          /\ \/ port' \notin busy /\ Present /\ forwarded' = port' /\ pc' = "shell"
             \/ UNCHANGED <<pc, forwarded>>
          /\ UNCHANGED <<opts, why, serial, road, listener, sockets, trying, attempts, made,
                         serverVars, bus, busy, running, reversed, shell, fault>>

(* The server is told which way the tunnel runs.                             *)
Told_TheFlag == FirstRoad
Told == road

StartServer ==
  /\ pc = "shell"
  /\ \/ Leave("shell") /\ fault' = TRUE
     \/ /\ Present
        /\ shell' = "open"
        /\ server' = "starting"
        /\ pc' = "sockets"
        /\ UNCHANGED <<opts, why, serial, road, port, listener, sockets, trying, attempts, made,
                       backlog, opened, served, bus, busy, running, reversed, forwarded, fault>>

-----------------------------------------------------------------------------
(* connect_sockets.                                                          *)
Waiting == pc = "sockets" /\ Len(sockets) < Len(Wanted)
OnItsWay == server \in {"starting", "connecting"} \/ (server = "listening" /\ backlog # << >>)

NoStreams ==
  /\ pc = "sockets" /\ Wanted = << >>
  /\ Leave("no streams")
  /\ UNCHANGED fault

AllConnected ==
  /\ pc = "sockets" /\ Wanted # << >> /\ Len(sockets) = Len(Wanted)
  /\ pc' = "info"
  /\ UNCHANGED <<opts, why, serial, road, port, listener, sockets, trying, attempts, made,
                 serverVars, bus, busy, running, reversed, forwarded, shell, fault>>

(* accept_with_timeout: what has come is taken, though the server is gone.   *)
Accept ==
  /\ Waiting /\ road = "reverse" /\ listener # 0
  /\ backlog # << >>
  /\ sockets' = Append(sockets, Head(backlog))
  /\ backlog' = Tail(backlog)
  /\ UNCHANGED <<opts, pc, why, serial, road, port, listener, trying, attempts, made, server,
                 opened, served, bus, busy, running, reversed, forwarded, shell, fault>>

AcceptGivesUp ==
  /\ Waiting /\ road = "reverse" /\ backlog = << >>
  /\ Leave(IF HasEnded THEN "exited" ELSE "timeout")
  /\ fault' = (fault \/ OnItsWay)

(* An attempt that came to nothing.                                          *)
AttemptFails_Unasked ==
  /\ attempts' = attempts + 1
  /\ trying' = 0
  /\ UNCHANGED <<opts, pc, why, serial, road, port, listener, sockets, made, serverVars, bus,
                 busy, running, reversed, forwarded, shell>>
AttemptFails ==
  IF HasEnded THEN Leave("exited")
  ELSE /\ attempts' = attempts + 1
       /\ trying' = 0
       /\ UNCHANGED <<opts, pc, why, serial, road, port, listener, sockets, made, serverVars,
                      bus, busy, running, reversed, forwarded, shell>>

CanTry == Waiting /\ road = "forward" /\ trying = 0 /\ attempts < MaxAttempts
IsFirst == sockets = << >>

(* A connect, which adb takes for as long as it forwards the port.           *)
ConnectRefused ==
  /\ CanTry /\ forwarded = 0
  /\ AttemptFails
  /\ UNCHANGED fault

ConnectFirst ==
  /\ CanTry /\ IsFirst /\ forwarded # 0
  /\ \/ server # "listening" /\ AttemptFails /\ UNCHANGED fault
     \/ /\ server = "listening"
        /\ made' = made + 1
        /\ trying' = made'
        /\ backlog' = Append(backlog, made')
        /\ UNCHANGED <<opts, pc, why, serial, road, port, listener, sockets, attempts, server,
                       opened, served, bus, busy, running, reversed, forwarded, shell, fault>>

ConnectNext ==
  /\ CanTry /\ ~IsFirst /\ forwarded # 0
  /\ made' = made + 1
  /\ sockets' = Append(sockets, made')
  /\ attempts' = 0
  /\ backlog' = IF server = "listening" THEN Append(backlog, made') ELSE backlog
  /\ UNCHANGED <<opts, pc, why, serial, road, port, listener, trying, server, opened, served,
                 bus, busy, running, reversed, forwarded, shell, fault>>

(* The server writes the byte on the first socket it accepts.                *)
HasByte(c) == opened # << >> /\ opened[1] = c

ByteArrives ==
  /\ Waiting /\ trying # 0
  /\ HasByte(trying)
  /\ sockets' = <<trying>>
  /\ trying' = 0
  /\ attempts' = 0
  /\ UNCHANGED <<opts, pc, why, serial, road, port, listener, made, serverVars, bus, busy, running,
                 reversed, forwarded, shell, fault>>

(* The read comes to its deadline, or the other end has closed.              *)
ByteTimesOut ==
  /\ Waiting /\ trying # 0
  /\ ~HasByte(trying)
  /\ fault' = (fault \/ OnItsWay)
  /\ AttemptFails

ConnectGivesUp ==
  /\ Waiting /\ road = "forward" /\ trying = 0 /\ attempts = MaxAttempts
  /\ Leave("timeout")
  /\ fault' = (fault \/ server \in {"starting", "listening"})

(* read_device_info, which has no deadline.                                  *)
ReadInfo ==
  /\ pc = "info"
  /\ \/ /\ served
        /\ pc' = "streams"
        /\ listener' = 0
        /\ UNCHANGED <<opts, why, serial, road, port, sockets, trying, attempts, made,
                       serverVars, bus, busy, running, reversed, forwarded, shell, fault>>
     \/ ~served /\ server = "gone" /\ Leave("info") /\ UNCHANGED fault

(* Which socket each stream gets.                                            *)
Place(s) == CHOOSE i \in 1..Len(Wanted) : Wanted[i] = s
Assigned_LastFirst(s) == sockets[Len(Wanted) + 1 - Place(s)]
Assigned(s) == sockets[Place(s)]

(* The streams.  Each begins with the number of its codec, or with the       *)
(* device's word that there is no such stream; a number nobody knows, the    *)
(* device's word that it could not configure one, and the end of the socket  *)
(* are errors.  The video's is followed by its size, and a media packet in   *)
(* that place, or a size of nothing, is one too.                             *)
CodecIds == {"off", "codec", "unreadable"}
AudioHeaders == CodecIds
VideoHeaders ==
  {IF id = "codec" /\ ~sized THEN "unreadable" ELSE id : id \in CodecIds, sized \in BOOLEAN}

Comes(stream, headers) == IF stream \in opts.streams THEN headers ELSE {"off"}

(* The audio's decoder is opened by the thread that was given the stream:    *)
(* when it does not open the thread is over, and nobody is told.             *)
Heard == {{"audio"}, {"audio", "silent"}}

StartAudio ==
  /\ pc = "streams"
  /\ \E header \in Comes("audio", AudioHeaders) :
       /\ fault' = (fault \/ ("audio" \in opts.streams /\ header # "codec"))
       /\ \/ opts.requireAudio /\ header # "codec" /\ Leave("audio")
          \/ /\ opts.requireAudio => header = "codec"
             /\ pc' = "control"
             /\ running' \in IF header = "codec" THEN Heard ELSE {{}}
             /\ UNCHANGED <<opts, why, serial, road, port, listener, sockets, trying, attempts,
                            made, serverVars, bus, busy, reversed, forwarded, shell>>

StartControl ==
  /\ pc = "control"
  /\ \/ /\ pc' = "video"
        /\ running' = running \cup (opts.streams \cap {"control"})
        /\ UNCHANGED <<opts, why, serial, road, port, listener, sockets, trying, attempts, made,
                       serverVars, bus, busy, reversed, forwarded, shell, fault>>
     \/ "control" \in opts.streams /\ Leave("control") /\ fault' = TRUE

(* By now there is a Session, and dropping it shuts it down.  The video may  *)
(* also fail of its decoder.                                                 *)
GoesDown ==
  /\ pc' = "stopping"
  /\ shell' = IF opts.noCleanup THEN shell ELSE ShellDropped
  /\ UNCHANGED <<opts, why, serial, road, port, listener, sockets, trying, attempts, made,
                 running, serverVars, bus, busy, reversed, forwarded>>

StartVideo ==
  /\ pc = "video"
  /\ \E header \in Comes("video", VideoHeaders) :
       \/ "video" \in opts.streams /\ GoesDown /\ fault' = TRUE
       \/ /\ "video" \in opts.streams => header = "codec"
          /\ pc' = "up"
          /\ running' = running \cup (opts.streams \cap {"video"})
          /\ UNCHANGED <<opts, why, serial, road, port, listener, sockets, trying, attempts,
                         made, serverVars, bus, busy, reversed, forwarded, shell, fault>>

-----------------------------------------------------------------------------
(* The program that runs the session (main.rs, run).  With a picture it      *)
(* notices that the server has gone by the frames' end (module Session),     *)
(* with sound alone it asks, and with neither it leaves.                     *)
HasNothingToDo == running \cap {"audio", "video"} = {}
AudioOnly == "video" \notin running /\ "audio" \in running /\ HasEnded
FramesEnd == "video" \in running /\ server = "gone"

RunEnds ==
  /\ pc = "up"
  /\ HasNothingToDo \/ AudioOnly \/ FramesEnd
  /\ GoesDown
  /\ UNCHANGED fault

(* The user, an interrupt or the time limit.                                 *)
Stop == pc = "up" /\ GoesDown /\ UNCHANGED fault

(* Session::shutdown, with the shell killed and its reader joined, and the   *)
(* drop of the session's fields.                                             *)
ShutDown ==
  /\ pc = "stopping"
  /\ opts.noCleanup \/ HasEnded
  /\ Leave("stopped")
  /\ UNCHANGED fault

-----------------------------------------------------------------------------
(* The server.                                                               *)
Starts ==
  /\ server = "starting"
  /\ server' = IF Told = "forward" THEN "listening" ELSE "connecting"
  /\ UNCHANGED <<clientVars, backlog, opened, served, bus, busy, running, reversed, forwarded, shell, fault>>

Connects ==
  /\ server = "connecting" /\ Len(opened) < Len(Wanted)
  /\ IF reversed # 0 /\ reversed = listener
     THEN /\ made' = made + 1
          /\ opened' = Append(opened, made')
          /\ backlog' = Append(backlog, made')
          /\ UNCHANGED server
     ELSE server' = "gone" /\ UNCHANGED <<made, opened, backlog>>
  /\ UNCHANGED <<opts, pc, why, serial, road, port, listener, sockets, trying, attempts, served,
                 bus, busy, running, reversed, forwarded, shell, fault>>

Accepts ==
  /\ server = "listening" /\ Len(opened) < Len(Wanted)
  /\ backlog # << >>
  /\ opened' = Append(opened, Head(backlog))
  /\ backlog' = Tail(backlog)
  /\ UNCHANGED <<clientVars, server, served, bus, busy, running, reversed, forwarded, shell, fault>>

(* The device's name goes out on the first socket, if that is still open.    *)
IsHeld(c) == c = trying \/ c \in ToSet(sockets) \/ (road = "reverse" /\ listener # 0)

Serves ==
  /\ server \in {"listening", "connecting"} /\ Wanted # << >> /\ Len(opened) = Len(Wanted)
  /\ IF IsHeld(opened[1]) THEN server' = "serving" /\ served' = TRUE
     ELSE server' = "gone" /\ UNCHANGED served
  /\ UNCHANGED <<clientVars, backlog, opened, bus, busy, running, reversed, forwarded, shell, fault>>

IsKilled ==
  /\ server \notin {"off", "gone"} /\ shell \in {"shut", "closed"}
  /\ server' = "gone"
  /\ UNCHANGED <<clientVars, backlog, opened, served, bus, busy, running, reversed, forwarded, shell, fault>>

Fails ==
  /\ server \notin {"off", "gone"}
  /\ server' \in {"hung", "gone"} /\ server' # server
  /\ fault' = TRUE
  /\ UNCHANGED <<clientVars, backlog, opened, served, bus, busy, running, reversed, forwarded, shell>>

(* The thread that reads the shell comes to its end.                         *)
ReaderEnds ==
  /\ \/ shell = "open" /\ server = "gone" /\ shell' = "ended"
     \/ shell = "shut" /\ shell' = "closed"
  /\ UNCHANGED <<clientVars, serverVars, bus, busy, running, reversed, forwarded, fault>>

(* The desk.                                                                 *)
PortsChange ==
  /\ pc \in {"tunnel", "asking", "shell"}
  /\ \/ \E p \in Ports \ (busy \cup {listener, forwarded}) : busy' = busy \cup {p}
     \/ \E p \in busy : busy' = busy \ {p}
  /\ UNCHANGED <<clientVars, running, serverVars, bus, reversed, forwarded, shell, fault>>

DeviceLeaves ==
  /\ pc \notin {"options", "over"} /\ serial # NoSerial /\ Present
  /\ bus' = [bus EXCEPT ![serial] = "absent"]
  /\ reversed' = 0 /\ forwarded' = 0
  /\ server' = IF server = "off" THEN "off" ELSE "gone"
  /\ fault' = TRUE
  /\ UNCHANGED <<clientVars, backlog, opened, served, busy, running, shell>>

Start == ReadOptions \/ ConnectTcpip \/ SelectDevice \/ Push \/ BindReverse \/ ReverseAnswers
         \/ Forward \/ StartServer
Connect == NoStreams \/ AllConnected \/ Accept \/ AcceptGivesUp \/ ConnectRefused \/ ConnectFirst
           \/ ConnectNext \/ ByteArrives \/ ByteTimesOut \/ ConnectGivesUp
Streaming == StartAudio \/ StartControl \/ StartVideo
Client == Start \/ Connect \/ ReadInfo \/ RunEnds \/ ShutDown
Server == Starts \/ Connects \/ Accepts \/ Serves \/ IsKilled
Done == pc = "over" /\ UNCHANGED vars

Next == Client \/ Streaming \/ Stop \/ Server \/ Fails \/ ReaderEnds \/ PortsChange \/ DeviceLeaves \/ Done

(* Threads run; the server goes on unless it fails or hangs, and a header    *)
(* that a hung one has not sent is waited for without a deadline.            *)
Spec == Init /\ [][Next]_vars /\ WF_vars(Client \/ (server # "hung" /\ Streaming)) /\ WF_vars(Server) /\ WF_vars(ReaderEnds)

-----------------------------------------------------------------------------
(* The device a session goes to is the one every selector given allows, and  *)
(* without a selector the one $ANDROID_SERIAL names (session/mod.rs, the     *)
(* refusal of two selectors; commands.rs, named_serial).  And each stream of *)
(* a session that is up has the socket the server opened for that stream,    *)
(* though connections were given up on the way and the server may have       *)
(* accepted one of those (connection.rs, connect_sockets).                   *)
(* A session that must have sound was announced a stream of it and gave it   *)
(* to a thread (pipeline.rs, start_audio); that the thread can decode it is  *)
(* not asked for, and Heard says that it may not.                            *)
WhatIsUpIsWhatWasAsked ==
  /\ (serial # NoSerial /\ ~opts.list) =>
       /\ opts.serial # NoSerial => serial = opts.serial
       /\ opts.tcpip # NoSerial => serial = opts.tcpip
       /\ opts.usb => serial \notin TcpSerials
       /\ opts.tcp => serial \in TcpSerials
       /\ (opts.env # NoSerial /\ Selectors = {}) => serial = opts.env
  /\ pc = "up" => /\ \A s \in opts.streams : Assigned(s) = opened[Place(s)]
                  /\ opts.requireAudio => "audio" \in running

(* A server that is known to have gone is not waited for: there is no        *)
(* further attempt, and the failure names it unless the last attempt had     *)
(* been made (connection.rs, server_gone).                                   *)
AGoneServerIsNotAwaited ==
  [][(Waiting /\ HasEnded) =>
        /\ attempts' <= attempts
        /\ pc' = "over" => why' = "exited" \/ attempts = MaxAttempts]_vars

(* The wait for the sockets ends, though the server hangs or never comes up, *)
(* and a server that is gone is not waited for at all.                       *)
TheWaitIsBounded ==
  /\ (pc = "sockets") ~> (pc # "sockets")
  /\ AGoneServerIsNotAwaited

(* Once a tunnel is open a session that asks for a stream comes up, unless   *)
(* something fails that is not the client's (params.rs, tunnel_forward; the  *)
(* comment at open_reverse).                                                 *)
HealthyStartsComeUp ==
  (pc = "shell" /\ Wanted # << >>) ~> (pc = "up" \/ fault)

(* A start that fails and a session that is over leave nothing behind: no    *)
(* port, no tunnel, and no server on the device (tunnel.rs and commands.rs,  *)
(* Drop).  And a session whose server has gone is over, the one without a    *)
(* picture included, which has no frames to miss (main.rs, run_audio_only).  *)
NothingIsLeft ==
  /\ (pc = "over") ~> (/\ listener = 0 /\ reversed = 0 /\ forwarded = 0
                       /\ server \in {"off", "gone"})
  /\ (pc = "up" /\ server = "gone") ~> (pc = "over")
=============================================================================
