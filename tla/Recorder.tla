------------------------------- MODULE Recorder -------------------------------
(***************************************************************************)
(* The recorder (media/recorder/mod.rs, muxer.rs): two queues that the     *)
(* video and the audio threads fill, and a thread of its own that opens    *)
(* the file, waits for the config packets, settles the origin of the       *)
(* timestamps and writes.                                                  *)
(*                                                                         *)
(* Every method takes one lock and ends with notify_all, so a wait is the  *)
(* guard of the action that follows it.  Everything between two locks is   *)
(* the recorder thread's own, so a round of the packet loop, from the lock *)
(* to the last write, is one action.  libav (open, header, write, trailer) *)
(* may refuse at any call.  A packet is a kind and a timestamp; a config   *)
(* packet's is ignored (AV_NOPTS).  What the recorder is given, vfeed and  *)
(* afeed, is chosen at the start.                                          *)
(***************************************************************************)
EXTENDS Integers, Sequences, Filtering

CONSTANTS
  VideoFeeds,           \* the packet sequences the video stream may carry; {} for no video
  AudioFeeds,           \* the same for the audio stream
  Tick                  \* microseconds in a tick of the container's time base

Packet == [kind : {"config", "key", "delta", "audio"}, pts : Nat]

ASSUME RecorderAssumption ==
  Tick \in Nat \ {0} /\ VideoFeeds \subseteq Seq(Packet) /\ AudioFeeds \subseteq Seq(Packet)

VARIABLES
  hasVideo, hasAudio,   \* the streams the device gave, fixed
  vfeed, afeed,         \* what is still to be pushed
  vq, aq,               \* RecorderState::video_queue, audio_queue
  stopped,              \* RecorderState::stopped
  pc,                   \* where the recorder thread is
  origin,               \* pts_origin: <<>> until it is known
  pendV, pendA,         \* pending_v, pending_a: at most one packet each
  prevV,                \* prev_vpkt: the video packet whose duration is not known yet
  fileV, fileA,         \* what the muxer took: packet and timestamp in the file
  refused,              \* whether the muxer refused anything
  outcome,              \* what the thread returns: "none" until it does
  acceptedV, acceptedA  \* history: what push_video and push_audio said true to

queues == <<vq, aq, stopped>>
locals == <<origin, pendV, pendA, prevV>>
file == <<fileV, fileA>>
feeds == <<hasVideo, hasAudio, vfeed, afeed>>
history == <<acceptedV, acceptedA>>
vars == <<hasVideo, hasAudio, vfeed, afeed, vq, aq, stopped, pc, origin, pendV,
          pendA, prevV, fileV, fileA, refused, outcome, acceptedV, acceptedA>>

Unknown == <<>>
IsConfig(p) == p.kind = "config"
MediaPackets == [kind : {"key", "delta", "audio"}, pts : Nat]
Media(q) == Filtered(q, MediaPackets)
HasConfig(q) == \E i \in 1..Len(q) : IsConfig(q[i])

(* What follows the first config packet of q; nothing when there is none.  *)
AfterConfig(q) ==
  IF HasConfig(q)
    THEN LET first == CHOOSE i \in 1..Len(q) :
                        IsConfig(q[i]) /\ \A j \in 1..(i - 1) : ~IsConfig(q[j])
         IN  SubSeq(q, first + 1, Len(q))
    ELSE <<>>

PcAt == {"unspawned", "open", "videoConfig", "audioConfig", "header",
         "loop", "trailer", "leaving", "gone"}

Init ==
  /\ hasVideo \in BOOLEAN /\ hasAudio \in BOOLEAN /\ (hasVideo \/ hasAudio)
  /\ vfeed \in IF hasVideo THEN VideoFeeds ELSE {<<>>}
  /\ afeed \in IF hasAudio THEN AudioFeeds ELSE {<<>>}
  /\ vq = <<>> /\ aq = <<>> /\ stopped = FALSE
  /\ pc = "unspawned"
  /\ origin = Unknown /\ pendV = <<>> /\ pendA = <<>> /\ prevV = <<>>
  /\ fileV = <<>> /\ fileA = <<>> /\ refused = FALSE /\ outcome = "none"
  /\ acceptedV = <<>> /\ acceptedA = <<>>

--------------------------------------------------------------------------------
(* The callers: a packet pushed, accepted unless stopped; and a stop. *)

PushVideo ==
  /\ vfeed # <<>>
  /\ vfeed' = Tail(vfeed)
  /\ IF stopped
       THEN UNCHANGED <<vq, acceptedV>>
       ELSE /\ vq' = Append(vq, Head(vfeed))
            /\ acceptedV' = Append(acceptedV, Head(vfeed))
  /\ UNCHANGED <<hasVideo, hasAudio, afeed, aq, stopped, pc, locals, file, refused,
                 outcome, acceptedA>>

PushAudio ==
  /\ afeed # <<>>
  /\ afeed' = Tail(afeed)
  /\ IF stopped
       THEN UNCHANGED <<aq, acceptedA>>
       ELSE /\ aq' = Append(aq, Head(afeed))
            /\ acceptedA' = Append(acceptedA, Head(afeed))
  /\ UNCHANGED <<hasVideo, hasAudio, vfeed, vq, stopped, pc, locals, file, refused,
                 outcome, acceptedV>>

Stop ==
  /\ ~stopped
  /\ stopped' = TRUE
  /\ UNCHANGED <<feeds, vq, aq, pc, locals, file, refused, outcome, history>>

--------------------------------------------------------------------------------
(* The thread: run_recorder and open_and_record up to the packet loop.     *)
(* The session sets the codecs of the streams it has before it spawns the  *)
(* thread, so the wait for them is over when it begins.                    *)

Goto(place) == pc' = place /\ UNCHANGED <<feeds, queues, locals, file, refused, outcome, history>>

Fail == pc' = "leaving" /\ outcome' = "failed"
        /\ UNCHANGED <<feeds, queues, locals, file, refused, history>>

Spawn == pc = "unspawned" /\ Goto("open")

(* The container will not take the stream, or the file cannot be made. *)
Open == pc = "open" /\ (Goto("videoConfig") \/ Fail)

(* Packets that come before the first config packet are dropped, and the   *)
(* config packet becomes the stream's extradata.  Without one the thread   *)
(* goes on only because it was stopped.                                    *)
TakeVideoConfig ==
  /\ pc = "videoConfig"
  /\ IF ~hasVideo
       THEN pc' = "audioConfig" /\ UNCHANGED vq
       ELSE /\ vq # <<>> \/ stopped
            /\ vq' = AfterConfig(vq)
            /\ pc' = IF HasConfig(vq) \/ stopped THEN "audioConfig" ELSE pc
  /\ UNCHANGED <<feeds, aq, stopped, locals, file, refused, outcome, history>>

(* The head of the audio queue becomes the extradata when it is a config   *)
(* packet, and is put back when it is not.                                 *)
AudioHead(q) == IF q # <<>> /\ IsConfig(Head(q)) THEN Tail(q) ELSE q

TakeAudioConfig_IgnoresStop ==
  /\ pc = "audioConfig"
  /\ hasAudio => aq # <<>>
  /\ aq' = AudioHead(aq)
  /\ pc' = "header"
  /\ UNCHANGED <<feeds, vq, stopped, locals, file, refused, outcome, history>>
TakeAudioConfig ==
  /\ pc = "audioConfig"
  /\ hasAudio => aq # <<>> \/ stopped
  /\ aq' = AudioHead(aq)
  /\ pc' = "header"
  /\ UNCHANGED <<feeds, vq, stopped, locals, file, refused, outcome, history>>

WriteHeader == pc = "header" /\ (Goto("loop") \/ Fail)

--------------------------------------------------------------------------------
(* The packet loop: write_the_packets. *)

Holds(option) == option # <<>>

(* A further config packet is left out. *)
UnlessConfig(option) == IF Holds(option) /\ IsConfig(option[1]) THEN <<>> ELSE option

Earlier(p, q) == IF p <= q THEN p ELSE q

ShouldPop_Always(known, holding) == TRUE
ShouldPop(known, holding) == known \/ ~holding

Popped(q, pending) ==
  IF q # <<>> /\ ShouldPop(origin # Unknown, Holds(pending)) THEN <<Head(q)>> ELSE <<>>
Rest(q, pending) == SubSeq(q, Len(Popped(q, pending)) + 1, Len(q))

Ready ==
  IF origin = Unknown
    THEN /\ hasVideo => Holds(vq) \/ Holds(pendV)
         /\ hasAudio => Holds(aq) \/ Holds(pendA)
    ELSE Holds(vq) \/ Holds(aq)

(* Microseconds to ticks, to the nearest, halves away from zero. *)
Rescale(t) == IF t >= 0 THEN (2 * t + Tick) \div (2 * Tick)
                        ELSE -((2 * (-t) + Tick) \div (2 * Tick))

Stamp_BeforeRescaling(written, t) == Rescale(t)
(* write_pkt: a timestamp not after the last one of its stream is moved up, *)
(* in the container's own time base.                                        *)
Stamp(written, t) ==
  LET at == Rescale(t)
      last == written[Len(written)].at
  IN  IF written # <<>> /\ at <= last THEN last + 1 ELSE at

WriteAll(written, packets, from) ==
  IF packets = <<>> THEN written
  ELSE Append(written, [pkt |-> packets[1],
                        at |-> Stamp(written, packets[1].pts - from)])

(* One stream's packet waits for the other's, unless the recorder is       *)
(* stopped: then what there is decides the origin.                         *)
OriginOf(v, a) ==
  IF Holds(v) /\ Holds(a) THEN Earlier(v[1].pts, a[1].pts)
  ELSE IF Holds(v) THEN v[1].pts
  ELSE a[1].pts

(* What was held aside is taken: it is written in this round or is prevV.  *)
LetGo == pendV' = <<>> /\ pendA' = <<>>

(* v and a are this round's packets, config packets already left out.  A   *)
(* video packet is written when the next one tells its duration; a refusal *)
(* ends the loop, and what is in hand goes no further.                     *)
Write(from, v, a) ==
  LET due == IF Holds(v) THEN prevV ELSE <<>> IN
  /\ LetGo
  /\ origin' = <<from>>
  /\ \/ /\ fileV' = WriteAll(fileV, due, from)
        /\ fileA' = WriteAll(fileA, a, from)
        /\ prevV' = IF Holds(v) THEN v ELSE prevV
        /\ UNCHANGED <<pc, refused>>
     \/ /\ Holds(due) \/ Holds(a)
        /\ \/ UNCHANGED file
           \/ Holds(due) /\ Holds(a) /\ fileV' = WriteAll(fileV, due, from) /\ UNCHANGED fileA
        /\ prevV' = <<>>
        /\ refused' = TRUE
        /\ pc' = "trailer"

HoldBoth(v, a) ==
  /\ pendV' = v /\ pendA' = a
  /\ UNCHANGED <<origin, prevV, file, pc, refused>>

BothSeen(v, a) == (hasVideo => Holds(v)) /\ (hasAudio => Holds(a))

(* Whether the loop is over: asked before the packets held aside are let   *)
(* go, so that a stop does not throw away what is in hand.                 *)
Over(v, a) == stopped /\ ~Holds(v) /\ ~Holds(a) /\ ~Holds(pendV) /\ ~Holds(pendA)

Round ==
  LET v0 == Popped(vq, pendV)
      a0 == IF hasAudio THEN Popped(aq, pendA) ELSE <<>>
      v == UnlessConfig(v0)
      a == UnlessConfig(a0)
      heldV == IF Holds(pendV) THEN pendV ELSE v
      heldA == IF Holds(pendA) THEN pendA ELSE a
  IN
  /\ pc = "loop" /\ (Ready \/ stopped) /\ ~Over(v0, a0)
  /\ vq' = Rest(vq, pendV)
  /\ aq' = IF hasAudio THEN Rest(aq, pendA) ELSE aq
  /\ IF origin # Unknown
       THEN Write(origin[1], v, a)
       ELSE IF BothSeen(heldV, heldA) \/ (stopped /\ (Holds(heldV) \/ Holds(heldA)))
              THEN Write(OriginOf(heldV, heldA), heldV, heldA)
              ELSE HoldBoth(heldV, heldA)
  /\ UNCHANGED <<feeds, stopped, outcome, history>>

(* Stopped and drained: the last video packet is written, or refused. *)
LastPacket ==
  /\ pc = "loop" /\ Over(Popped(vq, pendV), IF hasAudio THEN Popped(aq, pendA) ELSE <<>>)
  /\ pc' = "trailer"
  /\ prevV' = <<>>
  /\ \/ fileV' = WriteAll(fileV, prevV, IF origin = Unknown THEN 0 ELSE origin[1])
        /\ UNCHANGED refused
     \/ Holds(prevV) /\ refused' = TRUE /\ UNCHANGED fileV
  /\ UNCHANGED <<feeds, queues, origin, pendV, pendA, fileA, outcome, history>>

(* The trailer is attempted whatever happened. *)
WriteTrailer ==
  /\ pc = "trailer"
  /\ pc' = "leaving"
  /\ \/ outcome' = IF refused THEN "failed" ELSE "written"
     \/ outcome' = "failed"
  /\ UNCHANGED <<feeds, queues, locals, file, refused, history>>

(* The queues are closed and emptied however the thread ends: nothing will *)
(* drain them again.                                                       *)
MarkStopped ==
  /\ stopped' = TRUE
  /\ vq' = <<>> /\ aq' = <<>>

Leave ==
  /\ pc = "leaving"
  /\ pc' = "gone"
  /\ MarkStopped
  /\ UNCHANGED <<feeds, locals, file, refused, outcome, history>>

Finished == pc = "gone" /\ vfeed = <<>> /\ afeed = <<>> /\ UNCHANGED vars

Thread == Open \/ TakeVideoConfig \/ TakeAudioConfig \/ WriteHeader \/ Round
          \/ LastPacket \/ WriteTrailer \/ Leave
Next == PushVideo \/ PushAudio \/ Stop \/ Spawn \/ Thread \/ Finished

(* The recorder thread runs when it can, and is spawned; nothing is        *)
(* assumed of the streams or of a stop.                                    *)
Spec == Init /\ [][Next]_vars /\ WF_vars(Thread) /\ WF_vars(Spawn)

--------------------------------------------------------------------------------
(* Properties *)

Packets(written) == [i \in 1..Len(written) |-> written[i].pkt]

(* Nothing accepted is lost and nothing is reordered: from the header on,  *)
(* and as long as the muxer takes what it is given, the file, the packets  *)
(* in hand and the queue are together what was accepted -- for video, from *)
(* the first config packet on -- although the loop pops both queues before *)
(* it can use what it pops.  So a file reported written is whole, whenever *)
(* the stop came.  A recorder whose thread is gone holds nothing and takes *)
(* nothing more: a dead recording does not grow at the stream's bit rate.  *)
NothingAcceptedIsLost ==
  /\ ~refused /\ pc \in {"header", "loop", "trailer"} =>
       /\ Packets(fileV) \o prevV \o pendV \o Media(vq) = Media(AfterConfig(acceptedV))
       /\ Packets(fileA) \o pendA \o Media(aq) = Media(acceptedA)
  /\ outcome = "written" =>
       /\ Packets(fileV) = Media(AfterConfig(acceptedV))
       /\ Packets(fileA) = Media(acceptedA)
  /\ pc = "gone" => vq = <<>> /\ aq = <<>> /\ stopped

(* The muxer gets strictly increasing timestamps in each stream, in its    *)
(* own time base -- one that repeats is refused and ends the recording --  *)
(* and, until a stop decides the origin early, none before the origin: the *)
(* two streams share it, whichever came first.                             *)
TimestampsAreInOrder ==
  \A written \in {fileV, fileA} :
    /\ \A i \in 1..(Len(written) - 1) : written[i].at < written[i + 1].at
    /\ ~stopped => \A i \in 1..Len(written) : written[i].at >= 0

(* A stop ends in a closed file: no wait of the thread outlasts it. *)
StopEndsTheFile == stopped ~> pc \in {"gone", "unspawned"}
================================================================================
