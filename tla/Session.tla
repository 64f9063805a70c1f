-------------------------------- MODULE Session --------------------------------
(***************************************************************************)
(* A mirroring session end to end: the threads of session/mod.rs and       *)
(* session/pipeline.rs, the pump of mirror_host.rs that draws on the event *)
(* loop, or main.rs's loop that only takes the frames, and                 *)
(* Session::shutdown, which runs on that same thread.                      *)
(*                                                                         *)
(*   device --socket--> demuxer --packets--> decoder --decoded--+          *)
(*                                  ^                            |         *)
(*                                  |        [feed --line-->]    v         *)
(*                                  +------- pool <------------ pump       *)
(*                                                                         *)
(* The channels are bounded and a full one blocks its writer, so every     *)
(* thread can be held by the next; the pump is the end of the chain, and   *)
(* it does not run while the event loop waits in shutdown.  With           *)
(* --video-buffer the feed thread and the delay line stand between decoder *)
(* and pump; DelayBuffer has their detail, here the line is the bounded    *)
(* FIFO that module is shown to implement (FrameFifo).                     *)
(*                                                                         *)
(* Pixel buffers have an identity, because they circulate: the decoder     *)
(* takes one from the pool, and the pump returns it once another frame has *)
(* replaced it on screen.  0 stands for no buffer.                         *)
(***************************************************************************)
EXTENDS Naturals, Sequences, FiniteSets, SequencesExt

CONSTANTS
  PoolSize,             \* POOL_SIZE, buffers in circulation at the start
  FrameRoom,            \* capacity of the channel of decoded frames
  PacketRoom,           \* capacity of the channel of packets
  LineRoom,             \* frames the delay line holds at most
  MaxPackets            \* bound: packets the device sends

ASSUME SessionAssumption ==
  /\ PoolSize \in Nat \ {0} /\ FrameRoom \in Nat \ {0}
  /\ PacketRoom \in Nat \ {0} /\ LineRoom \in Nat \ {0} /\ MaxPackets \in Nat

VARIABLES
  delayed,              \* --video-buffer is on
  hosted,               \* who takes the frames: the panel, a window of its own,
                        \* or nobody who draws (--no-window)
  recorder,             \* the recorder thread: none, queued, running, finished
  told,                 \* Recorder::stopped
  socket,               \* the video socket, open or shut
  received,             \* how many packets the demuxer has read
  demuxer, decoder, feed, pump, host,   \* where each thread is
  opened,               \* what the decoder said of its opening
  packets,              \* how many packets are in the channel
  spare,                \* the decoder's unused buffer
  pool,                 \* the channel of buffers going back
  writing,              \* the frame the decoder is sending
  decoded,              \* the channel of decoded frames
  pushing,              \* the frame the feed thread holds
  line,                 \* the frames in the delay line
  receiver,             \* whether the pump's end of the frames is held
  latest,               \* the newest frame the pump has taken
  screen,               \* the frame the window draws from
  paused                \* nothing is drawn: MOD+z, or --no-video-playback

source == <<socket, received, demuxer>>
making == <<decoder, opened, packets, spare, writing>>
waiting == <<feed, pushing, line>>
drawing == <<pump, latest, screen, paused>>
film == <<recorder, told>>
setup == <<delayed, hosted>>
vars == <<setup, film, source, making, pool, decoded, waiting, receiver,
          drawing, host>>

Buffers == 1..(PoolSize + FrameRoom + LineRoom + 4)

(* What the decoder, the channels, the pump and the window hold. *)
Ones(b) == {b} \ {0}
Circulating ==
  Range(pool) \union Range(decoded) \union Range(line)
    \union Ones(spare) \union Ones(writing) \union Ones(pushing)
    \union Ones(latest) \union Ones(screen)

TypeOK ==
  /\ hosted \in {"panel", "window", "nothing"}
  /\ delayed \in BOOLEAN /\ told \in BOOLEAN /\ receiver \in BOOLEAN
  /\ paused \in BOOLEAN
  /\ recorder \in {"none", "queued", "running", "finished"}
  /\ socket \in {"open", "shut"} /\ opened \in {"no word", "ok", "failed"}
  /\ demuxer \in {"reading", "sending", "ending", "gone"}
  /\ decoder \in {"opening", "taking", "sending", "gone"}
  /\ feed \in {"taking", "pushing", "gone"}
  /\ pump \in {"idle", "draining", "drawing", "ended"}
  /\ host \in {"starting", "running", "leaving", "unblocking", "joining demuxer",
               "joining decoder", "stopping recorder", "waiting for the file", "done"}
  /\ received \in 0..MaxPackets /\ packets \in 0..PacketRoom
  /\ {spare, writing, pushing, latest, screen} \subseteq Buffers \union {0}
  /\ pool \in Seq(Buffers) /\ Len(pool) <= PoolSize
  /\ decoded \in Seq(Buffers) /\ Len(decoded) <= FrameRoom
  /\ line \in Seq(Buffers) /\ Len(line) <= LineRoom

(* The demuxer runs and Session::start waits for the decoder to open.      *)
Init ==
  /\ delayed \in BOOLEAN /\ paused \in BOOLEAN
  /\ hosted \in {"panel", "window", "nothing"}
  /\ hosted = "nothing" => ~paused
  /\ recorder \in {"none", "queued"} /\ told = FALSE
  /\ socket = "open" /\ received = 0 /\ opened = "no word"
  /\ demuxer = "reading" /\ decoder = "opening" /\ pump = "idle"
  /\ feed = (IF delayed THEN "taking" ELSE "gone")
  /\ host = "starting"
  /\ packets = 0 /\ spare = 0 /\ writing = 0 /\ pushing = 0
  /\ pool = [i \in 1..PoolSize |-> i] /\ decoded = <<>> /\ line = <<>>
  /\ receiver = TRUE /\ latest = 0 /\ screen = 0

--------------------------------------------------------------------------------
(* The demuxer: run_demuxer *)

(* A packet is read and given to the recorder before the decoder gets it.  *)
(* After the socket is shut the 256 kB reader may still hold some.         *)
ReadPacket ==
  /\ demuxer = "reading" /\ received < MaxPackets
  /\ received' = received + 1
  /\ demuxer' = "sending"
  /\ UNCHANGED <<setup, film, socket, making, pool, decoded, waiting, receiver,
                 drawing, host>>

(* End of stream, or an error: the device's, or the socket was shut. *)
ReadEnds ==
  /\ demuxer = "reading"
  /\ demuxer' = "ending"
  /\ UNCHANGED <<setup, film, socket, received, making, pool, decoded, waiting,
                 receiver, drawing, host>>

SendPacket ==
  /\ demuxer = "sending"
  /\ \/ /\ decoder # "gone" /\ packets < PacketRoom
        /\ packets' = packets + 1 /\ demuxer' = "reading"
     \/ decoder = "gone" /\ demuxer' = "ending" /\ UNCHANGED packets
  /\ UNCHANGED <<setup, film, socket, received, decoder, opened, spare, writing,
                 pool, decoded, waiting, receiver, drawing, host>>

(* stop_recorder, then the thread returns and its end of packets closes. *)
DemuxerEnds ==
  /\ demuxer = "ending"
  /\ told' = (told \/ recorder # "none")
  /\ demuxer' = "gone"
  /\ UNCHANGED <<setup, recorder, socket, received, making, pool, decoded,
                 waiting, receiver, drawing, host>>

--------------------------------------------------------------------------------
(* The decoder: run_decoder *)

(* The thread returns and everything it owns goes: the packets it has not  *)
(* taken, the spare buffer, the pool's receiving end.                      *)
DecoderReturns ==
  decoder' = "gone" /\ packets' = 0 /\ spare' = 0 /\ writing' = 0 /\ pool' = <<>>

DecoderOpens ==
  /\ decoder = "opening"
  /\ \/ decoder' = "taking" /\ opened' = "ok" /\ UNCHANGED <<packets, spare, writing, pool>>
     \/ opened' = "failed" /\ DecoderReturns
  /\ UNCHANGED <<setup, film, source, decoded, waiting, receiver, drawing, host>>

Fresh == CHOOSE b \in Buffers : b \notin Circulating

FromPool == spare = 0 /\ pool # <<>>

(* The spare one, one that came back, or a new one. *)
NextBuffer == IF spare # 0 THEN spare ELSE IF FromPool THEN Head(pool) ELSE Fresh

(* A packet gives a frame; or none, and the buffer is kept; or an error,   *)
(* which ends the thread.                                                  *)
Decode ==
  /\ decoder = "taking" /\ packets > 0
  /\ \/ /\ packets' = packets - 1
        /\ pool' = IF FromPool THEN Tail(pool) ELSE pool
        /\ \/ decoder' = "sending" /\ writing' = NextBuffer /\ spare' = 0
           \/ spare' = NextBuffer /\ UNCHANGED <<decoder, writing>>
     \/ DecoderReturns
  /\ UNCHANGED <<setup, film, source, opened, decoded, waiting, receiver,
                 drawing, host>>

(* Whoever reads the decoded frames: the feed thread, or the pump. *)
ReaderThere == IF delayed THEN feed # "gone" ELSE receiver

SendFrame ==
  /\ decoder = "sending"
  /\ \/ /\ ReaderThere /\ Len(decoded) < FrameRoom
        /\ decoded' = Append(decoded, writing)
        /\ decoder' = "taking" /\ writing' = 0
        /\ UNCHANGED <<packets, spare, pool>>
     \/ ~ReaderThere /\ DecoderReturns /\ UNCHANGED decoded
  /\ UNCHANGED <<setup, film, source, opened, waiting, receiver, drawing, host>>

(* The demuxer is gone and its last packet is decoded. *)
DecoderEnds ==
  /\ decoder = "taking" /\ packets = 0 /\ demuxer = "gone"
  /\ DecoderReturns
  /\ UNCHANGED <<setup, film, source, opened, decoded, waiting, receiver,
                 drawing, host>>

--------------------------------------------------------------------------------
(* The feed thread and the delay line, under --video-buffer *)

FeedTakes ==
  /\ delayed /\ feed = "taking" /\ decoded # <<>>
  /\ pushing' = Head(decoded) /\ decoded' = Tail(decoded)
  /\ feed' = "pushing"
  /\ UNCHANGED <<setup, film, source, making, pool, line, receiver, drawing, host>>

(* push waits for room in the line; when nobody reads it any more the      *)
(* buffer stops itself and push lets every frame go.                       *)
FeedPushes ==
  /\ feed = "pushing"
  /\ \/ receiver /\ Len(line) < LineRoom /\ line' = Append(line, pushing)
     \/ ~receiver /\ UNCHANGED line
  /\ pushing' = 0
  /\ feed' = "taking"
  /\ UNCHANGED <<setup, film, source, making, pool, decoded, receiver, drawing, host>>

(* The decoder is gone: the buffer is dropped, and with it what it holds;  *)
(* what had reached the pump's channel is still there to be taken.         *)
FeedEnds ==
  /\ delayed /\ feed = "taking" /\ decoded = <<>> /\ decoder = "gone"
  /\ feed' = "gone"
  /\ \E n \in 0..Len(line) : line' = SubSeq(line, 1, n)
  /\ UNCHANGED <<setup, film, source, making, pool, decoded, pushing, receiver,
                 drawing, host>>

--------------------------------------------------------------------------------
(* The pump: a timer on the event loop *)

Incoming == IF delayed THEN line ELSE decoded
TakeIncoming ==
  IF delayed THEN line' = Tail(line) /\ UNCHANGED decoded
             ELSE decoded' = Tail(decoded) /\ UNCHANGED line

(* try_send: a buffer the pool has no room for, or no reader, is freed. *)
Recycled(b) ==
  IF b # 0 /\ decoder # "gone" /\ Len(pool) < PoolSize THEN Append(pool, b) ELSE pool

PumpTakes ==
  /\ hosted # "nothing" /\ host = "running" /\ pump = "idle" /\ Incoming # <<>>
  /\ latest' = Head(Incoming)
  /\ TakeIncoming
  /\ pump' = "draining"
  /\ UNCHANGED <<setup, film, source, making, pool, feed, pushing, receiver,
                 screen, paused, host>>

(* Only the newest frame is drawn; one skipped goes back at once. *)
PumpSkips ==
  /\ pump = "draining" /\ Incoming # <<>>
  /\ pool' = Recycled(latest)
  /\ latest' = Head(Incoming)
  /\ TakeIncoming
  /\ UNCHANGED <<setup, film, source, making, feed, pushing, receiver,
                 pump, screen, paused, host>>

(* Nothing newer; a frame in the delay line may not be due yet. *)
PumpIsUpToDate ==
  /\ pump = "draining" /\ (Incoming = <<>> \/ delayed)
  /\ pump' = "drawing"
  /\ UNCHANGED <<setup, film, source, making, pool, decoded, waiting, receiver,
                 latest, screen, paused, host>>

GoesBack_AtOnce == latest
(* Which buffer the drawing of latest lets go of. *)
GoesBack == IF paused THEN latest ELSE screen

PumpDraws ==
  /\ pump = "drawing"
  /\ pool' = Recycled(GoesBack)
  /\ screen' = IF paused THEN screen ELSE latest
  /\ latest' = 0
  /\ pump' = "idle"
  /\ UNCHANGED <<setup, film, source, making, decoded, waiting, receiver, paused, host>>

TogglePause ==
  /\ hosted # "nothing" /\ host = "running" /\ pump = "idle"
  /\ paused' = ~paused
  /\ UNCHANGED <<setup, film, source, making, pool, decoded, waiting, receiver,
                 pump, latest, screen, host>>

(* Without a window the main thread takes every frame, and hands it back.  *)
Drains ==
  /\ hosted = "nothing" /\ host = "running" /\ pump = "idle" /\ Incoming # <<>>
  /\ pool' = Recycled(Head(Incoming))
  /\ TakeIncoming
  /\ UNCHANGED <<setup, film, source, making, feed, pushing, receiver, drawing, host>>

(* The frames are over: on_end asks for the session to stop. *)
PumpEnds ==
  /\ host = "running" /\ pump = "idle" /\ Incoming = <<>>
  /\ IF delayed THEN feed = "gone" ELSE decoder = "gone"
  /\ pump' = "ended"
  /\ host' = "leaving"
  /\ UNCHANGED <<setup, film, source, making, pool, decoded, waiting, receiver,
                 latest, screen, paused>>

--------------------------------------------------------------------------------
(* The host, on the event loop: start, stop, Session::shutdown *)

(* The decoder opened: the recorder's thread is spawned, the mirror mounted. *)
Mount ==
  /\ host = "starting" /\ opened = "ok"
  /\ recorder' = IF recorder = "queued" THEN "running" ELSE recorder
  /\ host' = "running"
  /\ UNCHANGED <<setup, told, source, making, pool, decoded, waiting, receiver, drawing>>

(* It did not: start returns an error and drops the session. *)
StartFails ==
  /\ host = "starting" /\ opened = "failed"
  /\ host' = "leaving"
  /\ UNCHANGED <<setup, film, source, making, pool, decoded, waiting, receiver, drawing>>

(* The user, MOD+q, the time limit or an interrupt. *)
StopAsked ==
  /\ host = "running" /\ pump = "idle"
  /\ host' = "leaving"
  /\ UNCHANGED <<setup, film, source, making, pool, decoded, waiting, receiver, drawing>>

(* The attachment is dropped, and with it the pump's end of the frames.    *)
(* In the panel on_end stops the session from within the pump's own        *)
(* callback, which then still holds that end: drop or no drop.  Elsewhere  *)
(* the loop has returned before anything is dropped.                       *)
LetGo ==
  /\ host = "leaving"
  /\ host' = "unblocking"
  /\ \/ /\ receiver' = FALSE /\ screen' = 0
        /\ line' = <<>>
        /\ decoded' = IF delayed THEN decoded ELSE <<>>
     \/ hosted = "panel" /\ pump = "ended" /\ UNCHANGED <<receiver, screen, line, decoded>>
  /\ UNCHANGED <<setup, film, source, making, pool, feed, pushing, pump, latest, paused>>

UnblockDemuxer_Not ==
  /\ host = "unblocking"
  /\ host' = "joining demuxer"
  /\ UNCHANGED <<setup, film, source, making, pool, decoded, waiting, receiver, drawing>>
UnblockDemuxer ==
  /\ host = "unblocking"
  /\ socket' = "shut"
  /\ host' = "joining demuxer"
  /\ UNCHANGED <<setup, film, received, demuxer, making, pool, decoded, waiting,
                 receiver, drawing>>

JoinDemuxer ==
  /\ host = "joining demuxer" /\ demuxer = "gone"
  /\ host' = "joining decoder"
  /\ UNCHANGED <<setup, film, source, making, pool, decoded, waiting, receiver, drawing>>

JoinDecoder ==
  /\ host = "joining decoder" /\ decoder = "gone"
  /\ host' = "stopping recorder"
  /\ UNCHANGED <<setup, film, source, making, pool, decoded, waiting, receiver, drawing>>

StopRecorder ==
  /\ host = "stopping recorder"
  /\ told' = (told \/ recorder # "none")
  /\ host' = IF recorder \in {"running", "finished"} THEN "waiting for the file" ELSE "done"
  /\ UNCHANGED <<setup, recorder, source, making, pool, decoded, waiting,
                 receiver, drawing>>

(* The thread is joined, or five seconds have passed. *)
FileWaitedFor ==
  /\ host = "waiting for the file"
  /\ host' = "done"
  /\ UNCHANGED <<setup, film, source, making, pool, decoded, waiting, receiver, drawing>>

(* The recorder's thread writes the trailer when told, or fails before. *)
RecorderEnds ==
  /\ recorder = "running"
  /\ recorder' = "finished"
  /\ UNCHANGED <<setup, told, source, making, pool, decoded, waiting, receiver,
                 drawing, host>>

(* The session is over and so is every thread of it. *)
Over ==
  /\ host = "done" /\ demuxer = "gone" /\ decoder = "gone" /\ feed = "gone"
  /\ recorder # "running"
  /\ UNCHANGED vars

--------------------------------------------------------------------------------
Demux == ReadPacket \/ ReadEnds \/ SendPacket \/ DemuxerEnds
MakeFrames == DecoderOpens \/ Decode \/ SendFrame \/ DecoderEnds
Delay == FeedTakes \/ FeedPushes \/ FeedEnds
Pump == Drains \/ PumpTakes \/ PumpSkips \/ PumpIsUpToDate \/ PumpDraws \/ PumpEnds
Leave == LetGo \/ UnblockDemuxer \/ JoinDemuxer \/ JoinDecoder \/ StopRecorder
         \/ FileWaitedFor
Host == Mount \/ StartFails \/ StopAsked \/ TogglePause \/ Leave

Next == Demux \/ MakeFrames \/ Delay \/ Pump \/ Host \/ RecorderEnds \/ Over

(* Every thread runs when it can; the device may fall silent for ever, so  *)
(* a read is certain to return only once the socket is shut, and nothing   *)
(* is assumed of the user.  A recorder is only certain to end when told.   *)
Fairness ==
  /\ WF_vars(SendPacket \/ DemuxerEnds)
  /\ WF_vars(socket = "shut" /\ (ReadPacket \/ ReadEnds))
  /\ WF_vars(MakeFrames) /\ WF_vars(Delay) /\ WF_vars(Pump)
  /\ WF_vars(Mount \/ StartFails \/ Leave)
  /\ WF_vars(told /\ RecorderEnds)

Spec == Init /\ [][Next]_vars /\ Fairness

--------------------------------------------------------------------------------
(* Properties *)

(* The window draws straight from the frame's buffer, so that buffer is    *)
(* out of everybody else's reach until another is on screen: the decoder   *)
(* writes into whatever it finds in the pool (mirror_host.rs, on_screen).  *)
(* And the pool is a cache, not a bound, an empty one makes the decoder    *)
(* allocate (pipeline.rs): what bounds the memory is that every frame in   *)
(* flight is in a bounded channel or in one of the few hands, the          *)
(* decoder's, the feed's, and the pump's two, the frame it has taken and   *)
(* the frame on screen.                                                    *)
PictureIsNotOverwritten ==
  /\ TypeOK
  /\ screen # 0 =>
       screen \notin Range(pool) \union Range(decoded) \union Range(line)
                     \union {spare, writing, pushing, latest}
  /\ LET inFlight == FrameRoom + 3 + IF delayed THEN LineRoom + 1 ELSE 0
     IN  Cardinality(Circulating) <= IF inFlight > PoolSize THEN inFlight ELSE PoolSize

(* Whatever ends the session -- the user, the device, a decode error on a  *)
(* screen that never changes again, a decoder that does not open --        *)
(* shutdown runs and returns: no join waits for a thread that waits for    *)
(* the event loop.  Then no thread that touches the hardware decoder is    *)
(* left, as tearing the context down under one crashes, and the recording  *)
(* is closed: the recorder waits with no timeout for the flag only the     *)
(* demuxer's end and shutdown set.  And while the session lasts, a slow,   *)
(* hidden or paused picture never holds the decoder for good.              *)
SessionEnds ==
  /\ host = "leaving" \/ decoder = "gone"
       ~> host = "done" /\ demuxer = "gone" /\ decoder = "gone"
  /\ (demuxer = "gone" \/ decoder = "gone" \/ host = "leaving") /\ recorder = "running"
       ~> recorder = "finished"
  /\ decoder = "sending" ~> decoder # "sending"
================================================================================
