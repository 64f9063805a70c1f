----------------------------- MODULE MirrorPath -----------------------------
(***************************************************************************)
(* The picture's loop of a mirror in a window of its own or in none        *)
(* (src/main.rs, src/mirror_host.rs, src/display/v4l2_sink.rs): the device *)
(* encodes its display, the decoder decodes it, the pump draws the newest  *)
(* frame and gives it to the V4L2 sink, and --flex-display asks the device *)
(* for a display as large as the window.                                   *)
(*                                                                         *)
(* Session has the threads and the channels in full; here the channels     *)
(* only carry what the frames hold, and the socket and the demuxer are     *)
(* left out.                                                               *)
(***************************************************************************)
EXTENDS VideoDecoder

CONSTANTS
  Turn,         \* the size of a picture turned by a quarter
  FrameRoom,    \* decoded frames in flight
  PoolRoom,     \* frames on their way back
  MaxQueued,    \* the frames --v4l2-buffer may hold
  MaxMoves      \* bound: changes of the window in one behaviour

ASSUME MirrorAssumption ==
  /\ Turn \in [Sizes -> Sizes]
  /\ FrameRoom \in Nat \ {0} /\ PoolRoom \in Nat /\ MaxQueued \in Nat \ {0}
  /\ MaxMoves \in Nat

VARIABLES
  windowless,   \* --no-window
  frames,       \* the decoded frames on their way to the pump
  pool,         \* the frames on their way back
  screen,       \* the frame the window draws from
  sink,         \* the size the V4L2 sink was opened at, or "none"
  queue,        \* its delayed frames
  due,          \* how many of them have come due
  over,         \* the loop has ended
  moving,       \* the picture moves, without a pause as long as recv_timeout waits
  flex,         \* --flex-display
  window,       \* the window's size ("none" while it is hidden)
  turned,       \* it shows the picture turned by a quarter
  moves,        \* the changes of the two so far
  seen, sent,   \* FlexDisplay
  told,         \* the last size the device was really told
  display       \* the size of the device's display

showing == <<windowless, frames, pool, screen, sink, queue, due, over, moving>>
sizing == <<flex, window, turned, moves, seen, sent, told, display>>
vars == <<dvars, showing, sizing>>

NoFrame == [EmptyFrame EXCEPT !.size = "no frame"]

Init ==
  /\ DInit
  /\ windowless \in BOOLEAN
  /\ frames = <<>> /\ pool = <<>> /\ screen = NoFrame
  /\ display \in Sizes /\ sink \in {display, "none"}
  /\ queue = <<>> /\ due = 0 /\ over = FALSE
  /\ moving \in BOOLEAN /\ (moving => windowless /\ sink # "none")
  /\ flex \in BOOLEAN /\ (windowless => ~flex)
  /\ window \in Sizes /\ turned = FALSE /\ moves = 0
  /\ seen = "none" /\ sent = "none" /\ told = "none"

-----------------------------------------------------------------------------
(* The decoder thread: run_decoder                                         *)

\* The frame that is filled next: the spare one, a recycled one, a new one.
Spare == IF output # NoFrame THEN output ELSE IF pool # <<>> THEN Head(pool) ELSE EmptyFrame

TakesSpare == pool' = IF output = NoFrame /\ pool # <<>> THEN Tail(pool) ELSE pool

Rest == <<windowless, frames, screen, sink, queue, due, over, moving>>

ConfigComes ==
  /\ TakeConfig(display, Spare) /\ TakesSpare
  /\ UNCHANGED <<Rest, sizing>>

PacketTaken == TakePacket(Spare) /\ TakesSpare /\ UNCHANGED <<Rest, sizing>>

PacketComes ==
  \/ PacketTaken
  \/ PacketRefused /\ UNCHANGED <<pool, Rest, sizing>>

Decodes ==
  /\ ProcessFrame \/ PictureRefused \/ Drained
  /\ UNCHANGED <<showing, sizing>>

\* The finished frame goes to the pump, whose end may be gone.
Sends ==
  /\ thread = "sending"
  /\ \/ /\ ~over /\ Len(frames) < FrameRoom
        /\ frames' = Append(frames, output)
        /\ thread' = "taking"
        /\ output' = NoFrame
     \/ /\ over
        /\ thread' = "failed"
        /\ UNCHANGED <<frames, output>>
  /\ UNCHANGED <<stream, opened, context, config, produced, shown, received, inside,
                 pictures, layout, scaler, windowless, pool, screen, sink,
                 queue, due, over, moving, sizing>>

-----------------------------------------------------------------------------
(* V4l2Sink                                                                *)

\* Mutant: the delayed frames are written out only when a frame arrives.
FlushDueIdle_Not(q) == q

\* flush_due, on a tick without a frame: what has come due is written.
FlushDueIdle(q) == SubSeq(q, due + 1, Len(q))

\* write_frame: the frame waits at the end, the oldest give way to it beyond
\* MaxQueued, and what is due of the rest is written.
Queued(n) ==
  LET all == Append(queue, n)
      behind == IF Len(all) > MaxQueued THEN Len(all) - MaxQueued ELSE 0
      gone == IF due > behind THEN due ELSE behind IN
    SubSeq(all, gone + 1, Len(all))

\* A sink is given only the frames of the size it was opened at.
Publish(frame) ==
  /\ queue' = IF sink = frame.size THEN Queued(frame.picture) ELSE queue
  /\ due' = IF sink = frame.size THEN 0 ELSE due

\* --v4l2-buffer has passed for the oldest frame that waits.
ComesDue ==
  /\ due < Len(queue)
  /\ due' = due + 1
  /\ UNCHANGED <<dvars, windowless, frames, pool, screen, sink, queue, over, moving, sizing>>

-----------------------------------------------------------------------------
(* The pump, and the loop of --no-window                                   *)

\* A frame handed back keeps the stamps it had.
Used(frame) == [EmptyFrame EXCEPT !.pts = frame.pts, !.received = frame.received]

\* try_send: the pool takes what it has room for.
Recycled(to, back) ==
  LET all == to \o [i \in DOMAIN back |-> Used(back[i])] IN
    IF Len(all) <= PoolRoom THEN all ELSE SubSeq(all, 1, PoolRoom)

\* Nothing has come for as long as the loop waits: 4 ms for the pump, 100 ms
\* without a window.
Idle ==
  /\ ~over /\ frames = <<>> /\ thread \notin {"failed", "refused"}
  /\ queue' = FlushDueIdle(queue)
  /\ due' = IF queue' = queue THEN due ELSE 0
  /\ UNCHANGED <<dvars, windowless, frames, pool, screen, sink, over, moving, sizing>>

\* Only the newest frame is drawn, and the one it replaces goes back.
Draw ==
  /\ ~over /\ ~windowless /\ frames # <<>>
  /\ Publish(Last(frames))
  /\ screen' = Last(frames)
  /\ pool' = Recycled(pool, Front(frames) \o (IF screen = NoFrame THEN <<>> ELSE <<screen>>))
  /\ frames' = <<>>
  /\ UNCHANGED <<dvars, windowless, sink, over, moving, sizing>>

\* Without a window every frame is taken, published and handed back.
HandBack ==
  /\ ~over /\ windowless /\ frames # <<>>
  /\ Publish(Head(frames))
  /\ pool' = Recycled(pool, <<Head(frames)>>)
  /\ frames' = Tail(frames)
  /\ UNCHANGED <<dvars, windowless, screen, sink, over, moving, sizing>>

\* A picture that moves goes on beyond MaxPackets: one more frame of it, without
\* a window, is published and handed back at once.
GoesOn ==
  /\ moving /\ ~over
  /\ thread = "taking" /\ session > 0 /\ taken = MaxPackets /\ frames = <<>>
  /\ Publish([size |-> size[session], picture |-> MaxPackets + 1])
  /\ UNCHANGED <<dvars, windowless, frames, pool, screen, sink, over, moving, sizing>>

\* The screen of the device is still from now on.
Rests ==
  /\ moving
  /\ moving' = FALSE
  /\ UNCHANGED <<dvars, windowless, frames, pool, screen, sink, queue, due, over, sizing>>

\* The stream has ended, or the window, the time limit or a signal ended it;
\* what still waits in the sink goes with it.
Ends ==
  /\ ~over
  /\ over' = TRUE
  /\ UNCHANGED <<dvars, windowless, frames, pool, screen, sink, queue, due, moving, sizing>>

-----------------------------------------------------------------------------
(* FlexDisplay                                                             *)

\* Mutant: the size of the window itself is compared.
Wanted_Unturned == window

\* What the device would be told: its display shows turned in the window.
Wanted == IF turned /\ window # "none" THEN Turn[window] ELSE window

WindowMoves ==
  /\ flex /\ moves < MaxMoves       \* (only --flex-display looks at it)
  /\ moves' = moves + 1
  /\ \/ window' \in (Sizes \union {"none"}) \ {window} /\ UNCHANGED turned
     \/ turned' = ~turned /\ UNCHANGED window
  /\ UNCHANGED <<dvars, showing, flex, seen, sent, told, display>>

\* A size is asked for once it has been seen twice.  A control queue that
\* stays full takes no message, and nothing asks again.
Poll ==
  /\ flex /\ ~over /\ window # "none"
  /\ IF Wanted # seen
     THEN seen' = Wanted /\ UNCHANGED <<sent, told>>
     ELSE /\ Wanted # sent
          /\ sent' = Wanted
          /\ told' \in {Wanted, told}
          /\ UNCHANGED seen
  /\ UNCHANGED <<dvars, showing, flex, window, turned, moves, display>>

\* The device does as it was told, or turns by itself.
DisplayChanges ==
  /\ session < MaxSessions      \* (bound)
  /\ \/ told # "none" /\ display' = told
     \/ ~flex /\ display' = Turn[display]
  /\ display' # display
  /\ UNCHANGED <<dvars, showing, flex, window, turned, moves, seen, sent, told>>

Next ==
  \/ ConfigComes \/ PacketComes \/ Decodes \/ Sends
  \/ Idle \/ Draw \/ HandBack \/ GoesOn \/ Rests \/ Ends \/ ComesDue
  \/ WindowMoves \/ Poll \/ DisplayChanges

(***************************************************************************)
(* The pump and the poll are repeating timers of an event loop that runs   *)
(* until it ends, and the clock passes.  While the picture moves frames    *)
(* come, and the loop without a window is not promised a pause.            *)
(***************************************************************************)
Fairness ==
  /\ WF_vars(~moving /\ Idle) /\ WF_vars(Draw) /\ WF_vars(HandBack)
  /\ WF_vars(ComesDue) /\ WF_vars(Poll)
  /\ WF_vars(Decodes) /\ WF_vars(Sends)
  /\ WF_vars(moving /\ PacketTaken) /\ WF_vars(GoesOn)

Spec == Init /\ [][Next]_vars /\ Fairness

-----------------------------------------------------------------------------
(* Properties                                                              *)

(* Once the window rests, the size it shows the picture at has been asked  *)
(* for, and no other one since: a drag, a size come back to, a window      *)
(* hidden and shown, and a rotation that leaves its size alone.            *)
FlexSettles ==
  <>[](flex =>
         \/ over \/ window = "none"
         \/ sent \in Sizes /\ window = IF turned THEN Turn[sent] ELSE sent)

(* A frame the V4L2 sink delays is not kept: it is written out, or gives   *)
(* way to the frames behind it, also when the screen of the device is      *)
(* still and no frame comes any more, and when it turns.  What keeps it    *)
(* is only, without a window, a picture of another size that moves from    *)
(* then on and never pauses.                                               *)
Queues(n) == \E i \in DOMAIN queue : queue[i] = n
MovesAtAnotherSize == moving /\ session > 0 /\ size[session] # sink

NoFrameIsKept ==
  \A n \in 1 .. MaxPackets :
    Queues(n) ~> (over \/ thread = "failed" \/ ~Queues(n) \/ []MovesAtAnotherSize)
=============================================================================
