------------------------------ MODULE DelayBuffer ------------------------------
(***************************************************************************)
(* The --video-buffer stage (media/delay_buffer.rs): a queue, a flag and   *)
(* one condition variable shared by two threads.                           *)
(*                                                                         *)
(*   feed    "scrcpy-delayfeed": receives decoded frames and calls push    *)
(*   worker  "scrcpy-delaybuf": DelayBuffer::run, holds each frame until   *)
(*           its deadline and sends it to the renderer's bounded channel   *)
(*                                                                         *)
(* A critical section, from the lock to the next unlock or wait, is one    *)
(* action; a blocking channel send is an action that is enabled only when  *)
(* the channel has room or its receiver is gone.  Time is left out: when   *)
(* a deadline passes is nondeterministic.  Frames are numbered in the      *)
(* order the decoder produced them; 0 stands for no frame.                 *)
(***************************************************************************)
EXTENDS Naturals, Sequences

CONSTANTS
  InFlight,             \* IN_FLIGHT, how many frames the queue may hold
  OutCap,               \* capacity of the channel to the renderer
  MaxFrames             \* bound: frames the decoder produces

ASSUME BufferAssumption ==
  /\ InFlight \in Nat \ {0}
  /\ OutCap \in Nat \ {0}
  /\ MaxFrames \in Nat

VARIABLES
  queue,                \* DelayBufferInner::queue
  stopped,              \* DelayBufferInner::stopped
  firstFrameSent,       \* DelayBufferInner::first_frame_sent
  sleeping,             \* the threads asleep on the condition variable
  producer,             \* where the producer is
  worker,               \* where the consumer is
  hand,                 \* the frame the worker has taken from the queue
  pushed,               \* the number of the last frame handed to push
  accepted,             \* history: how many frames push let in
  output,               \* the channel to the renderer
  outOpen,              \* whether the renderer still holds the receiver
  shown                 \* the number of the last frame the renderer received

inner == <<queue, stopped, firstFrameSent>>
channel == <<output, outOpen, shown>>
delayVars == <<queue, stopped, firstFrameSent, sleeping, producer, worker, hand, pushed,
          accepted, output, outOpen, shown>>

Frames == 1..MaxFrames
Threads == {"feed", "worker"}
FeedAt == {"recv", "through", "room", "joining", "ended"}
WorkerAt == {"top", "idle", "holding", "sending", "failed", "notifying", "done"}

(* The queue's bound is the only thing here that is not a plain type: it   *)
(* is what keeps a stalled renderer from retaining every decoded frame.    *)
DelayTypes ==
  /\ queue \in Seq(Frames) /\ Len(queue) <= InFlight
  /\ stopped \in BOOLEAN /\ firstFrameSent \in BOOLEAN
  /\ sleeping \subseteq Threads
  /\ producer \in FeedAt /\ worker \in WorkerAt
  /\ hand \in Frames \union {0}
  /\ pushed \in 0..MaxFrames /\ accepted \in 0..MaxFrames
  /\ output \in Seq(Frames) /\ Len(output) <= OutCap
  /\ outOpen \in BOOLEAN
  /\ shown \in 0..MaxFrames

DelayInit ==
  /\ queue = <<>> /\ stopped = FALSE /\ firstFrameSent = FALSE
  /\ sleeping = {} /\ producer = "recv" /\ worker = "top" /\ hand = 0
  /\ pushed = 0 /\ accepted = 0
  /\ output = <<>> /\ outOpen = TRUE /\ shown = 0

--------------------------------------------------------------------------------
(* The two conditions the threads sleep on, and the wake-up. *)

HasRoom_OffByOne == Len(queue) <= InFlight
HasRoom == Len(queue) < InFlight

GoesThrough == ~firstFrameSent /\ queue = <<>>

(* The worker took a frame: a producer waiting for room is told. *)
TakeNotifies_Missing == sleeping
TakeNotifies == {}

(* A push tells a worker that waits for a frame. *)
PushNotifies == {}

--------------------------------------------------------------------------------
(* The producer: DelayBuffer::push *)

Admit_DropsOldest(frame) ==
  /\ \/ stopped /\ UNCHANGED <<queue, sleeping, accepted>>
     \/ /\ ~stopped
        /\ queue' = Append(IF HasRoom THEN queue ELSE Tail(queue), frame)
        /\ accepted' = accepted + 1
        /\ sleeping' = PushNotifies
  /\ producer' = "recv"

(* The rest of push under the lock: wait for room, or return because the   *)
(* buffer was stopped, or queue the frame.                                 *)
Admit(frame) ==
  \/ /\ stopped
     /\ producer' = "recv"
     /\ UNCHANGED <<queue, sleeping, accepted>>
  \/ /\ ~stopped /\ HasRoom
     /\ queue' = Append(queue, frame)
     /\ accepted' = accepted + 1
     /\ sleeping' = PushNotifies
     /\ producer' = "recv"
  \/ /\ ~stopped /\ ~HasRoom
     /\ sleeping' = sleeping \union {"feed"}
     /\ producer' = "room"
     /\ UNCHANGED <<queue, accepted>>

PushFirst ==
  /\ producer = "recv" /\ pushed < MaxFrames /\ GoesThrough
  /\ pushed' = pushed + 1
  /\ accepted' = accepted + 1
  /\ firstFrameSent' = TRUE
  /\ producer' = "through"
  /\ UNCHANGED <<queue, stopped, sleeping, worker, hand, channel>>

(* The blocking send of the first frame, outside the lock. *)
ForwardFirst ==
  /\ producer = "through"
  /\ \/ outOpen /\ Len(output) < OutCap /\ output' = Append(output, pushed)
     \/ ~outOpen /\ UNCHANGED output
  /\ producer' = "recv"
  /\ UNCHANGED <<inner, sleeping, worker, hand, pushed, accepted, outOpen, shown>>

Push ==
  /\ producer = "recv" /\ pushed < MaxFrames /\ ~GoesThrough
  /\ pushed' = pushed + 1
  /\ firstFrameSent' = TRUE
  /\ Admit(pushed + 1)
  /\ UNCHANGED <<stopped, worker, hand, channel>>

(* The producer is awake again, in the loop that waits for room. *)
PushResumes ==
  /\ producer = "room" /\ "feed" \notin sleeping
  /\ Admit(pushed)
  /\ UNCHANGED <<stopped, firstFrameSent, worker, hand, pushed, channel>>

(* The decoder's channel closed: the feed thread drops the buffer, whose   *)
(* Drop stops it and joins the worker.                                     *)
DropBuffer ==
  /\ producer = "recv"
  /\ producer' = "joining"
  /\ stopped' = TRUE
  /\ sleeping' = {}
  /\ UNCHANGED <<queue, firstFrameSent, worker, hand, pushed, accepted, channel>>

Joined ==
  /\ producer = "joining" /\ worker = "done"
  /\ producer' = "ended"
  /\ UNCHANGED <<inner, sleeping, worker, hand, pushed, accepted, channel>>

(* stop, called by somebody else who holds the buffer.  The session gives  *)
(* nobody else a handle; the method is public and its tests call it so.    *)
Stop ==
  /\ ~stopped
  /\ stopped' = TRUE
  /\ sleeping' = {}
  /\ UNCHANGED <<queue, firstFrameSent, producer, worker, hand, pushed, accepted, channel>>

--------------------------------------------------------------------------------
(* The consumer: DelayBuffer::run *)

AtTheTop == worker \in {"top", "idle"} /\ "worker" \notin sleeping

WorkerWaits ==
  /\ AtTheTop /\ ~stopped /\ queue = <<>>
  /\ worker' = "idle"
  /\ sleeping' = sleeping \union {"worker"}
  /\ UNCHANGED <<inner, producer, hand, pushed, accepted, channel>>

WorkerStops ==
  /\ AtTheTop /\ stopped
  /\ queue' = <<>>
  /\ worker' = "done"
  /\ UNCHANGED <<stopped, firstFrameSent, sleeping, producer, hand, pushed, accepted, channel>>

(* A frame is taken: it is overdue and goes out at once, or is held.       *)
(* TakeNotifies wakes the others before this thread itself may sleep.      *)
WorkerTakes ==
  /\ AtTheTop /\ ~stopped /\ queue # <<>>
  /\ hand' = Head(queue)
  /\ queue' = Tail(queue)
  /\ \/ worker' = "sending" /\ sleeping' = TakeNotifies
     \/ worker' = "holding" /\ sleeping' = TakeNotifies \union {"worker"}
  /\ UNCHANGED <<stopped, firstFrameSent, producer, pushed, accepted, channel>>

(* The deadline: reached while asleep, or found reached when woken. *)
HoldEnds ==
  /\ worker = "holding" /\ ~stopped
  /\ worker' = "sending"
  /\ sleeping' = sleeping \ {"worker"}
  /\ UNCHANGED <<inner, producer, hand, pushed, accepted, channel>>

(* Woken before the deadline, by a push: the deadline is worked out again. *)
HoldAgain ==
  /\ worker = "holding" /\ ~stopped /\ "worker" \notin sleeping
  /\ sleeping' = sleeping \union {"worker"}
  /\ UNCHANGED <<inner, producer, worker, hand, pushed, accepted, channel>>

(* Woken by a stop, or timed out to find one: the frame in hand is dropped *)
(* and what is queued is left where it is.                                 *)
HoldStops ==
  /\ worker = "holding" /\ stopped
  /\ worker' = "done"
  /\ hand' = 0
  /\ sleeping' = sleeping \ {"worker"}
  /\ UNCHANGED <<inner, producer, pushed, accepted, channel>>

WorkerSends ==
  /\ worker = "sending" /\ outOpen /\ Len(output) < OutCap
  /\ output' = Append(output, hand)
  /\ hand' = 0
  /\ worker' = "top"
  /\ UNCHANGED <<inner, sleeping, producer, pushed, accepted, outOpen, shown>>

WorkerSendFails_Returns ==
  /\ worker = "sending" /\ ~outOpen
  /\ hand' = 0
  /\ worker' = "done"
  /\ UNCHANGED <<inner, sleeping, producer, pushed, accepted, channel>>
WorkerSendFails ==
  /\ worker = "sending" /\ ~outOpen
  /\ hand' = 0
  /\ worker' = "failed"
  /\ UNCHANGED <<inner, sleeping, producer, pushed, accepted, channel>>

(* Nobody draws any more: the flag under the lock, then the wake-up. *)
WorkerMarks ==
  /\ worker = "failed"
  /\ stopped' = TRUE
  /\ worker' = "notifying"
  /\ UNCHANGED <<queue, firstFrameSent, sleeping, producer, hand, pushed, accepted, channel>>

WorkerNotifies ==
  /\ worker = "notifying"
  /\ sleeping' = {}
  /\ worker' = "done"
  /\ UNCHANGED <<inner, producer, hand, pushed, accepted, channel>>

(* A condition variable may wake a thread for no reason. *)
SpuriousWake ==
  /\ \E t \in sleeping : sleeping' = sleeping \ {t}
  /\ UNCHANGED <<inner, producer, worker, hand, pushed, accepted, channel>>

--------------------------------------------------------------------------------
(* The renderer: the pump's timer takes what is there; it may also leave. *)

Receive ==
  /\ outOpen /\ output # <<>>
  /\ shown' = Head(output)
  /\ output' = Tail(output)
  /\ UNCHANGED <<inner, sleeping, producer, worker, hand, pushed, accepted, outOpen>>

DropReceiver ==
  /\ outOpen
  /\ outOpen' = FALSE
  /\ output' = <<>>
  /\ UNCHANGED <<inner, sleeping, producer, worker, hand, pushed, accepted, shown>>

(* Both threads are gone and the renderer has what it will ever get. *)
Finished ==
  /\ producer = "ended" /\ worker = "done" /\ output = <<>>
  /\ UNCHANGED delayVars

--------------------------------------------------------------------------------
Feed == PushFirst \/ ForwardFirst \/ Push \/ PushResumes \/ DropBuffer \/ Joined
Work == WorkerWaits \/ WorkerStops \/ WorkerTakes \/ HoldEnds \/ HoldAgain
        \/ HoldStops \/ WorkerSends \/ WorkerSendFails \/ WorkerMarks \/ WorkerNotifies
Render == Receive \/ DropReceiver

DelayNext == Feed \/ Stop \/ Work \/ SpuriousWake \/ Render \/ Finished

(* Each thread runs when it can.  The deadline is bounded by the ceiling,  *)
(* however often a push makes the worker compute it again: strong fairness *)
(* of HoldEnds.  The renderer drains its channel (a 4 ms timer) until it   *)
(* leaves.  Nothing is assumed of the decoder, of a stop or of a wake-up   *)
(* nobody caused.                                                          *)
DelayFairness ==
  /\ WF_delayVars(ForwardFirst) /\ WF_delayVars(PushResumes) /\ WF_delayVars(Joined)
  /\ WF_delayVars(Work) /\ SF_delayVars(HoldEnds)
  /\ WF_delayVars(Receive)

DelaySpec == DelayInit /\ [][DelayNext]_delayVars
FairSpec == DelaySpec /\ DelayFairness

--------------------------------------------------------------------------------
(* Properties *)

(* A thread sleeps only while what it waits for has not happened: the      *)
(* worker for a frame or a stop, the producer for room or a stop -- except *)
(* between a failing worker's flag and its notify.  One condition variable *)
(* serves both waits, so one wake-up too few is a frame never shown or a   *)
(* decoder held for ever.                                                  *)
NoLostWakeup ==
  /\ "worker" \in sleeping /\ worker = "idle" => queue = <<>> /\ ~stopped
  /\ "worker" \in sleeping /\ worker = "holding" => ~stopped
  /\ "feed" \in sleeping =>
       \/ ~HasRoom /\ ~stopped
       \/ worker = "notifying"

(* While the buffer runs and somebody draws, every frame pushed is either  *)
(* shown or in exactly one place on the way there: none is lost, however   *)
(* fast the stream ("a fast stream loses no frames").                      *)
NothingLost ==
  outOpen /\ ~stopped =>
    pushed = shown + Len(output) + Len(queue)
             + (IF producer \in {"through", "room"} THEN 1 ELSE 0)
             + (IF hand # 0 THEN 1 ELSE 0)

(* The buffer is a bounded first-in first-out line: the renderer gets the  *)
(* frames in the order they were decoded, without a gap, a repeat or an    *)
(* overtaking -- by way of the straight-through first frame too -- and a   *)
(* stop cuts the end off, it never makes a hole.                           *)
Fifo == INSTANCE FrameFifo WITH Cap <- InFlight + 1 + OutCap,
                                delivered <- shown, open <- outOpen
ImplementsFifo == Fifo!Spec

(* Nobody waits for good.  A frame pushed is shown, unless the buffer is   *)
(* stopped or nobody draws; a producer that waits for room is let go -- the *)
(* renderer draws, or it leaves and the worker passes that on, or the      *)
(* buffer is stopped -- and the buffer's Drop, which joins the worker,     *)
(* returns.                                                                *)
NobodyWaitsForGood ==
  /\ \A f \in Frames : pushed = f ~> shown >= f \/ stopped \/ ~outOpen
  /\ producer = "room" ~> producer # "room"
  /\ producer = "joining" ~> producer = "ended"
================================================================================
