------------------------------- MODULE Controller -------------------------------
(***************************************************************************)
(* The control channel (control/controller.rs): what the user does becomes *)
(* messages on one bounded queue, and the "scrcpy-controller" thread       *)
(* writes them to the control socket.  The Controller is used on the event *)
(* loop and each ControlHandle on a worker thread (a file transfer); both  *)
(* push through the same function.  A move or a scroll is droppable and    *)
(* gives way at once to a full queue; anything else waits 250 ms for room. *)
(***************************************************************************)
EXTENDS Naturals, Sequences, SequencesExt

CONSTANTS
  Pushers,              \* the holders of a sender: the Controller, the handles
  QUEUE_LIMIT,          \* capacity of the queue
  MaxPushes             \* bound: messages each of them pushes

ASSUME ControllerAssumption ==
  /\ Pushers # {} /\ QUEUE_LIMIT \in Nat \ {0} /\ MaxPushes \in Nat

VARIABLES
  queue,                \* the channel
  senders,              \* the pushers that still hold their sender
  pushes,               \* how many messages each has pushed
  waiting,              \* pusher -> the message it waits to find room for
  refused,              \* history: the messages whose push returned false
  sender,               \* the thread: taking, writing; failed or ended
  hand,                 \* the message it is writing
  socket,               \* draining, or stalled
  written               \* history: the messages the device was sent, in order

controlVars == <<queue, senders, pushes, waiting, refused, sender, hand, socket, written>>

ControlMsg == [from : Pushers, no : 1..MaxPushes, droppable : BOOLEAN]
None == [from |-> "nobody"]

ControlInit ==
  /\ queue = <<>> /\ senders = Pushers
  /\ pushes = [p \in Pushers |-> 0] /\ waiting = [p \in Pushers |-> None]
  /\ refused = {} /\ sender = "taking" /\ hand = None
  /\ socket = "draining" /\ written = <<>>

--------------------------------------------------------------------------------
(* push *)

Connected == sender \in {"taking", "writing"}
Full == Len(queue) >= QUEUE_LIMIT

Enqueue(msg) == queue' = Append(queue, msg) /\ UNCHANGED refused

Refuse_MakesRoom(msg) ==
  refused' = refused \union {msg}
  /\ queue' = IF Connected /\ msg.droppable THEN Append(Tail(queue), msg) ELSE queue
Refuse(msg) == refused' = refused \union {msg} /\ UNCHANGED queue

(* A push that finds room, gives way, or finds the channel dead returns at *)
(* once; one that may not be lost waits where the queue is full.           *)
Push(p) ==
  /\ p \in senders /\ waiting[p] = None /\ pushes[p] < MaxPushes
  /\ pushes' = [pushes EXCEPT ![p] = @ + 1]
  /\ \E b \in BOOLEAN :
       LET msg == [from |-> p, no |-> pushes[p] + 1, droppable |-> b]
       IN  \/ Connected /\ ~Full /\ Enqueue(msg) /\ UNCHANGED waiting
           \/ Connected /\ Full /\ msg.droppable /\ Refuse(msg) /\ UNCHANGED waiting
           \/ ~Connected /\ Refuse(msg) /\ UNCHANGED waiting
           \/ /\ Connected /\ Full /\ ~msg.droppable
              /\ waiting' = [waiting EXCEPT ![p] = msg]
              /\ UNCHANGED <<queue, refused>>
  /\ UNCHANGED <<senders, sender, hand, socket, written>>

FindsRoom(p) ==
  /\ waiting[p] # None /\ Connected /\ ~Full
  /\ Enqueue(waiting[p])
  /\ waiting' = [waiting EXCEPT ![p] = None]
  /\ UNCHANGED <<senders, pushes, sender, hand, socket, written>>

(* ROOM_FOR_ONE_MORE has passed with the queue full, or the thread died. *)
GivesUp(p) ==
  /\ waiting[p] # None /\ (Connected => Full)
  /\ Refuse(waiting[p])
  /\ waiting' = [waiting EXCEPT ![p] = None]
  /\ UNCHANGED <<senders, pushes, sender, hand, socket, written>>

(* The Controller, or a handle, is dropped: one sender fewer.  Nothing     *)
(* waits for the thread; it ends on its own.                               *)
LetGo(p) ==
  /\ p \in senders /\ waiting[p] = None
  /\ senders' = senders \ {p}
  /\ UNCHANGED <<queue, pushes, waiting, refused, sender, hand, socket, written>>

--------------------------------------------------------------------------------
(* The sender thread: run_sender *)

SenderTakes ==
  /\ sender = "taking" /\ queue # <<>>
  /\ hand' = Head(queue) /\ queue' = Tail(queue)
  /\ sender' = "writing"
  /\ UNCHANGED <<senders, pushes, waiting, refused, socket, written>>

SenderWrites ==
  /\ sender = "writing" /\ socket = "draining"
  /\ written' = Append(written, hand)
  /\ hand' = None
  /\ sender' = "taking"
  /\ UNCHANGED <<queue, senders, pushes, waiting, refused, socket>>

(* The thread breaks off, and with its receiver the queue goes. *)
SenderFails ==
  /\ sender = "writing"
  /\ sender' = "failed"
  /\ hand' = None /\ queue' = <<>>
  /\ UNCHANGED <<senders, pushes, waiting, refused, socket, written>>

NothingToDo_NobodyHolds == senders = {}
(* The iteration ends when no sender is left and the queue is drained. *)
NothingToDo == senders = {} /\ queue = <<>>

SenderEnds ==
  /\ sender = "taking" /\ NothingToDo
  /\ sender' = "ended"
  /\ queue' = <<>>
  /\ UNCHANGED <<senders, pushes, waiting, refused, hand, socket, written>>

(* External: adb, or the device's control reader, stops and starts again.  *)
SocketChanges ==
  /\ socket' = (IF socket = "draining" THEN "stalled" ELSE "draining")
  /\ UNCHANGED <<queue, senders, pushes, waiting, refused, sender, hand, written>>

--------------------------------------------------------------------------------
ControlNext ==
  \/ \E p \in Pushers : Push(p) \/ FindsRoom(p) \/ GivesUp(p) \/ LetGo(p)
  \/ SenderTakes \/ SenderWrites \/ SenderFails \/ SenderEnds
  \/ SocketChanges

(* A push that waits is answered, by room or by the clock; the thread runs *)
(* when it can.  Nothing is assumed of the socket: it may stall for ever.  *)
ControlFairness ==
  /\ \A p \in Pushers : WF_controlVars(FindsRoom(p) \/ GivesUp(p))
  /\ WF_controlVars(SenderTakes) /\ WF_controlVars(SenderWrites) /\ WF_controlVars(SenderEnds)

ControlSpec == ControlInit /\ [][ControlNext]_controlVars /\ ControlFairness

--------------------------------------------------------------------------------
(* Properties *)

(* Where a message can be that has been pushed and has not been lost. *)
OnTheWay == Range(queue) \union {hand} \union {waiting[p] : p \in Pushers}

(* Nothing vanishes and nothing is told wrong.  As long as the thread      *)
(* lives, every message pushed was refused, or has been sent, or is on the *)
(* way: the queue itself loses nothing, whoever pushes and however full it *)
(* runs, so a release follows its press.  "False means the device will not *)
(* see it" (push_msg): a message whose push was refused, the one that gave *)
(* up after waiting included, has not been sent and never will be.  And    *)
(* what one thread pushes keeps its order: a release that waited for room  *)
(* is not overtaken by the next press.                                     *)
NothingVanishes ==
  /\ Connected =>
       \A p \in Pushers : \A n \in 1..pushes[p] :
         \E msg \in refused \union Range(written) \union OnTheWay :
            msg # None /\ msg.from = p /\ msg.no = n
  /\ refused \intersect (Range(written) \union OnTheWay) = {}
  /\ LET line == written \o (IF hand = None THEN <<>> ELSE <<hand>>) \o queue
     IN  \A i, j \in 1..Len(line) :
           i < j /\ line[i].from = line[j].from => line[i].no < line[j].no

(* A push comes back and what it was told is true in the end.  The push    *)
(* happens on the thread that draws: however long the socket stalls, it    *)
(* returns.  What was accepted is sent, also after the Controller was      *)
(* dropped -- the messages that detach the HID devices are pushed just     *)
(* before it -- and the thread ends once nobody can push: only a socket    *)
(* that stalls or fails prevents either.                                   *)
AcceptedIsSent ==
  /\ \A p \in Pushers : waiting[p] # None ~> waiting[p] = None
  /\ \A msg \in ControlMsg :
       msg \in Range(queue) ~> \/ msg \in Range(written)
                              \/ socket = "stalled" \/ sender = "failed"
  /\ senders = {} ~> ~Connected \/ socket = "stalled"
================================================================================
