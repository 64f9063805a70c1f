------------------------------- MODULE FrameFifo -------------------------------
(***************************************************************************)
(* What the video delay buffer promises its two neighbours: a bounded      *)
(* first-in first-out line of frames.  Frames are numbered in the order    *)
(* they are accepted; the reader gets 1, 2, 3, ... with no gap, no repeat  *)
(* and no overtaking, for as long as it reads.  When the line closes, what *)
(* is still in it may never be delivered, and nothing else is.             *)
(***************************************************************************)
EXTENDS Naturals

CONSTANT Cap            \* how many accepted frames may be undelivered

VARIABLES
  accepted,             \* number of frames taken in, the number of the last
  delivered,            \* the number of the last frame handed to the reader
  open                  \* whether the reader is still there

vars == <<accepted, delivered, open>>

Init == accepted = 0 /\ delivered = 0 /\ open = TRUE

(* A frame is taken in: only into room, while somebody reads. *)
Accept ==
  /\ open => accepted - delivered < Cap
  /\ accepted' = accepted + 1
  /\ UNCHANGED <<delivered, open>>

(* The oldest undelivered frame is handed over. *)
Deliver ==
  /\ open
  /\ delivered < accepted
  /\ delivered' = delivered + 1
  /\ UNCHANGED <<accepted, open>>

(* The reader leaves. *)
Leave == open /\ open' = FALSE /\ UNCHANGED <<accepted, delivered>>

Next == Accept \/ Deliver \/ Leave

Spec == Init /\ [][Next]_vars
================================================================================
