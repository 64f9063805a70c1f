------------------------------ MODULE Gamepads ------------------------------
(***************************************************************************)
(* The gamepads of this desk as gamepads of the device (input/gamepads.rs, *)
(* input/hid_gamepad.rs).  gilrs is a queue of events that a timer drains; *)
(* what gilrs calls connected (view) is the desk as of the last event      *)
(* drained.  A pad that connects takes the first free slot and the device  *)
(* is told to create it; every button and axis of it changes the slot and  *)
(* sends the whole slot as a report.                                       *)
(*                                                                         *)
(* The module is composed with the session that owns the pads: module      *)
(* PanelSession says when Attach and Detach happen and when the timer is   *)
(* gone.  A position p of a stick or a trigger stands for p/2 of its       *)
(* travel.  One button, one direction of the d-pad, one stick axis and one *)
(* trigger of each pad are modelled: the others are bits and fields of     *)
(* their own in the same report.                                           *)
(***************************************************************************)
EXTENDS Integers, Sequences, FiniteSets, SequencesExt

CONSTANTS
  Pads,       \* the gamepads that come and go
  NoPad,      \* an empty slot, a gamepad the device does not have
  MaxPads,    \* MAX_GAMEPADS
  Moves,      \* what a hand does to a pad
  MaxEvents   \* bound: events waiting in gilrs

U16 == 0..65535
Level == 0..32767
Reports == [buttons : SUBSET {"a"}, hat : {0, 3, 7}, stick : U16, trigger : Level]

ASSUME GamepadsAssumption ==
  /\ IsFiniteSet(Pads) /\ NoPad \notin Pads \cup Reports
  /\ MaxPads \in Nat \ {0}
  /\ MaxEvents \in Nat \ {0}
  /\ Moves \subseteq [what : {"press", "release"}, of : {"a", "right", "left"}]
       \cup [what : {"stick", "pull", "axis"}, to : -3..3]

VARIABLES
  plugged,    \* the desk
  events,     \* gilrs's queue
  view,       \* the pads gilrs calls connected
  reading,    \* a session reads the pads: Gamepads and its timer exist
  slots,      \* HidGamepad
  device,     \* the last report the device has of each of its gamepads
  hand        \* what was done to each pad since it was last opened

gamepadVars == <<plugged, events, view, reading, slots, device, hand>>

Max0(n) == IF n > 0 THEN n ELSE 0
Clamp(p, low, high) == IF p < low THEN low ELSE IF p > high THEN high ELSE p

(* A cast of a float to i16 drops the fraction.                              *)
Trunc(n, d) == IF n >= 0 THEN n \div d ELSE -((-n) \div d)

I16Max == 32767
StickValue(p, invert) ==
  LET v == IF invert THEN -p ELSE p IN Trunc(Clamp(v, -2, 2) * I16Max, 2)
TriggerValue(p) == Trunc(Clamp(p, 0, 2) * I16Max, 2)
TriggerFromAxis(p) == Trunc(Clamp(p + 2, 0, 4) * I16Max, 4)

Rescaled(value) == (value + 32768) % 65536

EmptySlot == [pad |-> NoPad, buttons |-> {}, stick |-> 32768, trigger |-> 0]
NoSlots == [i \in 1..MaxPads |-> EmptySlot]
NewSlot(p) == [EmptySlot EXCEPT !.pad = p]

(* The hat of the report: nothing for two opposite directions at once.       *)
DpadValue(buttons) ==
  CASE "right" \in buttons /\ "left" \notin buttons -> 3
    [] "left" \in buttons /\ "right" \notin buttons -> 7
    [] OTHER -> 0

NoReport == NoPad
Report(slot) == [buttons |-> slot.buttons \ {"left", "right"}, hat |-> DpadValue(slot.buttons),
                 stick |-> slot.stick, trigger |-> slot.trigger]
AtRest == [buttons |-> {}, hat |-> 0, stick |-> 32768, trigger |-> 0]

Idle == [buttons |-> {}, stick |-> 0, trigger |-> 0]

SlotsOf(s, p) == {i \in 1..MaxPads : s[i].pad = p}
FirstOf(I) == CHOOSE i \in I : \A j \in I : i <= j

(* The state a drained event changes: slots, device and the ghost hand.      *)
Open_KeepsTheSlot(st, p) ==
  LET free == SlotsOf(st.slots, NoPad) IN
  IF free = {} THEN st
  ELSE [st EXCEPT !.slots[FirstOf(free)].pad = p,
                  !.device[FirstOf(free)] = AtRest,
                  !.hand[p] = Idle]
Open(st, p) ==
  LET free == SlotsOf(st.slots, NoPad) IN
  IF free = {} THEN st
  ELSE [st EXCEPT !.slots[FirstOf(free)] = NewSlot(p),
                  !.device[FirstOf(free)] = AtRest,
                  !.hand[p] = Idle]

Close(st, p) ==
  LET mine == SlotsOf(st.slots, p) IN
  IF mine = {} THEN st
  ELSE [st EXCEPT !.slots[FirstOf(mine)].pad = NoPad,
                  !.device[FirstOf(mine)] = NoReport,
                  !.hand[p] = Idle]

(* process_button and process_axis: a pad without a slot is not heard.       *)
SlotAfter(slot, move) ==
  CASE move.what = "press" -> [slot EXCEPT !.buttons = @ \cup {move.of}]
    [] move.what = "release" -> [slot EXCEPT !.buttons = @ \ {move.of}]
    [] move.what = "stick" -> [slot EXCEPT !.stick = Rescaled(StickValue(move.to, TRUE))]
    [] move.what = "pull" -> [slot EXCEPT !.trigger = Max0(TriggerValue(move.to))]
    [] move.what = "axis" -> [slot EXCEPT !.trigger = Max0(TriggerFromAxis(move.to))]

(* What the hand is at, in halves of the travel (a trigger read as an axis   *)
(* rests at -2 and is pulled flat at 2).                                     *)
HandAfter(h, move) ==
  CASE move.what = "press" -> [h EXCEPT !.buttons = @ \cup {move.of}]
    [] move.what = "release" -> [h EXCEPT !.buttons = @ \ {move.of}]
    [] move.what = "stick" -> [h EXCEPT !.stick = move.to]
    [] move.what = "pull" -> [h EXCEPT !.trigger = 2 * move.to]
    [] move.what = "axis" -> [h EXCEPT !.trigger = move.to + 2]

Process(st, p, move) ==
  LET mine == SlotsOf(st.slots, p)
      i == FirstOf(mine)
      slot == SlotAfter(st.slots[i], move)
  IN IF mine = {} THEN st
     ELSE [st EXCEPT !.slots[i] = slot, !.device[i] = Report(slot),
                     !.hand[p] = HandAfter(@, move)]

(* One event of the queue, as poll handles it.                               *)
Handle(st, event) ==
  CASE event.what = "connected" ->
         Open([st EXCEPT !.view = @ \cup {event.pad}], event.pad)
    [] event.what = "disconnected" ->
         Close([st EXCEPT !.view = @ \ {event.pad}], event.pad)
    [] OTHER -> Process(st, event.pad, event.move)

(* The events of a sequence, one after the other.                            *)
Handled(st, seq) ==
  LET after[i \in 0..Len(seq)] ==
        IF i = 0 THEN st ELSE Handle(after[i - 1], seq[i])
  IN after[Len(seq)]

(* Opening and closing the pads of this list is what such events do.         *)
Each(what, order) == [i \in 1..Len(order) |-> [what |-> what, pad |-> order[i]]]

PadState == [slots |-> slots, device |-> device, view |-> view, hand |-> hand]
SetPadState(st) ==
  /\ slots' = st.slots
  /\ device' = st.device
  /\ view' = st.view
  /\ hand' = st.hand

NoHand == [p \in Pads |-> Idle]

GamepadsInit ==
  /\ plugged \in SUBSET Pads
  /\ events = << >>
  /\ view = {}
  /\ reading = FALSE
  /\ slots = NoSlots
  /\ device = [i \in 1..MaxPads |-> NoReport]
  /\ hand = NoHand

(* Gamepads::new and attach: a HidGamepad of its own for this session, and   *)
(* the pads already on the desk opened in the order gilrs numbers them.      *)
Attach ==
  LET fresh == [slots |-> NoSlots,
                device |-> [i \in 1..MaxPads |-> NoReport],
                view |-> plugged, hand |-> NoHand]
  IN /\ reading' = TRUE
     /\ events' = << >>
     /\ \E order \in SetToSeqs(plugged) : SetPadState(Handled(fresh, Each("connected", order)))
     /\ UNCHANGED plugged

(* detach, the timer having been dropped before it: the pads gilrs calls     *)
(* connected are closed, one after the other, and the HidGamepad is dropped. *)
Detach ==
  /\ reading' = FALSE
  /\ events' = << >>
  /\ \E order \in SetToSeqs(view) :
       LET st == Handled(PadState, Each("disconnected", order))
       IN SetPadState([st EXCEPT !.view = {}, !.slots = NoSlots])
  /\ UNCHANGED plugged

(* The timer drains the queue.                                               *)
Poll ==
  /\ reading
  /\ events # << >>
  /\ events' = << >>
  /\ SetPadState(Handled(PadState, events))
  /\ UNCHANGED <<plugged, reading>>

(* The desk.  gilrs has a queue only while a session reads it.               *)
Queue(event) == events' = IF reading THEN Append(events, event) ELSE events

PlugIn == \E p \in Pads \ plugged :
  /\ Len(events) < MaxEvents
  /\ plugged' = plugged \cup {p}
  /\ Queue([what |-> "connected", pad |-> p])
  /\ UNCHANGED <<view, reading, slots, device, hand>>

Unplug == \E p \in plugged :
  /\ Len(events) < MaxEvents
  /\ plugged' = plugged \ {p}
  /\ Queue([what |-> "disconnected", pad |-> p])
  /\ UNCHANGED <<view, reading, slots, device, hand>>

MoveHand == \E p \in plugged, move \in Moves :
  /\ reading
  /\ Len(events) < MaxEvents
  /\ Queue([what |-> "move", pad |-> p, move |-> move])
  /\ UNCHANGED <<plugged, view, reading, slots, device, hand>>

Desk == PlugIn \/ Unplug \/ MoveHand

GamepadsTypeOK ==
  /\ plugged \subseteq Pads
  /\ view \subseteq Pads
  /\ Len(events) <= MaxEvents
  /\ reading \in BOOLEAN
  /\ \A i \in 1..MaxPads :
       /\ slots[i].pad \in Pads \cup {NoPad}
       /\ slots[i].stick \in U16
       /\ slots[i].trigger \in Level

(* The gamepads the device has are those of the slots, a pad has at most one *)
(* and is one gilrs still calls connected, and a session that is over has    *)
(* left the device none (hid_gamepad.rs, open and close; gamepads.rs,        *)
(* detach).                                                                  *)
NoGhostPad ==
  /\ \A i \in 1..MaxPads : (device[i] # NoReport) <=> (slots[i].pad # NoPad)
  /\ \A i, j \in 1..MaxPads : (i # j /\ slots[i].pad = slots[j].pad) => slots[i].pad = NoPad
  /\ \A i \in 1..MaxPads : slots[i].pad # NoPad => reading /\ slots[i].pad \in view

(* What the device reads of a pad is what the hand has done to it since it   *)
(* was opened, whatever pad had the slot before: at rest it reads rest, flat *)
(* out it reads the end of its range, up is up, and a trigger gives the same *)
(* by the road of buttons and by that of axes (gamepads.rs, stick_value,     *)
(* trigger_value, trigger_from_axis; hid_gamepad.rs, process_axis); and a    *)
(* pad the device has is one the hand can have touched: see NoGhostPad.      *)
PadsAreTheHands ==
  /\ NoGhostPad
  /\ \A i \in 1..MaxPads : slots[i].pad # NoPad =>
    LET h == hand[slots[i].pad] IN
    /\ device[i].buttons = h.buttons \cap {"a"}
    /\ device[i].hat = 0 <=> (("left" \in h.buttons) <=> ("right" \in h.buttons))
    /\ device[i].stick = 32768 <=> h.stick = 0
    /\ h.stick >= 2 => device[i].stick <= 1
    /\ h.stick <= -2 => device[i].stick = 65535
    /\ device[i].trigger = 0 <=> h.trigger <= 0
    /\ device[i].trigger = I16Max <=> h.trigger >= 4
=============================================================================
