------------------------------ MODULE PanelProofs ------------------------------
(***************************************************************************)
(* Proofs about the panel, of what its modules say of the code: the        *)
(* sessions it starts, their ends and the game pads plugged in meanwhile   *)
(* (PanelSession, Gamepads), and the devices, ticks and profiles           *)
(* (PanelDevices).                                                         *)
(***************************************************************************)
EXTENDS PanelSession, PanelDevices, FilteringProofs, FiniteSetTheorems

--------------------------------------------------------------------------------
(***************************************************************************)
(* Sessions, for any number of them, any options and any pads: nothing of  *)
(* one is left for the next, the window and the tray say what is so, and   *)
(* the phone has the pads that are plugged in, each where its user's hand  *)
(* is.                                                                     *)
(*                                                                         *)
(* The pads come first, on their own, as the operators of Gamepads that an *)
(* action of a session is made of: what holds of the slots, of what the    *)
(* device was told and of the queue of gilrs before it, holds after it     *)
(* (PadsStay).  The session's own invariant says which kinds of session    *)
(* there are at once (OneAtATime) and what each has.                       *)
(***************************************************************************)

Owner == Pads \cup {NoPad}
Bits == SUBSET {"a", "right", "left"}
Travel == -3..3
Depth == -6..6
Slot == [pad : Owner, buttons : Bits, stick : U16, trigger : Level]
Hand == [buttons : Bits, stick : Travel, trigger : Depth]
Heard == Reports \cup {NoReport}
PadStates == [slots : [1..MaxPads -> Slot], device : [1..MaxPads -> Heard],
              view : SUBSET Pads, hand : [Pads -> Hand]]
Event == [what : {"connected", "disconnected"}, pad : Pads]
           \cup [what : {"move"}, pad : Pads, move : Moves]

(* What the device is told of a slot is the slot, and the slot is where the *)
(* hand is.                                                                 *)
IsAt(slot, h) ==
  /\ slot.buttons = h.buttons
  /\ slot.stick = 32768 <=> h.stick = 0
  /\ h.stick >= 2 => slot.stick <= 1
  /\ h.stick <= -2 => slot.stick = 65535
  /\ slot.trigger = 0 <=> h.trigger <= 0
  /\ slot.trigger = I16Max <=> h.trigger >= 4

GoodPads(st) ==
  /\ st \in PadStates
  /\ \A i \in 1..MaxPads :
       st.device[i] = IF st.slots[i].pad = NoPad THEN NoReport ELSE Report(st.slots[i])
  /\ \A i, j \in 1..MaxPads :
       st.slots[i].pad = st.slots[j].pad => i = j \/ st.slots[i].pad = NoPad
  /\ \A i \in 1..MaxPads :
       st.slots[i].pad # NoPad => IsAt(st.slots[i], st.hand[st.slots[i].pad])

PadsOf(st) == {st.slots[i].pad : i \in 1..MaxPads} \ {NoPad}

-------------------------------------------------------------------------------
LEMMA SlotsFacts ==
  ASSUME NEW I \in SUBSET (1..MaxPads), I # {}
  PROVE  FirstOf(I) \in I
  <1>1. MaxPads \in Nat BY GamepadsAssumption
  <1>2. I \in SUBSET Nat BY <1>1, SMT
  <1>3. PICK i \in I : \A j \in I : ~(j < i) BY <1>2, LeastOne
  <1>4. \A j \in I : i <= j BY <1>2, <1>3, SMT
  <1> QED BY <1>4 DEF FirstOf

(* The stick, over its travel and beyond.                                  *)
StickSays(n, to) ==
  /\ n \in U16
  /\ n = 32768 <=> to = 0
  /\ to >= 2 => n <= 1
  /\ to <= -2 => n = 65535

LEMMA StickFacts ==
  ASSUME NEW to \in Travel
  PROVE  StickSays(Rescaled(StickValue(to, TRUE)), to)
  <1> DEFINE c == Clamp(-to, -2, 2)
             n == Rescaled(StickValue(to, TRUE))
  <1>1. /\ to \in Int /\ (to >= 2 => c = -2) /\ (to = 1 => c = -1) /\ (to = 0 => c = 0)
        /\ (to = -1 => c = 1) /\ (to <= -2 => c = 2)
        BY SMT DEF Clamp, Travel
  <1>2. n = Rescaled(Trunc(c * 32767, 2)) BY DEF StickValue, I16Max
  <1>3. /\ Trunc((-2) * 32767, 2) = -32767
        /\ Trunc((-1) * 32767, 2) = -16383
        /\ Trunc(0 * 32767, 2) = 0
        /\ Trunc(1 * 32767, 2) = 16383
        /\ Trunc(2 * 32767, 2) = 32767
        <2>1. Trunc((-2) * 32767, 2) = -32767 BY SMT DEF Trunc
        <2>2. Trunc((-1) * 32767, 2) = -16383 BY SMT DEF Trunc
        <2>3. Trunc(0 * 32767, 2) = 0 BY SMT DEF Trunc
        <2>4. Trunc(1 * 32767, 2) = 16383 BY SMT DEF Trunc
        <2>5. Trunc(2 * 32767, 2) = 32767 BY SMT DEF Trunc
        <2> QED BY <2>1, <2>2, <2>3, <2>4, <2>5
  <1>4. /\ Rescaled(-32767) = 1 /\ Rescaled(-16383) = 16385 /\ Rescaled(0) = 32768
        /\ Rescaled(16383) = 49151 /\ Rescaled(32767) = 65535
        <2>1. Rescaled(-32767) = 1 BY SMT DEF Rescaled
        <2>2. Rescaled(-16383) = 16385 BY SMT DEF Rescaled
        <2>3. Rescaled(0) = 32768 BY SMT DEF Rescaled
        <2>4. Rescaled(16383) = 49151 BY SMT DEF Rescaled
        <2>5. Rescaled(32767) = 65535 BY SMT DEF Rescaled
        <2> QED BY <2>1, <2>2, <2>3, <2>4, <2>5
  <1> HIDE DEF c, n
  <1>5. /\ (to >= 2 => n = 1) /\ (to = 1 => n = 16385) /\ (to = 0 => n = 32768)
        /\ (to = -1 => n = 49151) /\ (to <= -2 => n = 65535)
        BY <1>1, <1>2, <1>3, <1>4
  <1>6. to >= 2 \/ to = 1 \/ to = 0 \/ to = -1 \/ to <= -2 BY <1>1, SMT
  <1>7. n \in U16 /\ (n = 32768 <=> to = 0)
        <2>1. /\ 1 \in U16 /\ 16385 \in U16 /\ 32768 \in U16 /\ 49151 \in U16 /\ 65535 \in U16
              /\ 1 # 32768 /\ 16385 # 32768 /\ 49151 # 32768 /\ 65535 # 32768
              BY SMT DEF U16
        <2>2. CASE to >= 2
              <3>1. n = 1 BY <1>5, <2>2
              <3>2. to # 0 BY <1>1, <2>2, SMT
              <3> QED BY <2>1, <3>1, <3>2
        <2>3. CASE to = 1
              <3>1. n = 16385 BY <1>5, <2>3
              <3>2. to # 0 BY <2>3, SMT
              <3> QED BY <2>1, <3>1, <3>2
        <2>4. CASE to = 0
              <3>1. n = 32768 BY <1>5, <2>4
              <3> QED BY <2>1, <2>4, <3>1
        <2>5. CASE to = -1
              <3>1. n = 49151 BY <1>5, <2>5
              <3>2. to # 0 BY <2>5, SMT
              <3> QED BY <2>1, <3>1, <3>2
        <2>6. CASE to <= -2
              <3>1. n = 65535 BY <1>5, <2>6
              <3>2. to # 0 BY <1>1, <2>6, SMT
              <3> QED BY <2>1, <3>1, <3>2
        <2> QED BY <1>6, <2>2, <2>3, <2>4, <2>5, <2>6
  <1>8. (to >= 2 => n <= 1) /\ (to <= -2 => n = 65535) BY <1>5, SMT
  <1>9. StickSays(n, to) BY <1>7, <1>8 DEF StickSays
  <1> QED BY <1>9 DEF n

(* A trigger, by the road of buttons and by that of axes.                  *)
LEMMA TriggerFacts ==
  ASSUME NEW to \in Travel
  PROVE  /\ LET n == Max0(TriggerValue(to))
            IN  n \in Level /\ (n = 0 <=> 2 * to <= 0) /\ (n = I16Max <=> 2 * to >= 4)
         /\ LET n == Max0(TriggerFromAxis(to))
            IN  n \in Level /\ (n = 0 <=> to + 2 <= 0) /\ (n = I16Max <=> to + 2 >= 4)
         /\ 2 * to \in Depth /\ to + 2 \in Depth
  <1> DEFINE c == Clamp(to, 0, 2)
             d == Clamp(to + 2, 0, 4)
             n == Max0(TriggerValue(to))
             m == Max0(TriggerFromAxis(to))
  <1>1. to \in Int /\ -3 <= to /\ to <= 3 BY SMT DEF Travel
  <1>2. (to <= 0 => c = 0) /\ (to = 1 => c = 1) /\ (to >= 2 => c = 2)
        BY <1>1, SMT DEF Clamp
  <1>3. (to <= -2 => d = 0) /\ (to = -1 => d = 1) /\ (to = 0 => d = 2) /\ (to = 1 => d = 3)
        /\ (to >= 2 => d = 4)
        BY <1>1, SMT DEF Clamp
  <1>4. n = Max0(Trunc(c * 32767, 2)) /\ m = Max0(Trunc(d * 32767, 4))
        BY DEF TriggerValue, TriggerFromAxis, I16Max
  <1>5. /\ Max0(Trunc(0 * 32767, 2)) = 0 /\ Max0(Trunc(1 * 32767, 2)) = 16383
        /\ Max0(Trunc(2 * 32767, 2)) = 32767
        <2>1. Max0(Trunc(0 * 32767, 2)) = 0 BY SMT DEF Max0, Trunc
        <2>2. Max0(Trunc(1 * 32767, 2)) = 16383 BY SMT DEF Max0, Trunc
        <2>3. Max0(Trunc(2 * 32767, 2)) = 32767 BY SMT DEF Max0, Trunc
        <2> QED BY <2>1, <2>2, <2>3
  <1>6. /\ Max0(Trunc(0 * 32767, 4)) = 0 /\ Max0(Trunc(1 * 32767, 4)) = 8191
        /\ Max0(Trunc(2 * 32767, 4)) = 16383 /\ Max0(Trunc(3 * 32767, 4)) = 24575
        /\ Max0(Trunc(4 * 32767, 4)) = 32767
        <2>1. Max0(Trunc(0 * 32767, 4)) = 0 BY SMT DEF Max0, Trunc
        <2>2. Max0(Trunc(1 * 32767, 4)) = 8191 BY SMT DEF Max0, Trunc
        <2>3. Max0(Trunc(2 * 32767, 4)) = 16383 BY SMT DEF Max0, Trunc
        <2>4. Max0(Trunc(3 * 32767, 4)) = 24575 BY SMT DEF Max0, Trunc
        <2>5. Max0(Trunc(4 * 32767, 4)) = 32767 BY SMT DEF Max0, Trunc
        <2> QED BY <2>1, <2>2, <2>3, <2>4, <2>5
  <1> HIDE DEF c, d, n, m
  <1>7. (to <= 0 => n = 0) /\ (to = 1 => n = 16383) /\ (to >= 2 => n = 32767)
        BY <1>2, <1>4, <1>5
  <1>8. /\ (to <= -2 => m = 0) /\ (to = -1 => m = 8191) /\ (to = 0 => m = 16383)
        /\ (to = 1 => m = 24575) /\ (to >= 2 => m = 32767)
        BY <1>3, <1>4, <1>6
  <1>9. to <= -2 \/ to = -1 \/ to = 0 \/ to = 1 \/ to >= 2 BY <1>1, SMT
  <1>10. n \in Level /\ (n = 0 <=> 2 * to <= 0) /\ (n = I16Max <=> 2 * to >= 4)
         <2>1. n \in Level BY <1>1, <1>7, <1>9, SMT DEF Level
         <2>2. n = 0 <=> 2 * to <= 0 BY <1>1, <1>7, <1>9, SMT
         <2>3. n = 32767 <=> 2 * to >= 4 BY <1>1, <1>7, <1>9, SMT
         <2> QED BY <2>1, <2>2, <2>3 DEF I16Max
  <1>11. m \in Level /\ (m = 0 <=> to + 2 <= 0) /\ (m = I16Max <=> to + 2 >= 4)
         <2>1. m \in Level BY <1>1, <1>8, <1>9, SMT DEF Level
         <2>2. m = 0 <=> to + 2 <= 0 BY <1>1, <1>8, <1>9, SMT
         <2>3. m = 32767 <=> to + 2 >= 4 BY <1>1, <1>8, <1>9, SMT
         <2> QED BY <2>1, <2>2, <2>3 DEF I16Max
  <1>12. 2 * to \in Depth /\ to + 2 \in Depth BY <1>1, SMT DEF Depth
  <1> QED BY <1>10, <1>11, <1>12 DEF n, m

(* What a move makes of a slot and of the hand.                            *)
LEMMA MoveFacts ==
  ASSUME NEW slot \in Slot, NEW h \in Hand, NEW move \in Moves, IsAt(slot, h)
  PROVE  /\ SlotAfter(slot, move) \in Slot /\ SlotAfter(slot, move).pad = slot.pad
         /\ HandAfter(h, move) \in Hand
         /\ IsAt(SlotAfter(slot, move), HandAfter(h, move))
  <1>1. /\ move.what \in {"press", "release", "stick", "pull", "axis"}
        /\ move.what \in {"press", "release"} => {move.of} \in Bits
        /\ move.what \in {"stick", "pull", "axis"} => move.to \in Travel
        <2>1. \/ move \in [what : {"press", "release"}, of : {"a", "right", "left"}]
              \/ move \in [what : {"stick", "pull", "axis"}, to : Travel]
              BY GamepadsAssumption DEF Travel
        <2> QED BY <2>1 DEF Bits
  <1>2. CASE move.what = "press"
        <2>1. /\ SlotAfter(slot, move) = [slot EXCEPT !.buttons = slot.buttons \cup {move.of}]
              /\ HandAfter(h, move) = [h EXCEPT !.buttons = h.buttons \cup {move.of}]
              BY <1>2 DEF SlotAfter, HandAfter
        <2>2. slot.buttons = h.buttons /\ h.buttons \in Bits BY DEF IsAt, Hand
        <2>3. h.buttons \cup {move.of} \in Bits BY <1>1, <1>2, <2>2 DEF Bits
        <2> QED BY <2>1, <2>2, <2>3 DEF IsAt, Slot, Hand
  <1>3. CASE move.what = "release"
        <2>1. /\ SlotAfter(slot, move) = [slot EXCEPT !.buttons = slot.buttons \ {move.of}]
              /\ HandAfter(h, move) = [h EXCEPT !.buttons = h.buttons \ {move.of}]
              BY <1>3 DEF SlotAfter, HandAfter
        <2>2. slot.buttons = h.buttons /\ h.buttons \in Bits BY DEF IsAt, Hand
        <2>3. h.buttons \ {move.of} \in Bits BY <2>2 DEF Bits
        <2> QED BY <2>1, <2>2, <2>3 DEF IsAt, Slot, Hand
  <1>4. CASE move.what = "stick"
        <2> DEFINE n == Rescaled(StickValue(move.to, TRUE))
        <2>1. /\ SlotAfter(slot, move) = [slot EXCEPT !.stick = n]
              /\ HandAfter(h, move) = [h EXCEPT !.stick = move.to]
              BY <1>4 DEF SlotAfter, HandAfter
        <2>2. move.to \in Travel /\ StickSays(n, move.to) BY <1>1, <1>4, StickFacts
        <2> HIDE DEF n
        <2> QED BY <2>1, <2>2 DEF StickSays, IsAt, Slot, Hand
  <1>5. CASE move.what = "pull"
        <2> DEFINE n == Max0(TriggerValue(move.to))
                   at == 2 * move.to
        <2>1. /\ SlotAfter(slot, move) = [slot EXCEPT !.trigger = n]
              /\ HandAfter(h, move) = [h EXCEPT !.trigger = at]
              BY <1>5 DEF SlotAfter, HandAfter
        <2>2. /\ n \in Level /\ (n = 0 <=> at <= 0) /\ (n = I16Max <=> at >= 4)
              /\ at \in Depth
              BY <1>1, <1>5, TriggerFacts
        <2> HIDE DEF n, at
        <2> QED BY <2>1, <2>2 DEF IsAt, Slot, Hand
  <1>6. CASE move.what = "axis"
        <2> DEFINE n == Max0(TriggerFromAxis(move.to))
                   at == move.to + 2
        <2>1. /\ SlotAfter(slot, move) = [slot EXCEPT !.trigger = n]
              /\ HandAfter(h, move) = [h EXCEPT !.trigger = at]
              BY <1>6 DEF SlotAfter, HandAfter
        <2>2. /\ n \in Level /\ (n = 0 <=> at <= 0) /\ (n = I16Max <=> at >= 4)
              /\ at \in Depth
              BY <1>1, <1>6, TriggerFacts
        <2> HIDE DEF n, at
        <2> QED BY <2>1, <2>2 DEF IsAt, Slot, Hand
  <1> QED BY <1>1, <1>2, <1>3, <1>4, <1>5, <1>6

LEMMA ReportFacts ==
  ASSUME NEW slot \in Slot
  PROVE  Report(slot) \in Reports /\ Report(slot) # NoReport
  <1>1. slot.buttons \in Bits /\ slot.stick \in U16 /\ slot.trigger \in Level BY DEF Slot
  <1>2. slot.buttons \ {"left", "right"} \in SUBSET {"a"} BY <1>1 DEF Bits
  <1>3. DpadValue(slot.buttons) \in {0, 3, 7} BY DEF DpadValue
  <1>4. Report(slot) \in Reports BY <1>1, <1>2, <1>3 DEF Report, Reports
  <1> QED BY <1>4, GamepadsAssumption DEF NoReport

(* A slot just opened: the device's gamepad, the slot and the hand rest.   *)
LEMMA RestFacts ==
  ASSUME NEW p \in Pads
  PROVE  /\ NewSlot(p) \in Slot /\ NewSlot(p).pad = p /\ IsAt(NewSlot(p), Idle)
         /\ AtRest = Report(NewSlot(p)) /\ AtRest \in Heard /\ Idle \in Hand
         /\ p # NoPad
  <1>1. NewSlot(p) = [pad |-> p, buttons |-> {}, stick |-> 32768, trigger |-> 0]
        BY DEF NewSlot, EmptySlot
  <1>2. 32768 \in U16 /\ 0 \in Level /\ 0 \in Travel /\ 0 \in Depth /\ {} \in Bits
        BY SMT DEF U16, Level, Travel, Depth, Bits
  <1>3. NewSlot(p) \in Slot BY <1>1, <1>2 DEF Slot, Owner
  <1>4. IsAt(NewSlot(p), Idle) BY <1>1, SMT DEF IsAt, Idle, I16Max
  <1>5. AtRest = Report(NewSlot(p)) BY <1>1 DEF AtRest, Report, DpadValue
  <1>6. Idle \in Hand BY <1>2 DEF Idle, Hand
  <1> QED BY <1>1, <1>3, <1>4, <1>5, <1>6, ReportFacts, GamepadsAssumption DEF Heard

LEMMA Updated ==
  ASSUME NEW A, NEW B, NEW f \in [A -> B], NEW k, NEW v \in B
  PROVE  [f EXCEPT ![k] = v] \in [A -> B]
  OBVIOUS

LEMMA OpenGood ==
  ASSUME NEW st, GoodPads(st), NEW p \in Pads, p \notin PadsOf(st)
  PROVE  /\ GoodPads(Open(st, p)) /\ Open(st, p).view = st.view
         /\ PadsOf(Open(st, p)) \subseteq PadsOf(st) \cup {p}
  <1> DEFINE free == SlotsOf(st.slots, NoPad)
             k == FirstOf(free)
             r == Open(st, p)
  <1>1. CASE free = {} BY <1>1 DEF Open
  <1>2. CASE free # {}
        <2>1. k \in 1..MaxPads /\ st.slots[k].pad = NoPad
              <3>1. free \in SUBSET (1..MaxPads) BY DEF SlotsOf
              <3>2. k \in free
                    <4> HIDE DEF free
                    <4> QED BY <1>2, <3>1, SlotsFacts
              <3> QED BY <3>2 DEF SlotsOf
        <2>2. st \in PadStates BY DEF GoodPads
        <2>3. r = [st EXCEPT !.slots[k] = NewSlot(p), !.device[k] = AtRest, !.hand[p] = Idle]
              BY <1>2 DEF Open
        <2> HIDE DEF k, r
        <2>4. /\ r.slots = [st.slots EXCEPT ![k] = NewSlot(p)]
              /\ r.device = [st.device EXCEPT ![k] = AtRest]
              /\ r.hand = [st.hand EXCEPT ![p] = Idle]
              /\ r.view = st.view
              /\ r = [slots |-> r.slots, device |-> r.device, view |-> r.view, hand |-> r.hand]
              BY <2>2, <2>3 DEF PadStates
        <2>5. /\ NewSlot(p) \in Slot /\ NewSlot(p).pad = p /\ IsAt(NewSlot(p), Idle)
              /\ AtRest = Report(NewSlot(p)) /\ AtRest \in Heard /\ Idle \in Hand
              /\ p # NoPad
              BY RestFacts
        <2>6. r \in PadStates
              <3>0. /\ st.slots \in [1..MaxPads -> Slot] /\ st.device \in [1..MaxPads -> Heard]
                    /\ st.hand \in [Pads -> Hand] /\ st.view \in SUBSET Pads
                    BY <2>2 DEF PadStates
              <3>1. r.slots \in [1..MaxPads -> Slot]
                    <4>1. [st.slots EXCEPT ![k] = NewSlot(p)] \in [1..MaxPads -> Slot]
                          BY <2>5, <3>0, Updated
                    <4> QED BY <2>4, <4>1
              <3>2. r.device \in [1..MaxPads -> Heard]
                    <4>1. [st.device EXCEPT ![k] = AtRest] \in [1..MaxPads -> Heard]
                          BY <2>5, <3>0, Updated
                    <4> QED BY <2>4, <4>1
              <3>3. r.hand \in [Pads -> Hand]
                    <4>1. [st.hand EXCEPT ![p] = Idle] \in [Pads -> Hand] BY <2>5, <3>0, Updated
                    <4> QED BY <2>4, <4>1
              <3>4. r.view \in SUBSET Pads BY <2>4, <3>0
              <3> QED BY <2>4, <3>1, <3>2, <3>3, <3>4 DEF PadStates
        <2>7. /\ r.slots[k] = NewSlot(p) /\ r.device[k] = AtRest /\ r.hand[p] = Idle
              /\ \A i \in 1..MaxPads : i # k => r.slots[i] = st.slots[i] /\ r.device[i] = st.device[i]
              /\ \A q \in Pads : q # p => r.hand[q] = st.hand[q]
              BY <2>1, <2>2, <2>4 DEF PadStates
        <2>8. \A i \in 1..MaxPads : st.slots[i].pad # p BY <2>5 DEF PadsOf
        <2>9. \A i \in 1..MaxPads : st.slots[i].pad \in Owner
              BY <2>2 DEF PadStates, Slot
        <2>10. \A i \in 1..MaxPads :
                 r.device[i] = IF r.slots[i].pad = NoPad THEN NoReport ELSE Report(r.slots[i])
               BY <2>5, <2>7 DEF GoodPads
        <2>11. \A i, j \in 1..MaxPads :
                 r.slots[i].pad = r.slots[j].pad => i = j \/ r.slots[i].pad = NoPad
               BY <2>5, <2>7, <2>8 DEF GoodPads
        <2>12. \A i \in 1..MaxPads :
                 r.slots[i].pad # NoPad => IsAt(r.slots[i], r.hand[r.slots[i].pad])
               <3> SUFFICES ASSUME NEW i \in 1..MaxPads, r.slots[i].pad # NoPad
                            PROVE  IsAt(r.slots[i], r.hand[r.slots[i].pad])
                   OBVIOUS
               <3>1. CASE i = k BY <2>5, <2>7, <3>1
               <3>2. CASE i # k
                     <4>1. r.slots[i] = st.slots[i] /\ st.slots[i].pad \in Pads BY <2>7, <2>9, <3>2 DEF Owner
                     <4>2. r.hand[st.slots[i].pad] = st.hand[st.slots[i].pad] BY <2>7, <2>8, <4>1
                     <4> QED BY <4>1, <4>2 DEF GoodPads
               <3> QED BY <3>1, <3>2
        <2>13. PadsOf(r) \subseteq PadsOf(st) \cup {p} BY <2>5, <2>7 DEF PadsOf
        <2> QED BY <2>4, <2>6, <2>10, <2>11, <2>12, <2>13 DEF GoodPads, r
  <1> QED BY <1>1, <1>2

LEMMA CloseGood ==
  ASSUME NEW st, GoodPads(st), NEW p \in Pads
  PROVE  /\ GoodPads(Close(st, p)) /\ Close(st, p).view = st.view
         /\ PadsOf(Close(st, p)) = PadsOf(st) \ {p}
  <1> DEFINE mine == SlotsOf(st.slots, p)
             k == FirstOf(mine)
             r == Close(st, p)
  <1>0. p # NoPad BY GamepadsAssumption
  <1>1. CASE mine = {}
        <2>1. p \notin PadsOf(st) BY <1>1 DEF SlotsOf, PadsOf
        <2> QED BY <1>1, <2>1 DEF Close
  <1>2. CASE mine # {}
        <2>1. k \in 1..MaxPads /\ st.slots[k].pad = p
              <3>1. mine \in SUBSET (1..MaxPads) BY DEF SlotsOf
              <3>2. k \in mine
                    <4> HIDE DEF mine
                    <4> QED BY <1>2, <3>1, SlotsFacts
              <3> QED BY <3>2 DEF SlotsOf
        <2>2. st \in PadStates BY DEF GoodPads
        <2>3. r = [st EXCEPT !.slots[k].pad = NoPad, !.device[k] = NoReport, !.hand[p] = Idle]
              BY <1>2 DEF Close
        <2> HIDE DEF k, r
        <2> DEFINE closed == [st.slots[k] EXCEPT !.pad = NoPad]
        <2>4. /\ r.slots = [st.slots EXCEPT ![k] = closed]
              /\ r.device = [st.device EXCEPT ![k] = NoReport]
              /\ r.hand = [st.hand EXCEPT ![p] = Idle]
              /\ r.view = st.view
              /\ r = [slots |-> r.slots, device |-> r.device, view |-> r.view, hand |-> r.hand]
              BY <2>2, <2>3 DEF PadStates
        <2>5. closed \in Slot /\ closed.pad = NoPad /\ Idle \in Hand
              <3>1. st.slots[k] \in Slot BY <2>1, <2>2 DEF PadStates
              <3>2. Idle \in Hand BY RestFacts
              <3> QED BY <3>1, <3>2 DEF Slot, Owner
        <2> HIDE DEF closed
        <2>6. r \in PadStates
              <3>1. r.slots \in [1..MaxPads -> Slot] BY <2>2, <2>4, <2>5 DEF PadStates
              <3>2. r.device \in [1..MaxPads -> Heard]
                    BY <2>2, <2>4, <2>5 DEF PadStates, Heard
              <3>3. r.hand \in [Pads -> Hand] BY <2>2, <2>4, <2>5 DEF PadStates
              <3>4. r.view \in SUBSET Pads BY <2>2, <2>4 DEF PadStates
              <3> QED BY <2>4, <3>1, <3>2, <3>3, <3>4 DEF PadStates
        <2>7. /\ r.slots[k] = closed /\ r.device[k] = NoReport /\ r.hand[p] = Idle
              /\ \A i \in 1..MaxPads : i # k => r.slots[i] = st.slots[i] /\ r.device[i] = st.device[i]
              /\ \A q \in Pads : q # p => r.hand[q] = st.hand[q]
              BY <2>1, <2>2, <2>4 DEF PadStates
        <2>8. \A i \in 1..MaxPads : i # k => st.slots[i].pad # p
              BY <1>0, <2>1 DEF GoodPads
        <2>9. \A i \in 1..MaxPads : st.slots[i].pad \in Owner
              BY <2>2 DEF PadStates, Slot
        <2>10. \A i \in 1..MaxPads :
                 r.device[i] = IF r.slots[i].pad = NoPad THEN NoReport ELSE Report(r.slots[i])
               BY <2>5, <2>7 DEF GoodPads
        <2>11. \A i, j \in 1..MaxPads :
                 r.slots[i].pad = r.slots[j].pad => i = j \/ r.slots[i].pad = NoPad
               BY <2>5, <2>7 DEF GoodPads
        <2>12. \A i \in 1..MaxPads :
                 r.slots[i].pad # NoPad => IsAt(r.slots[i], r.hand[r.slots[i].pad])
               <3> SUFFICES ASSUME NEW i \in 1..MaxPads, r.slots[i].pad # NoPad
                            PROVE  IsAt(r.slots[i], r.hand[r.slots[i].pad])
                   OBVIOUS
               <3>1. i # k BY <2>5, <2>7
               <3>2. r.slots[i] = st.slots[i] /\ st.slots[i].pad \in Pads BY <2>7, <2>9, <3>1 DEF Owner
               <3>3. r.hand[st.slots[i].pad] = st.hand[st.slots[i].pad] BY <2>7, <2>8, <3>1, <3>2
               <3> QED BY <3>2, <3>3 DEF GoodPads
        <2>13. PadsOf(r) = PadsOf(st) \ {p}
               <3>1. PadsOf(r) \subseteq PadsOf(st) \ {p} BY <2>5, <2>7, <2>8 DEF PadsOf
               <3>2. PadsOf(st) \ {p} \subseteq PadsOf(r)
                     <4> SUFFICES ASSUME NEW i \in 1..MaxPads, st.slots[i].pad # NoPad,
                                         st.slots[i].pad # p
                                  PROVE  st.slots[i].pad \in PadsOf(r)
                         BY DEF PadsOf
                     <4>1. r.slots[i] = st.slots[i] BY <2>1, <2>7
                     <4> QED BY <4>1 DEF PadsOf
               <3> QED BY <3>1, <3>2
        <2> QED BY <2>4, <2>6, <2>10, <2>11, <2>12, <2>13 DEF GoodPads, r
  <1> QED BY <1>1, <1>2

LEMMA ProcessGood ==
  ASSUME NEW st, GoodPads(st), NEW p \in Pads, NEW move \in Moves
  PROVE  /\ GoodPads(Process(st, p, move)) /\ Process(st, p, move).view = st.view
         /\ PadsOf(Process(st, p, move)) = PadsOf(st)
  <1> DEFINE mine == SlotsOf(st.slots, p)
             k == FirstOf(mine)
             slot == SlotAfter(st.slots[k], move)
             h == HandAfter(st.hand[p], move)
             r == Process(st, p, move)
  <1>0. p # NoPad BY GamepadsAssumption
  <1>1. CASE mine = {} BY <1>1 DEF Process
  <1>2. CASE mine # {}
        <2>1. k \in 1..MaxPads /\ st.slots[k].pad = p
              <3>1. mine \in SUBSET (1..MaxPads) BY DEF SlotsOf
              <3>2. k \in mine
                    <4> HIDE DEF mine
                    <4> QED BY <1>2, <3>1, SlotsFacts
              <3> QED BY <3>2 DEF SlotsOf
        <2>2. st \in PadStates BY DEF GoodPads
        <2>3. r = [st EXCEPT !.slots[k] = slot, !.device[k] = Report(slot), !.hand[p] = h]
              BY <1>2 DEF Process
        <2>4. slot \in Slot /\ slot.pad = p /\ h \in Hand /\ IsAt(slot, h)
              <3>1. st.slots[k] \in Slot /\ st.hand[p] \in Hand BY <2>1, <2>2 DEF PadStates
              <3>2. IsAt(st.slots[k], st.hand[p]) BY <1>0, <2>1 DEF GoodPads
              <3> HIDE DEF k
              <3> QED BY <2>1, <3>1, <3>2, MoveFacts
        <2> HIDE DEF k, r, slot, h
        <2>5. /\ r.slots = [st.slots EXCEPT ![k] = slot]
              /\ r.device = [st.device EXCEPT ![k] = Report(slot)]
              /\ r.hand = [st.hand EXCEPT ![p] = h]
              /\ r.view = st.view
              /\ r = [slots |-> r.slots, device |-> r.device, view |-> r.view, hand |-> r.hand]
              BY <2>2, <2>3 DEF PadStates
        <2>6. r \in PadStates
              <3>1. r.slots \in [1..MaxPads -> Slot] BY <2>2, <2>4, <2>5 DEF PadStates
              <3>2. r.device \in [1..MaxPads -> Heard]
                    BY <2>2, <2>4, <2>5, ReportFacts DEF PadStates, Heard
              <3>3. r.hand \in [Pads -> Hand] BY <2>2, <2>4, <2>5 DEF PadStates
              <3>4. r.view \in SUBSET Pads BY <2>2, <2>5 DEF PadStates
              <3> QED BY <2>5, <3>1, <3>2, <3>3, <3>4 DEF PadStates
        <2>7. /\ r.slots[k] = slot /\ r.device[k] = Report(slot) /\ r.hand[p] = h
              /\ \A i \in 1..MaxPads : i # k => r.slots[i] = st.slots[i] /\ r.device[i] = st.device[i]
              /\ \A q \in Pads : q # p => r.hand[q] = st.hand[q]
              BY <2>1, <2>2, <2>5 DEF PadStates
        <2>8. \A i \in 1..MaxPads : i # k => st.slots[i].pad # p
              BY <1>0, <2>1 DEF GoodPads
        <2>9. \A i \in 1..MaxPads : st.slots[i].pad \in Owner
              BY <2>2 DEF PadStates, Slot
        <2>10. \A i \in 1..MaxPads :
                 r.device[i] = IF r.slots[i].pad = NoPad THEN NoReport ELSE Report(r.slots[i])
               BY <1>0, <2>4, <2>7 DEF GoodPads
        <2>11. \A i, j \in 1..MaxPads :
                 r.slots[i].pad = r.slots[j].pad => i = j \/ r.slots[i].pad = NoPad
               BY <2>1, <2>4, <2>7, <2>8 DEF GoodPads
        <2>12. \A i \in 1..MaxPads :
                 r.slots[i].pad # NoPad => IsAt(r.slots[i], r.hand[r.slots[i].pad])
               <3> SUFFICES ASSUME NEW i \in 1..MaxPads, r.slots[i].pad # NoPad
                            PROVE  IsAt(r.slots[i], r.hand[r.slots[i].pad])
                   OBVIOUS
               <3>1. CASE i = k BY <2>4, <2>7, <3>1
               <3>2. CASE i # k
                     <4>1. r.slots[i] = st.slots[i] /\ st.slots[i].pad \in Pads BY <2>7, <2>9, <3>2 DEF Owner
                     <4>2. r.hand[st.slots[i].pad] = st.hand[st.slots[i].pad]
                           BY <2>7, <2>8, <3>2, <4>1
                     <4> QED BY <4>1, <4>2 DEF GoodPads
               <3> QED BY <3>1, <3>2
        <2>13. \A i \in 1..MaxPads : r.slots[i].pad = st.slots[i].pad BY <2>1, <2>4, <2>7
        <2>14. PadsOf(r) = PadsOf(st) BY <2>13 DEF PadsOf
        <2> QED BY <2>5, <2>6, <2>10, <2>11, <2>12, <2>14 DEF GoodPads, r
  <1> QED BY <1>1, <1>2
-------------------------------------------------------------------------------
(* The function Handled is the last value of.                              *)
Handles(st, s, f) ==
  f = [i \in 0 .. Len(s) |-> IF i = 0 THEN st ELSE Handle(f[i - 1], s[i])]

LEMMA HandlesExists ==
  ASSUME NEW E, NEW s \in Seq(E), NEW st
  PROVE  \E f : Handles(st, s, f)
  <1> DEFINE T == {t \in Seq(E) : \E f : Handles(st, t, f)}
  <1>1. <<>> \in T
        <2> DEFINE f == [i \in 0 .. 0 |-> st]
        <2>1. Len(<<>>) = 0 /\ <<>> \in Seq(E) BY EmptySeq
        <2>2. \A i \in 0 .. 0 : i = 0 BY SMT
        <2>3. Handles(st, <<>>, f) BY <2>1, <2>2 DEF Handles
        <2> QED BY <2>1, <2>3
  <1>2. ASSUME NEW t \in T, NEW x \in E PROVE Append(t, x) \in T
        <2> PICK f : Handles(st, t, f) OBVIOUS
        <2> DEFINE u == Append(t, x)
                   n == Len(t)
                   g == [i \in 0 .. n + 1 |-> IF i <= n THEN f[i] ELSE Handle(f[n], x)]
        <2>1. /\ u \in Seq(E) /\ Len(u) = n + 1 /\ n \in Nat
              /\ (\A i \in 1 .. n : u[i] = t[i]) /\ u[n + 1] = x
              BY AppendProperties, LenProperties
        <2> HIDE DEF u
        <2>2. ASSUME NEW i \in 0 .. n + 1
              PROVE g[i] = IF i = 0 THEN st ELSE Handle(g[i - 1], u[i])
              <3>1. f = [j \in 0 .. n |-> IF j = 0 THEN st ELSE Handle(f[j - 1], t[j])]
                    BY DEF Handles
              <3>2. CASE i = 0
                    <4>1. 0 \in 0 .. n /\ 0 <= n BY <2>1, SMT
                    <4>2. f[0] = st BY <3>1, <4>1
                    <4> QED BY <3>2, <4>1, <4>2
              <3>3. CASE i \in 1 .. n
                    <4>1. i \in 0 .. n /\ i # 0 /\ i <= n /\ i - 1 \in 0 .. n + 1 /\ i - 1 <= n
                          BY <2>1, <3>3, SMT
                    <4>2. f[i] = Handle(f[i - 1], t[i]) BY <3>1, <4>1
                    <4>3. g[i] = f[i] /\ g[i - 1] = f[i - 1] BY <4>1
                    <4>4. u[i] = t[i] BY <2>1, <3>3
                    <4> HIDE DEF g
                    <4> QED BY <4>1, <4>2, <4>3, <4>4
              <3>4. CASE i = n + 1
                    <4>1. i # 0 /\ ~(i <= n) /\ i - 1 = n /\ n \in 0 .. n + 1 /\ n <= n
                          BY <2>1, <3>4, SMT
                    <4>2. g[i] = Handle(f[n], x) BY <4>1
                    <4>3. g[n] = f[n] BY <4>1
                    <4>4. u[i] = x BY <2>1, <3>4
                    <4> HIDE DEF g
                    <4> QED BY <4>1, <4>2, <4>3, <4>4
              <3>5. i = 0 \/ i \in 1 .. n \/ i = n + 1 BY <2>1, SMT
              <3> QED BY <3>2, <3>3, <3>4, <3>5
        <2>3. Handles(st, u, g)
              <3>1. g = [i \in 0 .. n + 1 |-> g[i]] OBVIOUS
              <3> HIDE DEF g
              <3> QED BY <2>1, <2>2, <3>1 DEF Handles
        <2> QED BY <2>1, <2>3 DEF u
  <1>3. T = Seq(E)
        <2> HIDE DEF T
        <2>1. T \in SUBSET Seq(E) BY DEF T
        <2> QED BY <1>1, <1>2, <2>1, OverSequences
  <1> QED BY <1>3

(* What holds of the state before the first event, and after each event if *)
(* it held before it, holds after the last: G[i] is the states that are    *)
(* right when i events are handled.                                        *)
LEMMA HandledKeeps ==
  ASSUME NEW E, NEW s \in Seq(E), NEW G, NEW st \in G[0],
         \A i \in 1 .. Len(s) : \A x \in G[i - 1] : Handle(x, s[i]) \in G[i]
  PROVE  Handled(st, s) \in G[Len(s)]
  <1> DEFINE f == CHOOSE g : Handles(st, s, g)
  <1>1. Handles(st, s, f) BY HandlesExists
  <1>2. Handled(st, s) = f[Len(s)] BY DEF Handled, Handles
  <1> HIDE DEF f
  <1>3. Len(s) \in Nat BY LenProperties
  <1> DEFINE T == {n \in Nat : n <= Len(s) => f[n] \in G[n]}
  <1>4. 0 \in T
        <2>1. 0 \in 0 .. Len(s) BY <1>3, SMT
        <2>2. f[0] = st BY <1>1, <2>1 DEF Handles
        <2> QED BY <2>2
  <1>5. ASSUME NEW n \in T PROVE n + 1 \in T
        <2> SUFFICES ASSUME n + 1 <= Len(s) PROVE f[n + 1] \in G[n + 1] BY SMT
        <2>1. /\ n + 1 \in 0 .. Len(s) /\ n + 1 \in 1 .. Len(s)
              /\ n + 1 # 0 /\ (n + 1) - 1 = n /\ n <= Len(s)
              BY <1>3, SMT
        <2>2. f[n + 1] = Handle(f[n], s[n + 1]) BY <1>1, <2>1 DEF Handles
        <2>3. \A x \in G[n] : Handle(x, s[n + 1]) \in G[n + 1] BY <2>1
        <2> QED BY <2>1, <2>2, <2>3
  <1>6. T = Nat
        <2> HIDE DEF T
        <2>1. T \in SUBSET Nat BY DEF T
        <2> QED BY <1>4, <1>5, <2>1, OverNaturals
  <1>7. Len(s) \in T /\ Len(s) <= Len(s) BY <1>3, <1>6, SMT
  <1> QED BY <1>2, <1>7

-------------------------------------------------------------------------------
(* What gilrs calls connected, before and after an event.                  *)
Follows(before, event, after) ==
  \/ event.what = "connected" /\ event.pad \notin before /\ after = before \cup {event.pad}
  \/ event.what = "disconnected" /\ after = before \ {event.pad}
  \/ event.what = "move" /\ after = before

LEMMA ViewGood ==
  ASSUME NEW st, GoodPads(st), NEW v \in SUBSET Pads
  PROVE  LET r == [st EXCEPT !.view = v]
         IN  GoodPads(r) /\ r.view = v /\ PadsOf(r) = PadsOf(st)
  <1> DEFINE r == [st EXCEPT !.view = v]
  <1>1. st \in PadStates BY DEF GoodPads
  <1>2. /\ r.view = v /\ r.slots = st.slots /\ r.device = st.device /\ r.hand = st.hand
        /\ r \in PadStates
        BY <1>1 DEF PadStates
  <1> HIDE DEF r
  <1>3. GoodPads(r) BY <1>2 DEF GoodPads
  <1>4. PadsOf(r) = PadsOf(st) BY <1>2 DEF PadsOf
  <1> QED BY <1>2, <1>3, <1>4 DEF r

LEMMA HandleGood ==
  ASSUME NEW st, GoodPads(st), PadsOf(st) \subseteq st.view, NEW event \in Event,
         NEW after \in SUBSET Pads, Follows(st.view, event, after)
  PROVE  /\ GoodPads(Handle(st, event)) /\ Handle(st, event).view = after
         /\ PadsOf(Handle(st, event)) \subseteq after
  <1> DEFINE p == event.pad
             r == [st EXCEPT !.view = after]
  <1>1. p \in Pads /\ (event.what = "move" => event.move \in Moves)
        /\ event.what \in {"connected", "disconnected", "move"}
        BY DEF Event
  <1>2. st \in PadStates BY DEF GoodPads
  <1>3. GoodPads(r) /\ r.view = after /\ PadsOf(r) = PadsOf(st) BY ViewGood
  <1>4. CASE event.what = "connected"
        <2>1. p \notin st.view /\ after = st.view \cup {p} BY <1>4 DEF Follows
        <2>2. Handle(st, event) = Open(r, p) BY <1>4, <2>1 DEF Handle
        <2> HIDE DEF r, p
        <2>3. p \notin PadsOf(r) BY <1>3, <2>1
        <2>4. /\ GoodPads(Open(r, p)) /\ Open(r, p).view = r.view
              /\ PadsOf(Open(r, p)) \subseteq PadsOf(r) \cup {p}
              BY <1>1, <1>3, <2>3, OpenGood
        <2> QED BY <1>3, <2>1, <2>2, <2>4
  <1>5. CASE event.what = "disconnected"
        <2>1. after = st.view \ {p} BY <1>5 DEF Follows
        <2>2. Handle(st, event) = Close(r, p) BY <1>5, <2>1 DEF Handle
        <2> HIDE DEF r, p
        <2>4. /\ GoodPads(Close(r, p)) /\ Close(r, p).view = r.view
              /\ PadsOf(Close(r, p)) = PadsOf(r) \ {p}
              BY <1>1, <1>3, CloseGood
        <2> QED BY <1>3, <2>1, <2>2, <2>4
  <1>6. CASE event.what = "move"
        <2>1. after = st.view BY <1>6 DEF Follows
        <2>2. Handle(st, event) = Process(st, p, event.move) BY <1>6 DEF Handle
        <2> HIDE DEF r, p
        <2> QED BY <1>1, <1>6, <2>1, <2>2, ProcessGood
  <1> QED BY <1>1, <1>4, <1>5, <1>6

(* The drained events, one after the other.                                *)
LEMMA PollGood ==
  ASSUME NEW st, GoodPads(st), PadsOf(st) \subseteq st.view, NEW es \in Seq(Event),
         NEW views \in [0 .. Len(es) -> SUBSET Pads], views[0] = st.view,
         \A k \in 1 .. Len(es) : Follows(views[k - 1], es[k], views[k])
  PROVE  /\ GoodPads(Handled(st, es)) /\ Handled(st, es).view = views[Len(es)]
         /\ PadsOf(Handled(st, es)) \subseteq views[Len(es)]
  <1> DEFINE G == [k \in 0 .. Len(es) |->
                    {x \in PadStates : GoodPads(x) /\ x.view = views[k] /\ PadsOf(x) \subseteq views[k]}]
  <1>1. Len(es) \in Nat /\ \A k \in 1 .. Len(es) : es[k] \in Event BY LenProperties, ElementOfSeq
  <1>2. 0 \in 0 .. Len(es) /\ Len(es) \in 0 .. Len(es)
        /\ \A k \in 1 .. Len(es) : k \in 0 .. Len(es) /\ k - 1 \in 0 .. Len(es)
        BY <1>1, SMT
  <1>3. st \in G[0] BY <1>2 DEF GoodPads
  <1>4. ASSUME NEW k \in 1 .. Len(es), NEW x \in G[k - 1] PROVE Handle(x, es[k]) \in G[k]
        <2>1. GoodPads(x) /\ x.view = views[k - 1] /\ PadsOf(x) \subseteq x.view BY <1>2, <1>4
        <2>2. es[k] \in Event /\ views[k] \in SUBSET Pads /\ Follows(x.view, es[k], views[k])
              BY <1>1, <1>2, <2>1
        <2>3. /\ GoodPads(Handle(x, es[k])) /\ Handle(x, es[k]).view = views[k]
              /\ PadsOf(Handle(x, es[k])) \subseteq views[k]
              BY <2>1, <2>2, HandleGood
        <2>4. Handle(x, es[k]) \in PadStates BY <2>3 DEF GoodPads
        <2> QED BY <1>2, <2>3, <2>4
  <1>5. Handled(st, es) \in G[Len(es)]
        <2> HIDE DEF G
        <2> QED BY <1>3, <1>4, HandledKeeps
  <1> QED BY <1>2, <1>5

-------------------------------------------------------------------------------
LEMMA EachFacts ==
  ASSUME NEW S \in SUBSET Pads, NEW order \in SetToSeqs(S), NEW what \in {"connected", "disconnected"}
  PROVE  /\ Each(what, order) \in Seq(Event)
         /\ Len(Each(what, order)) \in Nat
         /\ Len(Each(what, order)) = Cardinality(S)
         /\ \A k \in 1 .. Len(Each(what, order)) :
              /\ Each(what, order)[k].what = what
              /\ Each(what, order)[k].pad = order[k]
              /\ order[k] \in S
         /\ \A i, j \in 1 .. Len(Each(what, order)) : order[i] = order[j] => i = j
         /\ S = {order[k] : k \in 1 .. Len(Each(what, order))}
  <1> DEFINE n == Cardinality(S)
  <1>1. IsFiniteSet(S) BY GamepadsAssumption, FS_Subset
  <1>2. n \in Nat BY <1>1, FS_CardinalityType
  <1>3. /\ order \in [1 .. n -> S]
        /\ \A i, j \in 1 .. n : i # j => order[i] # order[j]
        BY DEF SetToSeqs
  <1> HIDE DEF n
  <1>4. order \in Seq(S) /\ Len(order) = n BY <1>2, <1>3, LenProperties, SeqDef
  <1>5. /\ Each(what, order) = [i \in 1 .. n |-> [what |-> what, pad |-> order[i]]]
        BY <1>4 DEF Each
  <1>6. \A i \in 1 .. n : [what |-> what, pad |-> order[i]] \in Event
        BY <1>3 DEF Event
  <1>7. Each(what, order) \in Seq(Event) /\ Len(Each(what, order)) = n
        BY <1>2, <1>5, <1>6, LenProperties, SeqDef
  <1>8. S = {order[k] : k \in 1 .. n}
        <2>1. order \in Injection(1 .. n, S) BY <1>3 DEF Injection, IsInjective
        <2>2. 1 \in Int /\ n \in Int /\ (IF 1 > n THEN 0 ELSE n - 1 + 1) = n BY <1>2, SMT
        <2>3. Cardinality(1 .. n) = n BY <2>2, FS_Interval
        <2>4. Cardinality(1 .. n) = Cardinality(S) BY <2>3 DEF n
        <2>5. order \in Surjection(1 .. n, S) BY <1>1, <2>1, <2>4, FS_Injection
        <2> QED BY <1>3, <2>5 DEF Surjection
  <1> QED BY <1>2, <1>3, <1>5, <1>7, <1>8 DEF n

LEMMA FreshGood ==
  ASSUME NEW v \in SUBSET Pads
  PROVE  LET st == [slots |-> NoSlots, device |-> [i \in 1..MaxPads |-> NoReport],
                    view |-> v, hand |-> NoHand]
         IN  GoodPads(st) /\ PadsOf(st) = {} /\ st.view = v
  <1> DEFINE st == [slots |-> NoSlots, device |-> [i \in 1..MaxPads |-> NoReport],
                    view |-> v, hand |-> NoHand]
  <1>1. EmptySlot \in Slot /\ EmptySlot.pad = NoPad
        <2>1. 32768 \in U16 /\ 0 \in Level /\ {} \in Bits BY SMT DEF U16, Level, Bits
        <2> QED BY <2>1 DEF EmptySlot, Slot, Owner
  <1>2. Idle \in Hand
        <2>1. 0 \in Travel /\ 0 \in Depth /\ {} \in Bits BY SMT DEF Travel, Depth, Bits
        <2> QED BY <2>1 DEF Idle, Hand
  <1>3. /\ st.slots = NoSlots /\ st.device = [i \in 1..MaxPads |-> NoReport] /\ st.view = v
        /\ st.hand = NoHand
        OBVIOUS
  <1>4. /\ NoSlots \in [1..MaxPads -> Slot] /\ \A i \in 1..MaxPads : NoSlots[i].pad = NoPad
        BY <1>1 DEF NoSlots
  <1>5. [i \in 1..MaxPads |-> NoReport] \in [1..MaxPads -> Heard] BY DEF Heard
  <1>6. NoHand \in [Pads -> Hand] BY <1>2 DEF NoHand
  <1>7. st \in PadStates BY <1>4, <1>5, <1>6 DEF PadStates
  <1> HIDE DEF st
  <1>8. GoodPads(st) BY <1>3, <1>4, <1>7 DEF GoodPads
  <1>9. PadsOf(st) = {} BY <1>3, <1>4 DEF PadsOf
  <1> QED BY <1>3, <1>8, <1>9 DEF st

(* The pads on the desk are opened: each is new to the slots.              *)
LEMMA OpenedGood ==
  ASSUME NEW st, GoodPads(st), PadsOf(st) = {}, NEW order \in SetToSeqs(st.view)
  PROVE  LET r == Handled(st, Each("connected", order))
         IN  GoodPads(r) /\ r.view = st.view /\ PadsOf(r) \subseteq st.view
  <1> DEFINE S == st.view
             es == Each("connected", order)
             G == [k \in 0 .. Len(es) |->
                    {x \in PadStates : /\ GoodPads(x) /\ x.view = S
                                       /\ PadsOf(x) \subseteq {order[j] : j \in 1 .. k}}]
  <1>1. S \in SUBSET Pads /\ st \in PadStates BY DEF GoodPads, PadStates
  <1>2. /\ es \in Seq(Event) /\ Len(es) \in Nat
        /\ \A k \in 1 .. Len(es) : es[k].what = "connected" /\ es[k].pad = order[k] /\ order[k] \in S
        /\ \A i, j \in 1 .. Len(es) : order[i] = order[j] => i = j
        BY <1>1, EachFacts
  <1> HIDE DEF es, S
  <1>3. /\ 0 \in 0 .. Len(es) /\ Len(es) \in 0 .. Len(es)
        /\ \A k \in 1 .. Len(es) :
             /\ k \in 0 .. Len(es) /\ k - 1 \in 0 .. Len(es)
             /\ \A j \in 1 .. k - 1 : j \in 1 .. Len(es) /\ j # k /\ j \in 1 .. k
             /\ k \in 1 .. k
        BY <1>2, SMT
  <1>4. st \in G[0] BY <1>1, <1>3 DEF S
  <1>5. ASSUME NEW k \in 1 .. Len(es), NEW x \in G[k - 1] PROVE Handle(x, es[k]) \in G[k]
        <2> DEFINE p == order[k]
        <2>1. /\ GoodPads(x) /\ x.view = S /\ PadsOf(x) \subseteq {order[j] : j \in 1 .. k - 1}
              BY <1>3, <1>5
        <2>2. p \in S /\ p \in Pads /\ p \notin PadsOf(x) BY <1>1, <1>2, <1>3, <2>1
        <2>3. Handle(x, es[k]) = Open(x, p)
              <3>1. [x EXCEPT !.view = x.view \cup {p}] = x
                    <4>1. x.view \cup {p} = x.view BY <2>1, <2>2
                    <4>2. x \in PadStates BY <2>1 DEF GoodPads
                    <4> HIDE DEF p
                    <4> QED BY <4>1, <4>2 DEF PadStates
              <3> QED BY <1>2, <3>1 DEF Handle
        <2> HIDE DEF p
        <2>4. /\ GoodPads(Open(x, p)) /\ Open(x, p).view = x.view
              /\ PadsOf(Open(x, p)) \subseteq PadsOf(x) \cup {p}
              BY <2>1, <2>2, OpenGood
        <2>5. PadsOf(Open(x, p)) \subseteq {order[j] : j \in 1 .. k} BY <1>3, <2>1, <2>4 DEF p
        <2>6. Open(x, p) \in PadStates BY <2>4 DEF GoodPads
        <2> QED BY <1>3, <2>1, <2>3, <2>4, <2>5, <2>6
  <1>6. Handled(st, es) \in G[Len(es)]
        <2> HIDE DEF G
        <2> QED BY <1>2, <1>4, <1>5, HandledKeeps
  <1>7. /\ GoodPads(Handled(st, es)) /\ Handled(st, es).view = S
        /\ PadsOf(Handled(st, es)) \subseteq {order[j] : j \in 1 .. Len(es)}
        BY <1>3, <1>6
  <1>8. PadsOf(Handled(st, es)) \subseteq S BY <1>2, <1>7
  <1> QED BY <1>7, <1>8 DEF es, S

(* The pads gilrs calls connected are closed: none is left.                *)
LEMMA ClosedGood ==
  ASSUME NEW st, GoodPads(st), PadsOf(st) \subseteq st.view, NEW order \in SetToSeqs(st.view)
  PROVE  LET r == [Handled(st, Each("disconnected", order)) EXCEPT !.view = {}, !.slots = NoSlots]
         IN  GoodPads(r) /\ r.view = {} /\ PadsOf(r) = {}
  <1> DEFINE S == st.view
             es == Each("disconnected", order)
             G == [k \in 0 .. Len(es) |->
                    {x \in PadStates : /\ GoodPads(x)
                                       /\ PadsOf(x) \subseteq S \ {order[j] : j \in 1 .. k}}]
  <1>1. S \in SUBSET Pads /\ st \in PadStates BY DEF GoodPads, PadStates
  <1>2. /\ es \in Seq(Event) /\ Len(es) \in Nat
        /\ \A k \in 1 .. Len(es) : es[k].what = "disconnected" /\ es[k].pad = order[k] /\ order[k] \in S
        /\ S = {order[k] : k \in 1 .. Len(es)}
        BY <1>1, EachFacts
  <1> HIDE DEF es, S
  <1>3. /\ 0 \in 0 .. Len(es) /\ Len(es) \in 0 .. Len(es)
        /\ \A k \in 1 .. Len(es) :
             /\ k \in 0 .. Len(es) /\ k - 1 \in 0 .. Len(es)
             /\ \A j \in 1 .. k : j \in 1 .. k - 1 \/ j = k
        BY <1>2, SMT
  <1>4. st \in G[0]
        <2>1. \A j \in 1 .. 0 : FALSE BY SMT
        <2> QED BY <1>1, <1>3, <2>1 DEF S
  <1>5. ASSUME NEW k \in 1 .. Len(es), NEW x \in G[k - 1] PROVE Handle(x, es[k]) \in G[k]
        <2> DEFINE p == order[k]
                   y == [x EXCEPT !.view = x.view \ {p}]
        <2>1. GoodPads(x) /\ PadsOf(x) \subseteq S \ {order[j] : j \in 1 .. k - 1} BY <1>3, <1>5
        <2>2. p \in S /\ p \in Pads BY <1>1, <1>2
        <2>3. Handle(x, es[k]) = Close(y, p) BY <1>2 DEF Handle
        <2>4. GoodPads(y) /\ PadsOf(y) = PadsOf(x)
              <3>1. x.view \ {p} \in SUBSET Pads BY <2>1 DEF GoodPads, PadStates
              <3> HIDE DEF p
              <3> QED BY <2>1, <3>1, ViewGood
        <2> HIDE DEF p, y
        <2>5. GoodPads(Close(y, p)) /\ PadsOf(Close(y, p)) = PadsOf(y) \ {p}
              BY <2>2, <2>4, CloseGood
        <2>6. PadsOf(Close(y, p)) \subseteq S \ {order[j] : j \in 1 .. k}
              BY <1>3, <2>1, <2>4, <2>5 DEF p
        <2>7. Close(y, p) \in PadStates BY <2>5 DEF GoodPads
        <2> QED BY <1>3, <2>3, <2>5, <2>6, <2>7
  <1>6. Handled(st, es) \in G[Len(es)]
        <2> HIDE DEF G
        <2> QED BY <1>2, <1>4, <1>5, HandledKeeps
  <1> DEFINE x == Handled(st, es)
             r == [x EXCEPT !.view = {}, !.slots = NoSlots]
  <1>7. GoodPads(x) /\ PadsOf(x) = {} BY <1>2, <1>3, <1>6
  <1> HIDE DEF x
  <1>8. x \in PadStates BY <1>7 DEF GoodPads
  <1>9. EmptySlot \in Slot /\ EmptySlot.pad = NoPad
        <2>1. 32768 \in U16 /\ 0 \in Level /\ {} \in Bits BY SMT DEF U16, Level, Bits
        <2> QED BY <2>1 DEF EmptySlot, Slot, Owner
  <1>10. NoSlots \in [1..MaxPads -> Slot] /\ \A i \in 1..MaxPads : NoSlots[i].pad = NoPad
         BY <1>9 DEF NoSlots
  <1>11. /\ r.slots = NoSlots /\ r.device = x.device /\ r.view = {} /\ r.hand = x.hand
         /\ r \in PadStates
         BY <1>8, <1>10 DEF PadStates
  <1>12. \A i \in 1..MaxPads : x.device[i] = NoReport
         <2>1. \A i \in 1..MaxPads : x.slots[i].pad = NoPad BY <1>7 DEF PadsOf
         <2> QED BY <1>7, <2>1 DEF GoodPads
  <1> HIDE DEF r
  <1>13. GoodPads(r) BY <1>10, <1>11, <1>12 DEF GoodPads
  <1>14. PadsOf(r) = {} BY <1>10, <1>11 DEF PadsOf
  <1> QED BY <1>11, <1>13, <1>14 DEF r, x, es

-------------------------------------------------------------------------------
(* The events that wait lead from what gilrs calls connected to the desk.  *)
QueueLeads ==
  \E views \in [0 .. Len(events) -> SUBSET Pads] :
    /\ views[0] = view /\ views[Len(events)] = plugged
    /\ \A k \in 1 .. Len(events) : Follows(views[k - 1], events[k], views[k])

PadsInv ==
  /\ plugged \subseteq Pads
  /\ reading \in BOOLEAN
  /\ events \in Seq(Event) /\ Len(events) <= MaxEvents
  /\ GoodPads(PadState)
  /\ PadsOf(PadState) \subseteq view
  /\ reading => QueueLeads
  /\ ~reading => events = << >> /\ view = {}

LEMMA NextPads ==
  ASSUME NEW st, st \in PadStates, SetPadState(st)
  PROVE  PadState' = st
  BY DEF SetPadState, PadState, PadStates

LEMMA QueueEmpty ==
  ASSUME events' = << >>, view' = plugged', plugged' \subseteq Pads
  PROVE  QueueLeads'
  <1> DEFINE views == [k \in 0 .. 0 |-> plugged']
  <1>1. Len(events') = 0 BY EmptySeq
  <1>2. 0 \in 0 .. 0 /\ \A k \in 1 .. 0 : FALSE BY SMT
  <1>3. views \in [0 .. 0 -> SUBSET Pads] /\ views[0] = plugged' BY <1>2
  <1> HIDE DEF views
  <1> QED BY <1>1, <1>2, <1>3 DEF QueueLeads

LEMMA PadsBegin == GamepadsInit => PadsInv
  <1> SUFFICES ASSUME GamepadsInit PROVE PadsInv OBVIOUS
  <1>1. /\ plugged \in SUBSET Pads /\ events = << >> /\ view = {} /\ reading = FALSE
        /\ slots = NoSlots /\ device = [i \in 1..MaxPads |-> NoReport] /\ hand = NoHand
        BY DEF GamepadsInit
  <1>2. PadState = [slots |-> NoSlots, device |-> [i \in 1..MaxPads |-> NoReport],
                    view |-> {}, hand |-> NoHand]
        BY <1>1 DEF PadState
  <1>3. GoodPads(PadState) /\ PadsOf(PadState) = {} BY <1>2, FreshGood
  <1>4. << >> \in Seq(Event) /\ Len(<< >>) = 0 BY EmptySeq
  <1>5. 0 <= MaxEvents BY GamepadsAssumption, SMT
  <1> QED BY <1>1, <1>3, <1>4, <1>5 DEF PadsInv

(* A session begins to read the pads of the desk.                          *)
LEMMA AttachKeeps == PadsInv /\ Attach => PadsInv' /\ reading'
  <1> SUFFICES ASSUME PadsInv, Attach PROVE PadsInv' /\ reading' OBVIOUS
  <1> DEFINE fresh == [slots |-> NoSlots, device |-> [i \in 1..MaxPads |-> NoReport],
                       view |-> plugged, hand |-> NoHand]
  <1>1. /\ reading' = TRUE /\ events' = << >> /\ plugged' = plugged
        /\ \E order \in SetToSeqs(plugged) : SetPadState(Handled(fresh, Each("connected", order)))
        BY DEF Attach
  <1>2. PICK order \in SetToSeqs(plugged) : SetPadState(Handled(fresh, Each("connected", order)))
        BY <1>1
  <1>3. plugged \in SUBSET Pads BY DEF PadsInv
  <1>4. GoodPads(fresh) /\ PadsOf(fresh) = {} /\ fresh.view = plugged BY <1>3, FreshGood
  <1> DEFINE r == Handled(fresh, Each("connected", order))
  <1> HIDE DEF fresh
  <1>5. GoodPads(r) /\ r.view = plugged /\ PadsOf(r) \subseteq plugged
        BY <1>2, <1>4, OpenedGood
  <1> HIDE DEF r
  <1>6. r \in PadStates /\ SetPadState(r) BY <1>2, <1>5 DEF GoodPads, r
  <1>7. PadState' = r /\ view' = r.view BY <1>6, NextPads DEF SetPadState
  <1>8. GoodPads(PadState)' /\ (PadsOf(PadState) \subseteq view)'
        BY <1>5, <1>7 DEF GoodPads, PadsOf
  <1>9. QueueLeads'
        <2>1. events' = << >> /\ view' = plugged' /\ plugged' \subseteq Pads
              BY <1>1, <1>3, <1>5, <1>7
        <2> QED BY <2>1, QueueEmpty
  <1>10. << >> \in Seq(Event) /\ Len(<< >>) = 0 BY EmptySeq
  <1>11. 0 <= MaxEvents BY GamepadsAssumption, SMT
  <1> QED BY <1>1, <1>3, <1>8, <1>9, <1>10, <1>11 DEF PadsInv

(* A session that is over lets go of them.                                 *)
LEMMA DetachKeeps == PadsInv /\ Detach => PadsInv' /\ ~reading'
  <1> SUFFICES ASSUME PadsInv, Detach PROVE PadsInv' /\ ~reading' OBVIOUS
  <1>1. /\ reading' = FALSE /\ events' = << >> /\ plugged' = plugged
        /\ \E order \in SetToSeqs(view) :
             LET st == Handled(PadState, Each("disconnected", order))
             IN SetPadState([st EXCEPT !.view = {}, !.slots = NoSlots])
        BY DEF Detach
  <1>2. PICK order \in SetToSeqs(view) :
          SetPadState([Handled(PadState, Each("disconnected", order))
                         EXCEPT !.view = {}, !.slots = NoSlots])
        BY <1>1
  <1>3. GoodPads(PadState) /\ PadsOf(PadState) \subseteq view /\ PadState.view = view
        BY DEF PadsInv, PadState
  <1> DEFINE st == PadState
             r == [Handled(st, Each("disconnected", order)) EXCEPT !.view = {}, !.slots = NoSlots]
  <1> HIDE DEF st
  <1>4. GoodPads(st) /\ PadsOf(st) \subseteq st.view /\ order \in SetToSeqs(st.view)
        BY <1>2, <1>3 DEF st
  <1>5. GoodPads(r) /\ r.view = {} /\ PadsOf(r) = {}
        BY <1>4, ClosedGood
  <1>6. SetPadState(r) BY <1>2 DEF st
  <1> HIDE DEF r
  <1>7. PadState' = r /\ view' = r.view BY <1>5, <1>6, NextPads DEF SetPadState, GoodPads
  <1>8. GoodPads(PadState)' /\ (PadsOf(PadState) \subseteq view)'
        BY <1>5, <1>7 DEF GoodPads, PadsOf
  <1>9. << >> \in Seq(Event) /\ Len(<< >>) = 0 BY EmptySeq
  <1>10. 0 <= MaxEvents BY GamepadsAssumption, SMT
  <1>11. plugged \subseteq Pads BY DEF PadsInv
  <1> QED BY <1>1, <1>5, <1>7, <1>8, <1>9, <1>10, <1>11 DEF PadsInv

(* The timer drains the queue, which leads to the desk.                    *)
LEMMA PollKeeps == PadsInv /\ Poll => PadsInv' /\ reading' = reading
  <1> SUFFICES ASSUME PadsInv, Poll PROVE PadsInv' /\ reading' = reading OBVIOUS
  <1>1. /\ reading /\ events' = << >> /\ plugged' = plugged /\ reading' = reading
        /\ SetPadState(Handled(PadState, events))
        BY DEF Poll
  <1>2. PICK views \in [0 .. Len(events) -> SUBSET Pads] :
          /\ views[0] = view /\ views[Len(events)] = plugged
          /\ \A k \in 1 .. Len(events) : Follows(views[k - 1], events[k], views[k])
        BY <1>1 DEF PadsInv, QueueLeads
  <1>3. /\ GoodPads(PadState) /\ PadsOf(PadState) \subseteq view /\ PadState.view = view
        /\ events \in Seq(Event) /\ plugged \subseteq Pads /\ reading \in BOOLEAN
        BY DEF PadsInv, PadState
  <1> DEFINE st == PadState
             r == Handled(st, events)
  <1>4. GoodPads(st) /\ PadsOf(st) \subseteq st.view /\ views[0] = st.view BY <1>2, <1>3
  <1> HIDE DEF st
  <1>5. GoodPads(r) /\ r.view = plugged /\ PadsOf(r) \subseteq plugged
        BY <1>2, <1>3, <1>4, PollGood
  <1>6. SetPadState(r) BY <1>1 DEF st
  <1> HIDE DEF r
  <1>7. PadState' = r /\ view' = r.view BY <1>5, <1>6, NextPads DEF SetPadState, GoodPads
  <1>8. GoodPads(PadState)' /\ (PadsOf(PadState) \subseteq view)'
        BY <1>5, <1>7 DEF GoodPads, PadsOf
  <1>9. QueueLeads'
        <2>1. events' = << >> /\ view' = plugged' /\ plugged' \subseteq Pads
              BY <1>1, <1>3, <1>5, <1>7
        <2> QED BY <2>1, QueueEmpty
  <1>10. << >> \in Seq(Event) /\ Len(<< >>) = 0 BY EmptySeq
  <1>11. 0 <= MaxEvents BY GamepadsAssumption, SMT
  <1> QED BY <1>1, <1>3, <1>8, <1>9, <1>10, <1>11 DEF PadsInv

(* The desk: an event that waits leads one step further.                   *)
LEMMA QueueKeeps ==
  ASSUME PadsInv, NEW event \in Event, Len(events) < MaxEvents, Queue(event),
         plugged' \in SUBSET Pads, reading => Follows(plugged, event, plugged'),
         UNCHANGED <<view, reading, slots, device, hand>>
  PROVE  PadsInv' /\ reading' = reading
  <1>1. /\ events \in Seq(Event) /\ Len(events) <= MaxEvents /\ reading \in BOOLEAN
        /\ reading => QueueLeads
        /\ ~reading => events = << >> /\ view = {}
        /\ GoodPads(PadState) /\ PadsOf(PadState) \subseteq view
        BY DEF PadsInv
  <1>2. PadState' = PadState /\ view' = view /\ reading' = reading BY DEF PadState
  <1>3. GoodPads(PadState)' /\ (PadsOf(PadState) \subseteq view)'
        BY <1>1, <1>2 DEF GoodPads, PadsOf
  <1>4. CASE ~reading
        <2>1. events' = events BY <1>4 DEF Queue
        <2> QED BY <1>1, <1>2, <1>3, <1>4, <2>1 DEF PadsInv
  <1>5. CASE reading
        <2> DEFINE n == Len(events)
        <2>1. events' = Append(events, event) BY <1>5 DEF Queue
        <2>2. /\ events' \in Seq(Event) /\ Len(events') = n + 1 /\ n \in Nat
              /\ (\A k \in 1 .. n : events'[k] = events[k]) /\ events'[n + 1] = event
              BY <1>1, <2>1, AppendProperties, LenProperties
        <2>3. PICK views \in [0 .. n -> SUBSET Pads] :
                /\ views[0] = view /\ views[n] = plugged
                /\ \A k \in 1 .. n : Follows(views[k - 1], events[k], views[k])
              BY <1>1, <1>5 DEF QueueLeads
        <2> HIDE DEF n
        <2> DEFINE further == [k \in 0 .. n + 1 |-> IF k <= n THEN views[k] ELSE plugged']
        <2>4. /\ 0 \in 0 .. n + 1 /\ 0 <= n /\ n + 1 \in 0 .. n + 1 /\ ~(n + 1 <= n)
              /\ \A k \in 0 .. n + 1 : k <= n => k \in 0 .. n
              /\ \A k \in 1 .. n + 1 : (k \in 1 .. n /\ k <= n /\ k - 1 <= n) \/ k = n + 1
              /\ \A k \in 1 .. n + 1 : k \in 0 .. n + 1 /\ k - 1 \in 0 .. n + 1
              /\ (n + 1) - 1 = n /\ n <= n
              BY <2>2, SMT
        <2>5. further \in [0 .. n + 1 -> SUBSET Pads] BY <2>3, <2>4
        <2>6. further[0] = view' /\ further[n + 1] = plugged' BY <1>2, <2>3, <2>4
        <2>7. \A k \in 1 .. n + 1 : Follows(further[k - 1], events'[k], further[k])
              <3> SUFFICES ASSUME NEW k \in 1 .. n + 1
                           PROVE  Follows(further[k - 1], events'[k], further[k])
                  OBVIOUS
              <3>1. CASE k \in 1 .. n
                    <4>1. further[k] = views[k] /\ further[k - 1] = views[k - 1]
                          BY <2>4, <3>1
                    <4>2. events'[k] = events[k] BY <2>2, <3>1
                    <4> HIDE DEF further
                    <4> QED BY <2>3, <3>1, <4>1, <4>2
              <3>2. CASE k = n + 1
                    <4>1. further[k] = plugged' /\ further[k - 1] = plugged
                          BY <2>3, <2>4, <3>2
                    <4>2. events'[k] = event BY <2>2, <3>2
                    <4> HIDE DEF further
                    <4> QED BY <1>5, <4>1, <4>2
              <3> QED BY <2>4, <3>1, <3>2
        <2> HIDE DEF further
        <2>8. QueueLeads' BY <2>2, <2>5, <2>6, <2>7 DEF QueueLeads
        <2>9. Len(events') <= MaxEvents BY <2>2, GamepadsAssumption, SMT DEF n
        <2> QED BY <1>2, <1>3, <1>5, <2>2, <2>8, <2>9 DEF PadsInv
  <1> QED BY <1>1, <1>4, <1>5

LEMMA DeskKeeps == PadsInv /\ Desk => PadsInv' /\ reading' = reading
  <1> SUFFICES ASSUME PadsInv, Desk PROVE PadsInv' /\ reading' = reading OBVIOUS
  <1>0. plugged \in SUBSET Pads BY DEF PadsInv
  <1>1. CASE PlugIn
        <2>1. PICK p \in Pads \ plugged :
                /\ Len(events) < MaxEvents /\ plugged' = plugged \cup {p}
                /\ Queue([what |-> "connected", pad |-> p])
                /\ UNCHANGED <<view, reading, slots, device, hand>>
              BY <1>1 DEF PlugIn
        <2> DEFINE e == [what |-> "connected", pad |-> p]
        <2>2. e \in Event BY DEF Event
        <2>3. Follows(plugged, e, plugged') BY <2>1 DEF Follows
        <2>4. plugged' \in SUBSET Pads BY <1>0, <2>1
        <2> HIDE DEF e
        <2>5. Queue(e) BY <2>1 DEF e
        <2> QED BY <2>1, <2>2, <2>3, <2>4, <2>5, QueueKeeps
  <1>2. CASE Unplug
        <2>1. PICK p \in plugged :
                /\ Len(events) < MaxEvents /\ plugged' = plugged \ {p}
                /\ Queue([what |-> "disconnected", pad |-> p])
                /\ UNCHANGED <<view, reading, slots, device, hand>>
              BY <1>2 DEF Unplug
        <2> DEFINE e == [what |-> "disconnected", pad |-> p]
        <2>2. e \in Event BY <1>0 DEF Event
        <2>3. Follows(plugged, e, plugged') BY <2>1 DEF Follows
        <2>4. plugged' \in SUBSET Pads BY <1>0, <2>1
        <2> HIDE DEF e
        <2>5. Queue(e) BY <2>1 DEF e
        <2> QED BY <2>1, <2>2, <2>3, <2>4, <2>5, QueueKeeps
  <1>3. CASE MoveHand
        <2>1. PICK p \in plugged, move \in Moves :
                /\ Len(events) < MaxEvents
                /\ Queue([what |-> "move", pad |-> p, move |-> move])
                /\ UNCHANGED <<plugged, view, reading, slots, device, hand>>
              BY <1>3 DEF MoveHand
        <2> DEFINE e == [what |-> "move", pad |-> p, move |-> move]
        <2>2. e \in Event BY <1>0 DEF Event
        <2>3. Follows(plugged, e, plugged') BY <2>1 DEF Follows
        <2>4. plugged' \in SUBSET Pads BY <1>0, <2>1
        <2> HIDE DEF e
        <2>5. Queue(e) BY <2>1 DEF e
        <2> QED BY <2>1, <2>2, <2>3, <2>4, <2>5, QueueKeeps
  <1> QED BY <1>1, <1>2, <1>3 DEF Desk

LEMMA PadsStay == PadsInv /\ UNCHANGED gamepadVars => PadsInv' /\ reading' = reading
  BY DEF PadsInv, QueueLeads, PadState, gamepadVars, GoodPads, PadsOf

(* The device's gamepads are the slots, and those follow the hand.         *)
LEMMA PadsSound == PadsInv => PadsAreTheHands
  <1> SUFFICES ASSUME PadsInv PROVE PadsAreTheHands OBVIOUS
  <1>1. /\ GoodPads(PadState) /\ PadsOf(PadState) \subseteq view
        /\ reading \in BOOLEAN /\ (~reading => view = {})
        BY DEF PadsInv
  <1>2. PadState.slots = slots /\ PadState.device = device /\ PadState.hand = hand
        BY DEF PadState
  <1>3. /\ \A i \in 1..MaxPads : slots[i] \in Slot
        /\ \A i \in 1..MaxPads :
             device[i] = IF slots[i].pad = NoPad THEN NoReport ELSE Report(slots[i])
        /\ \A i, j \in 1..MaxPads :
             slots[i].pad = slots[j].pad => i = j \/ slots[i].pad = NoPad
        /\ \A i \in 1..MaxPads :
             slots[i].pad # NoPad => IsAt(slots[i], hand[slots[i].pad])
        BY <1>1, <1>2 DEF GoodPads, PadStates
  <1>4. \A i \in 1..MaxPads : slots[i].pad # NoPad => slots[i].pad \in view
        BY <1>1, <1>2 DEF PadsOf
  <1>5. NoGhostPad
        <2>1. \A i \in 1..MaxPads : (device[i] # NoReport) <=> (slots[i].pad # NoPad)
              BY <1>3, ReportFacts
        <2>2. \A i, j \in 1..MaxPads : (i # j /\ slots[i].pad = slots[j].pad) => slots[i].pad = NoPad
              BY <1>3
        <2>3. \A i \in 1..MaxPads : slots[i].pad # NoPad => reading /\ slots[i].pad \in view
              BY <1>1, <1>4
        <2> QED BY <2>1, <2>2, <2>3 DEF NoGhostPad
  <1>6. ASSUME NEW i \in 1..MaxPads, slots[i].pad # NoPad
        PROVE  LET h == hand[slots[i].pad] IN
               /\ device[i].buttons = h.buttons \cap {"a"}
               /\ device[i].hat = 0 <=> (("left" \in h.buttons) <=> ("right" \in h.buttons))
               /\ device[i].stick = 32768 <=> h.stick = 0
               /\ h.stick >= 2 => device[i].stick <= 1
               /\ h.stick <= -2 => device[i].stick = 65535
               /\ device[i].trigger = 0 <=> h.trigger <= 0
               /\ device[i].trigger = I16Max <=> h.trigger >= 4
        <2> DEFINE h == hand[slots[i].pad]
        <2>1. device[i] = Report(slots[i]) /\ IsAt(slots[i], h) /\ slots[i] \in Slot
              BY <1>3, <1>6
        <2> HIDE DEF h
        <2>2. /\ device[i].buttons = slots[i].buttons \ {"left", "right"}
              /\ device[i].hat = DpadValue(slots[i].buttons)
              /\ device[i].stick = slots[i].stick /\ device[i].trigger = slots[i].trigger
              BY <2>1 DEF Report
        <2>3. slots[i].buttons = h.buttons /\ slots[i].buttons \in Bits BY <2>1 DEF IsAt, Slot
        <2>4. device[i].buttons = h.buttons \cap {"a"} BY <2>2, <2>3 DEF Bits
        <2>5. device[i].hat = 0 <=> (("left" \in h.buttons) <=> ("right" \in h.buttons))
              BY <2>2, <2>3 DEF DpadValue
        <2> QED BY <2>1, <2>2, <2>4, <2>5 DEF IsAt, h
  <1> QED BY <1>5, <1>6 DEF PadsAreTheHands

-------------------------------------------------------------------------------
Phases == {"unused", "connecting", "offered", "refused", "up", "over", "cut"}

Kinds ==
  /\ loop \in {"up", "over", "done"}
  /\ attempts \in 0..MaxAttempts
  /\ phase \in [Attempts -> Phases]
  /\ {pending, timer, embedded} \subseteq 0..attempts
  /\ held \in [Parts -> {0, embedded}]
  /\ exited \subseteq children
  /\ tray \in {"absent", "idle", "running"}
  /\ cancelled \subseteq 1..attempts

(* Which attempt is where.                                                 *)
OneAtATime ==
  /\ \A n \in Attempts : n > attempts => phase[n] = "unused"
  /\ \A n \in Attempts : phase[n] = "up" => n = embedded
  /\ pending # 0 => /\ timer = pending /\ embedded = 0 /\ children = {}
                    /\ phase[pending] \in {"connecting", "offered", "refused"}
  /\ embedded # 0 => pending = 0 /\ children = {}
  /\ pending \notin cancelled
  /\ reading <=> held["gamepads"] # 0

SessionInv == Kinds /\ OneAtATime /\ TheTrayTellsTheTruth

LEMMA KindsFacts ==
  ASSUME Kinds
  PROVE  /\ MaxAttempts \in Nat /\ attempts \in Nat /\ attempts <= MaxAttempts
         /\ pending \in Nat /\ timer \in Nat /\ embedded \in Nat
         /\ pending <= attempts /\ timer <= attempts /\ embedded <= attempts
         /\ (pending # 0 => pending \in Attempts)
         /\ (embedded # 0 => embedded \in Attempts)
         /\ attempts < MaxAttempts => attempts + 1 \in Attempts
  BY PanelSessionAssumption, SMT DEF Kinds, Attempts

LEMMA SessionBegins == Init => SessionInv
  <1> SUFFICES ASSUME Init PROVE SessionInv OBVIOUS
  <1>1. MaxAttempts \in Nat /\ 0 \in 0..MaxAttempts /\ 0 \in 0..0
        BY PanelSessionAssumption, SMT
  <1>2. "gamepads" \in Parts BY DEF Parts
  <1>3. Kinds BY <1>1 DEF Init, Kinds, NoParts, Phases
  <1>4. OneAtATime BY <1>2 DEF Init, OneAtATime, NoParts, GamepadsInit
  <1>5. TheTrayTellsTheTruth BY DEF Init, TheTrayTellsTheTruth, IsRunning
  <1> QED BY <1>3, <1>4, <1>5 DEF SessionInv

(* An embedded start: the attempt is one no stop has seen.                 *)
LEMMA StartEmbeddedKeeps == SessionInv /\ StartEmbedded => SessionInv'
  <1> SUFFICES ASSUME SessionInv, StartEmbedded PROVE SessionInv' OBVIOUS
  <1> DEFINE n == attempts + 1
  <1>1. PICK f \in Forms :
          /\ loop = "up" /\ ~IsRunning /\ attempts < MaxAttempts /\ attempts' = n
          /\ phase' = [phase EXCEPT ![n] = "connecting"] /\ pending' = n /\ timer' = n
          /\ tray' = SyncTray(TRUE)
          /\ UNCHANGED <<cancelled, loop, gone, embedded, held, camera, children, exited, watch,
                         running, gamepadVars>>
        BY DEF StartEmbedded, TrayOfAStart
  <1>2. Kinds /\ OneAtATime /\ TheTrayTellsTheTruth BY DEF SessionInv
  <1>3. /\ MaxAttempts \in Nat /\ attempts \in Nat /\ n \in Attempts /\ n \in Nat /\ n # 0
        /\ n \in 0..n /\ 0 \in 0..n /\ n \in 0..MaxAttempts /\ n \notin 1..attempts
        /\ 1..attempts \subseteq 1..n
        /\ \A m \in Attempts : m > n => m > attempts /\ m # n
        BY <1>1, <1>2, KindsFacts, SMT DEF Attempts
  <1>4. embedded = 0 /\ pending = 0 /\ children = {} BY <1>1 DEF IsRunning
  <1> HIDE DEF n
  <1>5. Kinds' BY <1>1, <1>2, <1>3, <1>4 DEF Kinds, SyncTray, Phases
  <1>6. OneAtATime'
        <2>1. \A m \in Attempts : phase'[m] = IF m = n THEN "connecting" ELSE phase[m]
              BY <1>1, <1>2, <1>3 DEF Kinds
        <2>2. reading' = reading BY <1>1 DEF gamepadVars
        <2>3. n \notin cancelled BY <1>2, <1>3 DEF Kinds
        <2> QED BY <1>1, <1>2, <1>3, <1>4, <2>1, <2>2, <2>3 DEF OneAtATime
  <1>7. TheTrayTellsTheTruth'
        BY <1>1, <1>2, <1>3, <1>4 DEF TheTrayTellsTheTruth, IsRunning, SyncTray
  <1> QED BY <1>5, <1>6, <1>7 DEF SessionInv

LEMMA StartWindowedKeeps == SessionInv /\ StartWindowed => SessionInv'
  <1> SUFFICES ASSUME SessionInv, StartWindowed PROVE SessionInv' OBVIOUS
  <1>1. /\ ~IsRunning /\ exited' = {}
        /\ running' = (running \/ children' # {})
        /\ tray' = IF children' = {} THEN tray ELSE SyncTray(TRUE)
        /\ UNCHANGED <<cancelled, loop, attempts, form, phase, gone, pending, timer, embedded, held,
                       camera, gamepadVars>>
        BY DEF StartWindowed
  <1>2. Kinds /\ OneAtATime /\ TheTrayTellsTheTruth BY DEF SessionInv
  <1>3. embedded = 0 /\ pending = 0 /\ children = {} BY <1>1 DEF IsRunning
  <1>4. Kinds' BY <1>1, <1>2 DEF Kinds, SyncTray
  <1>5. OneAtATime' BY <1>1, <1>2, <1>3 DEF OneAtATime, gamepadVars
  <1>6. TheTrayTellsTheTruth'
        BY <1>1, <1>2, <1>3 DEF TheTrayTellsTheTruth, IsRunning, SyncTray
  <1> QED BY <1>4, <1>5, <1>6 DEF SessionInv

LEMMA WorkersKeep == SessionInv /\ Workers => SessionInv'
  <1> SUFFICES ASSUME SessionInv, NEW n \in Attempts, WorkerDone(n) PROVE SessionInv'
      BY DEF Workers
  <1>1. PICK came \in BOOLEAN :
          /\ phase[n] = "connecting"
          /\ phase' = [phase EXCEPT ![n] = Answer(n, came)]
          /\ UNCHANGED <<cancelled, loop, attempts, form, gone, pending, timer, embedded, held, camera,
                         children, exited, watch, running, tray, gamepadVars>>
        BY DEF WorkerDone
  <1>2. Kinds /\ OneAtATime /\ TheTrayTellsTheTruth BY DEF SessionInv
  <1>3. /\ Answer(n, came) \in Phases /\ Answer(n, came) # "up"
        /\ pending = n => Answer(n, came) \in {"offered", "refused"}
        BY DEF Answer, Phases
  <1>4. \A m \in Attempts : phase'[m] = IF m = n THEN Answer(n, came) ELSE phase[m]
        BY <1>1, <1>2 DEF Kinds
  <1>5. Kinds' BY <1>1, <1>2, <1>3 DEF Kinds
  <1>6. OneAtATime'
        <2>1. pending # 0 => pending \in Attempts BY <1>2, KindsFacts
        <2>2. reading' = reading BY <1>1 DEF gamepadVars
        <2>3. ~(n > attempts) BY <1>1, <1>2 DEF OneAtATime
        <2> QED BY <1>1, <1>2, <1>3, <1>4, <2>1, <2>2, <2>3 DEF OneAtATime
  <1>7. TheTrayTellsTheTruth' BY <1>1, <1>2 DEF TheTrayTellsTheTruth, IsRunning
  <1> QED BY <1>5, <1>6, <1>7 DEF SessionInv

(* The answer is installed: what is held is of the session that is up.     *)
LEMMA InstallKeeps == SessionInv /\ PadsInv /\ Install => SessionInv' /\ PadsInv'
  <1> SUFFICES ASSUME SessionInv, PadsInv, Install PROVE SessionInv' /\ PadsInv' OBVIOUS
  <1> DEFINE n == pending
             opts == form[timer]
  <1>1. /\ loop = "up" /\ timer # 0 /\ pending # 0 /\ pending' = 0
        /\ UNCHANGED <<cancelled, loop, attempts, form, gone, timer, children, exited, watch>>
        BY DEF Install
  <1>2. Kinds /\ OneAtATime /\ TheTrayTellsTheTruth BY DEF SessionInv
  <1>3. /\ embedded = 0 /\ children = {} /\ timer = pending /\ n \in Attempts /\ n \in 0..attempts
        /\ 0 \in 0..attempts
        BY <1>1, <1>2, KindsFacts, SMT DEF OneAtATime, Kinds
  <1>4. "gamepads" \in Parts BY DEF Parts
  <1>5. ~reading BY <1>2, <1>3, <1>4 DEF OneAtATime, Kinds
  <1>6. CASE /\ phase[n] = "refused" /\ phase' = [phase EXCEPT ![n] = "over"]
             /\ running' = FALSE /\ tray' = SyncTray(FALSE)
             /\ UNCHANGED <<embedded, held, gamepadVars>>
        <2>1. \A m \in Attempts : phase'[m] = IF m = n THEN "over" ELSE phase[m]
              BY <1>2, <1>6 DEF Kinds
        <2>2. Kinds' BY <1>1, <1>2, <1>3, <1>6 DEF Kinds, SyncTray, Phases
        <2>3. reading' = reading BY <1>6 DEF gamepadVars
        <2>3a. 0 \notin cancelled
               <3>1. 0 \notin 1..attempts BY <1>2, KindsFacts, SMT
               <3> QED BY <1>2, <3>1 DEF Kinds
        <2>4. OneAtATime'
              <3>1. ~(n > attempts) BY <1>2, <1>6, <1>3 DEF OneAtATime
              <3> QED BY <1>1, <1>2, <1>3, <1>6, <2>1, <2>3, <2>3a, <3>1 DEF OneAtATime
        <2>5. TheTrayTellsTheTruth'
              BY <1>1, <1>3, <1>6 DEF TheTrayTellsTheTruth, IsRunning, SyncTray
        <2>6. PadsInv' BY <1>6, PadsStay
        <2> QED BY <2>2, <2>4, <2>5, <2>6 DEF SessionInv
  <1>7. CASE /\ phase[n] = "offered" /\ phase' = [phase EXCEPT ![n] = "up"]
             /\ \E has \in Machines : held' = Mounted(n, opts, has)
             /\ IF held'["gamepads"] # 0 THEN Attach ELSE UNCHANGED gamepadVars
             /\ embedded' = n /\ running' = TRUE /\ tray' = SyncTray(TRUE)
        <2>1. \A m \in Attempts : phase'[m] = IF m = n THEN "up" ELSE phase[m]
              BY <1>2, <1>7 DEF Kinds
        <2>2. held' \in [Parts -> {0, n}]
              <3>1. PICK has \in Machines : held' = Mounted(n, opts, has) BY <1>7
              <3>2. ASSUME NEW q \in Parts
                    PROVE (CASE q = "audio" -> IF "audio" \in has THEN n ELSE 0
                            [] q \in {"attachment", "metrics"} -> IF form[n].video THEN n ELSE 0
                            [] q = "controller" -> IF HasController(n) THEN n ELSE 0
                            [] q = "uhid" ->
                                 IF HasController(n) /\ opts.uhid /\ "uhid" \in has THEN n ELSE 0
                            [] q = "gamepads" ->
                                 IF HasController(n) /\ opts.gamepad /\ "gamepads" \in has
                                 THEN n ELSE 0
                            [] q = "limit" -> LimitOf(n, opts)) \in {0, n}
                    <4> HIDE DEF n, opts
                    <4>1. LimitOf(n, opts) \in {0, n} BY DEF LimitOf
                    <4> QED BY <4>1 DEF Parts
              <3> QED BY <3>1, <3>2 DEF Mounted
        <2>3. Kinds' BY <1>1, <1>2, <1>3, <1>7, <2>2 DEF Kinds, SyncTray, Phases
        <2>4. PadsInv' /\ (reading' <=> held'["gamepads"] # 0)
              <3>1. CASE held'["gamepads"] # 0 BY <1>7, <3>1, AttachKeeps
              <3>2. CASE held'["gamepads"] = 0 BY <1>5, <1>7, <3>2, PadsStay
              <3> QED BY <3>1, <3>2
        <2>5. 0 \notin cancelled
              <3>1. 0 \notin 1..attempts BY <1>2, KindsFacts, SMT
              <3> QED BY <1>2, <3>1 DEF Kinds
        <2>6. OneAtATime'
              <3>1. ~(n > attempts) BY <1>2, <1>7, <1>3 DEF OneAtATime
              <3>2. 0 \notin Attempts BY SMT DEF Attempts
              <3>3. \A m \in Attempts : phase'[m] = "up" => m = n
                    BY <1>2, <1>3, <2>1, <3>2 DEF OneAtATime
              <3>4. \A m \in Attempts : m > attempts => phase'[m] = "unused"
                    BY <1>2, <2>1, <3>1 DEF OneAtATime
              <3> QED BY <1>1, <1>3, <1>7, <2>4, <2>5, <3>3, <3>4 DEF OneAtATime
        <2>7. TheTrayTellsTheTruth'
              BY <1>1, <1>3, <1>7 DEF TheTrayTellsTheTruth, IsRunning, SyncTray
        <2> QED BY <2>3, <2>4, <2>6, <2>7 DEF SessionInv
  <1> QED BY <1>6, <1>7 DEF Install

(* What stops the session leaves nothing of it.                            *)
LEMMA StopKeeps == SessionInv /\ PadsInv /\ StopSession /\ loop' \in {"up", "over", "done"}
                     => SessionInv' /\ PadsInv'
  <1> SUFFICES ASSUME SessionInv, PadsInv, StopSession, loop' \in {"up", "over", "done"}
               PROVE  SessionInv' /\ PadsInv'
      OBVIOUS
  <1>1. /\ pending' = 0 /\ timer' = 0 /\ children' = {} /\ exited' = {} /\ held' = NoParts
        /\ IF held["gamepads"] # 0 THEN Detach ELSE UNCHANGED gamepadVars
        /\ embedded' = 0
        /\ phase' = [n \in Attempts |-> IF ShutDown(n) THEN "over" ELSE phase[n]]
        /\ cancelled' = cancelled \cup ({pending} \ {0})
        /\ running' = FALSE /\ tray' = SyncTray(FALSE)
        /\ UNCHANGED <<attempts, form, gone>>
        BY DEF StopSession, StopAwaiting, StopClients, Dropped
  <1>2. Kinds /\ OneAtATime /\ TheTrayTellsTheTruth BY DEF SessionInv
  <1>3. /\ 0 \in 0..attempts /\ 0 \notin 1..attempts /\ (pending # 0 => pending \in 1..attempts)
        BY <1>2, KindsFacts, SMT DEF Kinds
  <1>4. "gamepads" \in Parts BY DEF Parts
  <1>5. Kinds' BY <1>1, <1>2, <1>3 DEF Kinds, SyncTray, Phases, NoParts
  <1>6. PadsInv' /\ ~reading'
        <2>1. CASE held["gamepads"] # 0 BY <1>1, <2>1, DetachKeeps
        <2>2. CASE held["gamepads"] = 0
              <3>1. ~reading BY <1>2, <2>2 DEF OneAtATime
              <3> QED BY <1>1, <2>2, <3>1, PadsStay
        <2> QED BY <2>1, <2>2
  <1>7. OneAtATime'
        <2>1. \A n \in Attempts : n > attempts => phase'[n] = "unused"
              <3> SUFFICES ASSUME NEW n \in Attempts, n > attempts PROVE ~ShutDown(n)
                  BY <1>1, <1>2 DEF OneAtATime
              <3>1. n \in Nat /\ attempts \in Nat /\ embedded <= attempts /\ pending <= attempts
                    /\ embedded \in Nat /\ pending \in Nat
                    BY <1>2, KindsFacts, SMT DEF Attempts
              <3>2. n # embedded /\ n # pending BY <3>1, SMT
              <3> QED BY <3>2 DEF ShutDown
        <2>2. \A n \in Attempts : phase'[n] # "up" BY <1>1, <1>2 DEF OneAtATime, ShutDown
        <2>3. 0 \notin cancelled' BY <1>1, <1>2, <1>3 DEF Kinds
        <2>4. held'["gamepads"] = 0 BY <1>1, <1>4 DEF NoParts
        <2> QED BY <1>1, <1>6, <2>1, <2>2, <2>3, <2>4 DEF OneAtATime
  <1>8. TheTrayTellsTheTruth' BY <1>1 DEF TheTrayTellsTheTruth, IsRunning, SyncTray
  <1> QED BY <1>5, <1>6, <1>7, <1>8 DEF SessionInv

LEMMA StopsKeep == SessionInv /\ PadsInv /\ Stops => SessionInv' /\ PadsInv'
  <1> SUFFICES ASSUME SessionInv, PadsInv, Stops PROVE SessionInv' /\ PadsInv' OBVIOUS
  <1>1. StopSession /\ loop' \in {"up", "over"}
        BY DEF Stops, StopButton, TrayToggle, QuitShortcut, PictureEnds, LimitFires, LoopEnds
  <1> QED BY <1>1, StopKeeps

LEMMA WatchKeeps == SessionInv /\ WatchClients => SessionInv'
  <1> SUFFICES ASSUME SessionInv, WatchClients PROVE SessionInv' OBVIOUS
  <1>1. /\ exited # {} /\ children' = children \ exited /\ exited' = {}
        /\ running' = (running /\ children' # {})
        /\ tray' = IF children' = {} THEN SyncTray(FALSE) ELSE tray
        /\ UNCHANGED <<cancelled, loop, attempts, form, phase, gone, pending, timer, embedded, held,
                       camera, watch, gamepadVars>>
        BY DEF WatchClients
  <1>2. Kinds /\ OneAtATime /\ TheTrayTellsTheTruth BY DEF SessionInv
  <1>3. children # {} BY <1>1, <1>2 DEF Kinds
  <1>4. embedded = 0 /\ pending = 0 BY <1>2, <1>3 DEF OneAtATime
  <1>5. Kinds' BY <1>1, <1>2 DEF Kinds, SyncTray
  <1>6. OneAtATime' BY <1>1, <1>2, <1>4 DEF OneAtATime, gamepadVars
  <1>7. TheTrayTellsTheTruth'
        BY <1>1, <1>2, <1>3, <1>4 DEF TheTrayTellsTheTruth, IsRunning, SyncTray
  <1> QED BY <1>5, <1>6, <1>7 DEF SessionInv

LEMMA TrayPresenceKeeps == SessionInv /\ TrayPresence => SessionInv'
  <1> SUFFICES ASSUME SessionInv, TrayPresence PROVE SessionInv' OBVIOUS
  <1>1. /\ tray' = IF tray # "absent" THEN "absent" ELSE IF IsRunning THEN "running" ELSE "idle"
        /\ UNCHANGED <<cancelled, loop, attempts, form, phase, gone, pending, timer, embedded, held,
                       camera, children, exited, watch, running, gamepadVars>>
        BY DEF TrayPresence
  <1>2. Kinds /\ OneAtATime /\ TheTrayTellsTheTruth BY DEF SessionInv
  <1>3. Kinds' BY <1>1, <1>2 DEF Kinds
  <1>4. OneAtATime' BY <1>1, <1>2 DEF OneAtATime, gamepadVars
  <1>5. TheTrayTellsTheTruth' BY <1>1, <1>2 DEF TheTrayTellsTheTruth, IsRunning
  <1> QED BY <1>3, <1>4, <1>5 DEF SessionInv

(* The process leaves with the workers it still has.                       *)
LEMMA ProcessEndsKeeps == SessionInv /\ pending = 0 /\ ProcessEnds => SessionInv'
  <1> SUFFICES ASSUME SessionInv, pending = 0, ProcessEnds PROVE SessionInv' OBVIOUS
  <1>1. /\ loop' = "done"
        /\ phase' = [n \in Attempts |-> IF phase[n] = "connecting" THEN "cut" ELSE phase[n]]
        /\ UNCHANGED <<cancelled, attempts, form, gone, pending, timer, embedded, held, camera, children,
                       exited, watch, running, tray, gamepadVars>>
        BY DEF ProcessEnds
  <1>2. Kinds /\ OneAtATime /\ TheTrayTellsTheTruth BY DEF SessionInv
  <1>3. Kinds' BY <1>1, <1>2 DEF Kinds, Phases
  <1>4. OneAtATime' BY <1>1, <1>2 DEF OneAtATime, gamepadVars
  <1>5. TheTrayTellsTheTruth' BY <1>1, <1>2 DEF TheTrayTellsTheTruth, IsRunning
  <1> QED BY <1>3, <1>4, <1>5 DEF SessionInv

-------------------------------------------------------------------------------
(* With the loop over nothing is awaited.                                  *)
Inv == SessionInv /\ PadsInv /\ (loop # "up" => pending = 0)

LEMMA InvBegins == Init => Inv
  <1> SUFFICES ASSUME Init PROVE Inv OBVIOUS
  <1>1. GamepadsInit /\ loop = "up" BY DEF Init
  <1> QED BY <1>1, SessionBegins, PadsBegin DEF Inv

LEMMA InvKeeps == Inv /\ [Next]_vars => Inv'
  <1> SUFFICES ASSUME Inv, [Next]_vars PROVE Inv' OBVIOUS
  <1>0. SessionInv /\ PadsInv /\ (loop # "up" => pending = 0) BY DEF Inv
  <1>1. CASE StartEmbedded
        <2>1. UNCHANGED gamepadVars /\ loop = "up" /\ loop' = loop BY <1>1 DEF StartEmbedded
        <2> QED BY <1>0, <1>1, <2>1, StartEmbeddedKeeps, PadsStay DEF Inv
  <1>2. CASE StartWindowed
        <2>1. UNCHANGED gamepadVars /\ loop = "up" /\ loop' = loop BY <1>2 DEF StartWindowed
        <2> QED BY <1>0, <1>2, <2>1, StartWindowedKeeps, PadsStay DEF Inv
  <1>3. CASE Workers
        <2>1. UNCHANGED gamepadVars /\ loop' = loop /\ pending' = pending
              BY <1>3 DEF Workers, WorkerDone
        <2> QED BY <1>0, <1>3, <2>1, WorkersKeep, PadsStay DEF Inv
  <1>4. CASE Install
        <2>1. pending' = 0 BY <1>4 DEF Install
        <2> QED BY <1>0, <1>4, <2>1, InstallKeeps DEF Inv
  <1>5. CASE Stops
        <2>1. pending' = 0
              BY <1>5 DEF Stops, StopButton, TrayToggle, QuitShortcut, PictureEnds, LimitFires,
                          LoopEnds, StopSession, StopAwaiting
        <2> QED BY <1>0, <1>5, <2>1, StopsKeep DEF Inv
  <1>6. CASE WatchClients
        <2>1. UNCHANGED gamepadVars /\ loop' = loop /\ pending' = pending BY <1>6 DEF WatchClients
        <2> QED BY <1>0, <1>6, <2>1, WatchKeeps, PadsStay DEF Inv
  <1>7. CASE TrayPresence
        <2>1. UNCHANGED gamepadVars /\ loop' = loop /\ pending' = pending BY <1>7 DEF TrayPresence
        <2> QED BY <1>0, <1>7, <2>1, TrayPresenceKeeps, PadsStay DEF Inv
  <1>8. CASE ProcessEnds
        <2>1. UNCHANGED gamepadVars /\ loop = "over" /\ pending' = pending BY <1>8 DEF ProcessEnds
        <2> QED BY <1>0, <1>8, <2>1, ProcessEndsKeeps, PadsStay DEF Inv
  <1>9. CASE Servers
        <2>1. /\ UNCHANGED gamepadVars
              /\ UNCHANGED <<cancelled, loop, attempts, phase, pending, timer, embedded, held,
                             children, exited, running, tray>>
              BY <1>9 DEF Servers, ServerLeaves
        <2>2. SessionInv'
              BY <1>0, <2>1 DEF SessionInv, Kinds, OneAtATime, TheTrayTellsTheTruth, IsRunning,
                                gamepadVars
        <2> QED BY <1>0, <2>1, <2>2, PadsStay DEF Inv
  <1>10. CASE ClientEnds
        <2>1. /\ UNCHANGED gamepadVars /\ exited' \subseteq children \cup exited
              /\ UNCHANGED <<cancelled, loop, attempts, phase, pending, timer, embedded, held,
                             children, running, tray>>
              BY <1>10 DEF ClientEnds
        <2>2. SessionInv'
              BY <1>0, <2>1 DEF SessionInv, Kinds, OneAtATime, TheTrayTellsTheTruth, IsRunning,
                                gamepadVars
        <2> QED BY <1>0, <2>1, <2>2, PadsStay DEF Inv
  <1>11. ASSUME UNCHANGED sessionVars, PadsInv', reading' = reading PROVE Inv'
        <2>1. SessionInv'
              BY <1>0, <1>11 DEF SessionInv, Kinds, OneAtATime, TheTrayTellsTheTruth, IsRunning,
                                 sessionVars
        <2> QED BY <1>0, <1>11, <2>1 DEF Inv, sessionVars
  <1>12. CASE DeskMoves BY <1>0, <1>11, <1>12, DeskKeeps DEF DeskMoves
  <1>13. CASE PollPads BY <1>0, <1>11, <1>13, PollKeeps DEF PollPads
  <1>14. CASE UNCHANGED vars BY <1>0, <1>11, <1>14, PadsStay DEF vars
  <1> QED BY <1>1, <1>2, <1>3, <1>4, <1>5, <1>6, <1>7, <1>8, <1>9, <1>10, <1>12, <1>13, <1>14
          DEF Next, Done

LEMMA Invariance == Spec => []Inv
  BY InvBegins, InvKeeps, PTL DEF Spec

(* Every part the panel holds belongs to the session that is embedded.     *)
THEOREM NothingOfAnotherHolds == Spec => []NothingOfAnother
  <1>1. Inv => NothingOfAnother
        <2> SUFFICES ASSUME Inv PROVE NothingOfAnother OBVIOUS
        <2>1. Kinds /\ OneAtATime /\ PadsInv BY DEF Inv, SessionInv
        <2>2. {0, embedded} \subseteq 0..MaxAttempts
              /\ attempts \in 0..MaxAttempts /\ 0..attempts \subseteq 0..MaxAttempts
              BY <2>1, KindsFacts, SMT
        <2>3. GamepadsTypeOK
              <3>1. PadState \in PadStates /\ plugged \subseteq Pads /\ Len(events) <= MaxEvents
                    /\ reading \in BOOLEAN
                    BY <2>1 DEF PadsInv, GoodPads
              <3>2. slots \in [1..MaxPads -> Slot] /\ view \subseteq Pads
                    BY <3>1 DEF PadState, PadStates
              <3> QED BY <3>1, <3>2 DEF GamepadsTypeOK, Slot, Owner
        <2>4. TypeOK BY <2>1, <2>2, <2>3 DEF TypeOK, Kinds, Phases
        <2>5. \A p \in Parts : held[p] \in {0, embedded} BY <2>1 DEF Kinds
        <2> QED BY <2>1, <2>4, <2>5 DEF OneAtATime, NothingOfAnother
  <1> QED BY <1>1, Invariance, PTL

(* The window and the tray say running exactly while something runs.       *)
THEOREM TheTrayIsRight == Spec => []TheTrayTellsTheTruth
  <1>1. Inv => TheTrayTellsTheTruth BY DEF Inv, SessionInv
  <1> QED BY <1>1, Invariance, PTL

(* What the device reads of a pad is what the hand has done to it, through *)
(* every queue of events, attach and detach.                               *)
THEOREM ThePadsAreRight == Spec => []PadsAreTheHands
  <1>1. Inv => PadsAreTheHands BY PadsSound DEF Inv
  <1> QED BY <1>1, Invariance, PTL

(* A stopped start is never mounted and a session that is over stays over. *)
THEOREM OverStaysOver == Spec => OverIsOver
  <1>1. Inv /\ [Next]_vars =>
          [\A n \in Attempts : /\ (embedded' = n /\ embedded # n) => n \notin cancelled
                               /\ phase[n] = "over" => phase'[n] = "over"]_vars
        <2> SUFFICES ASSUME Inv, Next, NEW n \in Attempts
                     PROVE  /\ (embedded' = n /\ embedded # n) => n \notin cancelled
                            /\ phase[n] = "over" => phase'[n] = "over"
            OBVIOUS
        <2>0. Kinds /\ OneAtATime BY DEF Inv, SessionInv
        <2>1. n # 0 BY SMT DEF Attempts
        <2>2. CASE StartEmbedded
              <3>1. /\ attempts < MaxAttempts /\ UNCHANGED embedded
                    /\ phase' = [phase EXCEPT ![attempts + 1] = "connecting"]
                    BY <2>2 DEF StartEmbedded
              <3>2. attempts + 1 \in Attempts /\ attempts + 1 > attempts
                    BY <2>0, <3>1, KindsFacts, SMT
              <3>3. phase[attempts + 1] = "unused" BY <2>0, <3>2 DEF OneAtATime
              <3> QED BY <2>0, <3>1, <3>3 DEF Kinds
        <2>3. CASE Workers
              <3>1. PICK m \in Attempts, came \in BOOLEAN :
                      /\ phase[m] = "connecting" /\ UNCHANGED embedded
                      /\ phase' = [phase EXCEPT ![m] = Answer(m, came)]
                    BY <2>3 DEF Workers, WorkerDone
              <3> QED BY <2>0, <3>1 DEF Kinds
        <2>4. CASE Install
              <3>1. /\ pending # 0 /\ embedded' \in {embedded, pending}
                    /\ phase[pending] \in {"refused", "offered"}
                    /\ \E to : phase' = [phase EXCEPT ![pending] = to]
                    BY <2>4 DEF Install
              <3> QED BY <2>0, <3>1 DEF Kinds, OneAtATime
        <2>5. CASE Stops
              <3>1. /\ embedded' = 0
                    /\ phase' = [m \in Attempts |-> IF ShutDown(m) THEN "over" ELSE phase[m]]
                    BY <2>5 DEF Stops, StopButton, TrayToggle, QuitShortcut, PictureEnds, LimitFires,
                                LoopEnds, StopSession
              <3> QED BY <2>1, <3>1
        <2>6. CASE ProcessEnds
              <3>1. /\ embedded' = embedded
                    /\ phase' = [m \in Attempts |->
                                   IF phase[m] = "connecting" THEN "cut" ELSE phase[m]]
                    BY <2>6 DEF ProcessEnds
              <3> QED BY <3>1
        <2>7. CASE \/ StartWindowed \/ WatchClients \/ TrayPresence \/ Servers \/ ClientEnds
                   \/ DeskMoves \/ PollPads \/ Done
              <3>1. embedded' = embedded /\ phase' = phase
                    BY <2>7 DEF StartWindowed, WatchClients, TrayPresence, Servers, ServerLeaves,
                                ClientEnds, DeskMoves, PollPads, Done, vars, sessionVars
              <3> QED BY <3>1
        <2> QED BY <2>2, <2>3, <2>4, <2>5, <2>6, <2>7 DEF Next
  <1> QED BY <1>1, Invariance, PTL DEF Spec, OverIsOver

--------------------------------------------------------------------------------
(***************************************************************************)
(* Devices and profiles, for any scans, serials and profiles: a save writes*)
(* the profile its user opened, a session goes to the device ticked alone, *)
(* and a scan takes no tick away from a device that is there.              *)
(***************************************************************************)

(* What a scan, the bus, the rows and the ticks are made of; and whose     *)
(* serial the form has.                                                    *)
Lists ==
  /\ bus \in Seq(Serials)
  /\ \A t \in Scans : scan[t].found \in Seq(Serials)
  /\ \A t \in Scans : scan[t].is = "idle" => scan[t] = NoScan
  /\ scan = [t \in Scans |-> scan[t]]
  /\ rows \subseteq Serials
  /\ selected \in Seq(Serials)

FormFollows == typed \in BOOLEAN /\ (~typed => serial = First(selected))

DevicesInv == Lists /\ FormFollows /\ SaveWritesItsOwn

LEMMA ElementsAre ==
  ASSUME NEW s \in Seq(Serials)
  PROVE  /\ ToSet(s) = Elements(s)
         /\ ToSet(s) \subseteq Serials
         /\ s # << >> => First(s) \in Serials /\ First(s) = s[1]
         /\ Len(s) = 1 => ToSet(s) = {s[1]}
         /\ s = << >> => ToSet(s) = {}
         /\ Len(s) \in Nat /\ (s = << >> <=> Len(s) = 0)
  <1>1. /\ Len(s) \in Nat /\ s \in [1 .. Len(s) -> Serials] /\ DOMAIN s = 1 .. Len(s)
        /\ (s = << >> <=> Len(s) = 0)
        BY LenProperties, EmptySeq
  <1>2. ToSet(s) = Elements(s) BY <1>1 DEF ToSet, Elements
  <1>3. ToSet(s) \subseteq Serials BY <1>1 DEF ToSet
  <1>4. s # << >> => First(s) \in Serials /\ First(s) = s[1] BY HeadTailProperties DEF First
  <1>5. Len(s) = 1 => 1 .. Len(s) = {1} BY SMT
  <1>6. Len(s) = 0 => 1 .. Len(s) = {} BY SMT
  <1> QED BY <1>1, <1>2, <1>3, <1>4, <1>5, <1>6 DEF ToSet

LEMMA OneTick ==
  ASSUME NEW d \in Serials
  PROVE  << d >> \in Seq(Serials) /\ << d >> # << >> /\ First(<< d >>) = d /\ ToSet(<< d >>) = {d}
  <1>1. << d >> \in Seq(Serials) /\ Len(<< d >>) = 1 /\ << d >>[1] = d /\ << d >> # << >> OBVIOUS
  <1> QED BY <1>1, ElementsAre

LEMMA DevicesBegin == DevicesInit => DevicesInv
  <1> SUFFICES ASSUME DevicesInit PROVE DevicesInv OBVIOUS
  <1>1. << >> \in Seq(Serials) BY EmptySeq
  <1>2. Lists BY <1>1 DEF DevicesInit, Lists, NoScan
  <1>3. FormFollows BY DEF DevicesInit, FormFollows, First
  <1>4. SaveWritesItsOwn BY DEF DevicesInit, SaveWritesItsOwn, IsEditing
  <1> QED BY <1>2, <1>3, <1>4 DEF DevicesInv

(* What a scan's result does to the ticks, the form and the session.       *)
LEMMA AppliedFacts ==
  ASSUME Lists, NEW t \in Scans, scan[t].is = "back",
         scan' = [scan EXCEPT ![t] = NoScan],
         AutostartIfWanted(First(scan[t].found), Pruned(selected, scan[t]))
  PROVE  LET pruned == Pruned(selected, scan[t])
             ready == First(scan[t].found)
         IN  /\ pruned \in Seq(Serials)
             /\ typed' = FALSE /\ serial' = First(selected')
             /\ \/ selected' = pruned /\ UNCHANGED <<target, editing, filled>>
                \/ /\ ready \in Serials /\ selected' = << ready >> /\ target = {}
                   /\ target' = {ready} /\ editing' = 0
  <1> DEFINE pruned == Pruned(selected, scan[t])
             ready == First(scan[t].found)
  <1>1. selected \in Seq(Serials) /\ scan[t].found \in Seq(Serials) BY DEF Lists
  <1>2. pruned \in Seq(Serials) BY <1>1, FilteredType DEF Pruned
  <1>3. ready # None => ready \in Serials
        BY <1>1, ElementsAre DEF First
  <1> HIDE DEF pruned, ready
  <1>4. AutostartIfWanted(ready, pruned) BY DEF pruned, ready
  <1>5. CASE ApplySelection(pruned) /\ UNCHANGED <<target, editing, filled>>
        BY <1>2, <1>5 DEF ApplySelection, pruned, ready
  <1>6. CASE /\ ~NothingUsable(ready) /\ Fires(ready) /\ EndTheEdit
             /\ ApplySelection(<< ready >>) /\ Start(<< ready >>, ready)
        <2>1. ready \in Serials /\ target = {} BY <1>3, <1>6 DEF NothingUsable, Fires, Running
        <2>2. Len(<< ready >>) = 1 OBVIOUS
        <2>3. target' = {ready} BY <1>6, <2>1, <2>2 DEF Start, Target, Running
        <2> QED BY <1>2, <1>6, <2>1, <2>3 DEF ApplySelection, EndTheEdit, pruned, ready
  <1> QED BY <1>4, <1>5, <1>6 DEF AutostartIfWanted

LEMMA DevicesKeep == DevicesInv /\ [DevicesNext]_deviceVars => DevicesInv'
  <1> SUFFICES ASSUME DevicesInv, [DevicesNext]_deviceVars PROVE DevicesInv' OBVIOUS
  <1>1. Lists /\ FormFollows /\ SaveWritesItsOwn BY DEF DevicesInv
  <1>2. CASE SpawnScan
        <2>1. PICK t \in Scans :
                /\ scan' = [scan EXCEPT ![t] = Asked]
                /\ UNCHANGED <<bus, rows, selected, serial, typed, autostart, autostarted, profiles,
                               editing, filled, target>>
              BY <1>2 DEF SpawnScan
        <2>2. Asked.found \in Seq(Serials) /\ Asked.is # "idle" BY EmptySeq DEF Asked
        <2>3. Lists' BY <1>1, <2>1, <2>2 DEF Lists
        <2> QED BY <1>1, <2>1, <2>3 DEF DevicesInv, FormFollows, SaveWritesItsOwn, IsEditing
  <1>3. CASE ScanAnswers
        <2>1. PICK t \in Scans, listed \in BOOLEAN :
                /\ scan' = [scan EXCEPT ![t] = Back(listed, IF listed THEN bus ELSE << >>)]
                /\ UNCHANGED <<bus, rows, selected, serial, typed, autostart, autostarted, profiles,
                               editing, filled, target>>
              BY <1>3 DEF ScanAnswers
        <2> DEFINE back == Back(listed, IF listed THEN bus ELSE << >>)
        <2>2. back.found \in Seq(Serials) /\ back.is # "idle" BY <1>1, EmptySeq DEF Back, Lists
        <2> HIDE DEF back
        <2>3. scan' = [scan EXCEPT ![t] = back] BY <2>1 DEF back
        <2>4. Lists' BY <1>1, <2>1, <2>2, <2>3 DEF Lists
        <2> QED BY <1>1, <2>1, <2>4 DEF DevicesInv, FormFollows, SaveWritesItsOwn, IsEditing
  <1>4. CASE ScanIsApplied
        <2>1. PICK t \in Scans :
                /\ scan[t].is = "back" /\ scan' = [scan EXCEPT ![t] = NoScan]
                /\ rows' = ToSet(scan[t].found)
                /\ AutostartIfWanted(First(scan[t].found), Pruned(selected, scan[t]))
                /\ UNCHANGED <<bus, autostart, profiles>>
              BY <1>4 DEF ScanIsApplied
        <2> DEFINE pruned == Pruned(selected, scan[t])
                   ready == First(scan[t].found)
        <2>2. /\ pruned \in Seq(Serials)
              /\ typed' = FALSE /\ serial' = First(selected')
              /\ \/ selected' = pruned /\ UNCHANGED <<target, editing, filled>>
                 \/ ready \in Serials /\ selected' = << ready >> /\ editing' = 0
              BY <1>1, <2>1, AppliedFacts
        <2> HIDE DEF pruned, ready
        <2>3. rows' \subseteq Serials BY <1>1, <2>1, ElementsAre DEF Lists
        <2>4. selected' \in Seq(Serials) BY <2>2, OneTick
        <2>5. NoScan.found \in Seq(Serials) BY EmptySeq DEF NoScan
        <2>6. Lists' BY <1>1, <2>1, <2>3, <2>4, <2>5 DEF Lists
        <2>7. FormFollows' BY <2>2 DEF FormFollows
        <2>8. SaveWritesItsOwn' BY <1>1, <2>1, <2>2 DEF SaveWritesItsOwn, IsEditing
        <2> QED BY <2>6, <2>7, <2>8 DEF DevicesInv
  <1>5. CASE SelectDevice
        <2>1. PICK d \in rows :
                /\ ApplySelection(IF d \in ToSet(selected) THEN Filtered(selected, Serials \ {d})
                                  ELSE Append(selected, d))
                /\ UNCHANGED <<bus, scan, rows, autostart, autostarted, profiles, editing, filled,
                               target>>
              BY <1>5 DEF SelectDevice
        <2>2. selected \in Seq(Serials) /\ d \in Serials BY <1>1 DEF Lists
        <2>3. Filtered(selected, Serials \ {d}) \in Seq(Serials) /\ Append(selected, d) \in Seq(Serials)
              BY <2>2, FilteredType, AppendProperties
        <2>4. selected' \in Seq(Serials) /\ serial' = First(selected') /\ typed' = FALSE
              BY <2>1, <2>3 DEF ApplySelection
        <2> QED BY <1>1, <2>1, <2>4 DEF DevicesInv, Lists, FormFollows, SaveWritesItsOwn, IsEditing
  <1>6. CASE MirrorDevice
        <2>1. PICK d \in rows :
                /\ ApplySelection(<< d >>)
                /\ UNCHANGED <<bus, scan, rows, autostart, autostarted, profiles, editing, filled>>
              BY <1>6 DEF MirrorDevice
        <2>2. selected' \in Seq(Serials) /\ serial' = First(selected') /\ typed' = FALSE
              BY <1>1, <2>1, OneTick DEF ApplySelection, Lists
        <2> QED BY <1>1, <2>1, <2>2 DEF DevicesInv, Lists, FormFollows, SaveWritesItsOwn, IsEditing
  <1>7. CASE TypeSerial
        BY <1>1, <1>7 DEF TypeSerial, DevicesInv, Lists, FormFollows, SaveWritesItsOwn, IsEditing
  <1>8. CASE StartButton
        BY <1>1, <1>8 DEF StartButton, DevicesInv, Lists, FormFollows, SaveWritesItsOwn, IsEditing
  <1>9. CASE ResetDefaults
        BY <1>1, <1>9 DEF ResetDefaults, RestoreTheTickedSerial, EndTheEdit,
                          DevicesInv, Lists, FormFollows, SaveWritesItsOwn, IsEditing
  <1>10. CASE SaveProfile
        <2>1. /\ (UNCHANGED <<profiles, editing>>) \/ editing' = 0
              /\ UNCHANGED <<bus, scan, rows, selected, serial, typed, filled>>
              BY <1>10 DEF SaveProfile
        <2> QED BY <1>1, <2>1 DEF DevicesInv, Lists, FormFollows, SaveWritesItsOwn, IsEditing
  <1>11. CASE ApplyProfile
        BY <1>1, <1>11 DEF ApplyProfile, RestoreTheTickedSerial, EndTheEdit,
                           DevicesInv, Lists, FormFollows, SaveWritesItsOwn, IsEditing
  <1>12. CASE EditProfile
        BY <1>1, <1>12 DEF EditProfile, RestoreTheTickedSerial,
                           DevicesInv, Lists, FormFollows, SaveWritesItsOwn, IsEditing
  <1>13. CASE DeleteProfile
        BY <1>1, <1>13 DEF DeleteProfile, EndTheEdit,
                           DevicesInv, Lists, FormFollows, SaveWritesItsOwn, IsEditing
  <1>14. CASE BusChanges
        <2>1. /\ \/ \E d \in Serials \ ToSet(bus) : bus' = Append(bus, d)
                 \/ \E d \in ToSet(bus) : bus' = Filtered(bus, Serials \ {d})
              /\ UNCHANGED <<scan, rows, selected, serial, typed, autostart, autostarted, profiles,
                             editing, filled, target>>
              BY <1>14 DEF BusChanges
        <2>2. bus \in Seq(Serials) BY <1>1 DEF Lists
        <2>3. bus' \in Seq(Serials)
              <3>1. ASSUME NEW d \in Serials \ ToSet(bus), bus' = Append(bus, d)
                    PROVE  bus' \in Seq(Serials)
                    BY <2>2, <3>1, AppendProperties
              <3>2. ASSUME NEW d \in ToSet(bus), bus' = Filtered(bus, Serials \ {d})
                    PROVE  bus' \in Seq(Serials)
                    BY <2>2, <3>2, FilteredType
              <3> QED BY <2>1, <3>1, <3>2
        <2> QED BY <1>1, <2>1, <2>3 DEF DevicesInv, Lists, FormFollows, SaveWritesItsOwn, IsEditing
  <1>15. CASE SessionEnds
        BY <1>1, <1>15 DEF SessionEnds, DevicesInv, Lists, FormFollows, SaveWritesItsOwn, IsEditing
  <1>16. CASE UNCHANGED deviceVars
        BY <1>1, <1>16 DEF deviceVars, DevicesInv, Lists, FormFollows, SaveWritesItsOwn, IsEditing
  <1> QED BY <1>2, <1>3, <1>4, <1>5, <1>6, <1>7, <1>8, <1>9, <1>10, <1>11, <1>12, <1>13, <1>14,
             <1>15, <1>16 DEF DevicesNext, Window, Cards

LEMMA DevicesInvariance == DevicesSpec => []DevicesInv
  BY DevicesBegin, DevicesKeep, PTL DEF DevicesSpec

(* A save writes back to the profile the form was filled from.             *)
THEOREM SavesWriteTheirOwn == DevicesSpec => []SaveWritesItsOwn
  <1>1. DevicesInv => SaveWritesItsOwn BY DEF DevicesInv
  <1> QED BY <1>1, DevicesInvariance, PTL

(* A session goes to the ticked devices, or to the one typed since.        *)
THEOREM SessionsGoToTheTick == DevicesSpec => SessionGoesToTheTick
  <1>1. DevicesInv /\ [DevicesNext]_deviceVars =>
          [(target = {} /\ target' # {}) =>
             \/ typed
             \/ target' = (IF selected' = << >> THEN {None} ELSE ToSet(selected'))]_deviceVars
        <2> SUFFICES ASSUME Lists, FormFollows, DevicesNext, target = {}, target' # {}, ~typed
                     PROVE  target' = (IF selected' = << >> THEN {None} ELSE ToSet(selected'))
            BY DEF DevicesInv
        <2>1. CASE ScanIsApplied
              <3>1. PICK t \in Scans :
                      /\ scan[t].is = "back" /\ scan' = [scan EXCEPT ![t] = NoScan]
                      /\ AutostartIfWanted(First(scan[t].found), Pruned(selected, scan[t]))
                    BY <2>1 DEF ScanIsApplied
              <3> DEFINE ready == First(scan[t].found)
              <3>2. ready \in Serials /\ selected' = << ready >> /\ target' = {ready}
                    BY <3>1, AppliedFacts
              <3> HIDE DEF ready
              <3> QED BY <3>2, OneTick
        <2>2. CASE MirrorDevice
              <3>1. PICK d \in rows : selected' = << d >> /\ Start(<< d >>, d)
                    BY <2>2 DEF MirrorDevice, ApplySelection
              <3>2. d \in Serials /\ Len(<< d >>) = 1 BY DEF Lists
              <3>3. target' = {d} BY <3>1, <3>2 DEF Start, Running, Target
              <3> QED BY <3>1, <3>2, <3>3, OneTick
        <2>3. CASE StartButton
              <3>1. selected' = selected /\ target' = Target(selected, serial)
                    BY <2>3 DEF StartButton, Start, Running
              <3>2. selected \in Seq(Serials) /\ serial = First(selected)
                    BY DEF Lists, FormFollows
              <3>3. Len(selected) > 1 \/ Len(selected) = 1 \/ selected = << >>
                    <4>1. Len(selected) \in Nat /\ (selected = << >> <=> Len(selected) = 0)
                          BY <3>2, ElementsAre
                    <4>2. \A n \in Nat : n > 1 \/ n = 1 \/ n = 0 BY SMT
                    <4> QED BY <4>1, <4>2
              <3>4. ~(Len(<< >>) > 1) /\ ~(1 > 1) BY EmptySeq, SMT
              <3>5. CASE Len(selected) > 1
                    <4>1. selected # << >> BY <3>4, <3>5
                    <4> QED BY <3>1, <3>5, <4>1 DEF Target
              <3>6. CASE Len(selected) = 1
                    <4>1. /\ ToSet(selected) = {selected[1]} /\ selected # << >>
                          /\ First(selected) = selected[1]
                          BY <3>2, <3>6, ElementsAre
                    <4> QED BY <3>1, <3>2, <3>4, <3>6, <4>1 DEF Target
              <3>7. CASE selected = << >> BY <3>1, <3>2, <3>4, <3>7 DEF Target, First
              <3> QED BY <3>3, <3>5, <3>6, <3>7
        <2>4. CASE UNCHANGED target BY <2>4
        <2>5. CASE SessionEnds BY <2>5 DEF SessionEnds
        <2> QED BY <2>1, <2>2, <2>3, <2>4, <2>5
                DEF DevicesNext, Window, Cards, SpawnScan, ScanAnswers, SelectDevice, TypeSerial,
                    ResetDefaults, SaveProfile, ApplyProfile, EditProfile, DeleteProfile, BusChanges
  <1> QED BY <1>1, DevicesInvariance, PTL DEF DevicesSpec, SessionGoesToTheTick

(* A scan takes only the ticks of devices its list does not have.          *)
THEOREM TicksStay == DevicesSpec => TicksAreKept
  <1>1. DevicesInv /\ [DevicesNext]_deviceVars =>
          [\A t \in Scans : (scan[t].is = "back" /\ scan'[t] = NoScan /\ target' = target) =>
             \A d \in ToSet(selected) \ ToSet(selected') :
               scan[t].listed /\ d \notin ToSet(scan[t].found)]_deviceVars
        <2> SUFFICES ASSUME Lists, DevicesNext, NEW t \in Scans, scan[t].is = "back",
                            scan'[t] = NoScan, target' = target,
                            NEW d \in ToSet(selected) \ ToSet(selected')
                     PROVE  scan[t].listed /\ d \notin ToSet(scan[t].found)
            BY DEF DevicesInv
        <2>1. scan'[t] # scan[t] BY DEF NoScan
        <2>2. CASE SpawnScan
              <3>1. PICK u \in Scans : scan[u] = NoScan /\ scan' = [scan EXCEPT ![u] = Asked]
                    BY <2>2 DEF SpawnScan
              <3> QED BY <2>1, <3>1 DEF Lists, NoScan
        <2>3. CASE ScanAnswers
              <3>1. PICK u \in Scans, b \in BOOLEAN :
                      /\ scan[u] = Asked
                      /\ scan' = [scan EXCEPT ![u] = Back(b, IF b THEN bus ELSE << >>)]
                    BY <2>3 DEF ScanAnswers
              <3> QED BY <2>1, <3>1 DEF Lists, Asked
        <2>4. CASE ScanIsApplied
              <3>1. PICK u \in Scans :
                      /\ scan[u].is = "back" /\ scan' = [scan EXCEPT ![u] = NoScan]
                      /\ AutostartIfWanted(First(scan[u].found), Pruned(selected, scan[u]))
                    BY <2>4 DEF ScanIsApplied
              <3>2. u = t BY <2>1, <3>1 DEF Lists
              <3>3. selected' = Pruned(selected, scan[t])
                    <4>1. \/ selected' = Pruned(selected, scan[t])
                          \/ target = {} /\ target' = {First(scan[t].found)}
                          BY <3>1, <3>2, AppliedFacts
                    <4> QED BY <4>1
              <3>4. selected \in Seq(Serials) BY DEF Lists
              <3>5. scan[t].listed BY <3>3 DEF Pruned
              <3>6. selected' = Filtered(selected, ToSet(scan[t].found)) BY <3>3, <3>5 DEF Pruned
              <3>7. Elements(selected') = Elements(selected) \cap ToSet(scan[t].found)
                    BY <3>4, <3>6, FilteredElements
              <3>8. selected' \in Seq(Serials) BY <3>4, <3>6, FilteredType
              <3>9. ToSet(selected) = Elements(selected) /\ ToSet(selected') = Elements(selected')
                    BY <3>4, <3>8, ElementsAre
              <3> QED BY <3>5, <3>7, <3>9
        <2> QED BY <2>1, <2>2, <2>3, <2>4
                DEF DevicesNext, Window, Cards, SelectDevice, MirrorDevice, TypeSerial, StartButton,
                    ResetDefaults, SaveProfile, ApplyProfile, EditProfile, DeleteProfile, BusChanges,
                    SessionEnds
  <1> QED BY <1>1, DevicesInvariance, PTL DEF DevicesSpec, TicksAreKept
================================================================================
