------------------------------ MODULE InputProofs ------------------------------
(***************************************************************************)
(* Proofs about what the user does on its way to the device: what the two  *)
(* handlers of keys and mouse tell it (Input), and that the control channel*)
(* takes what it is given (Controller).                                    *)
(***************************************************************************)
EXTENDS Input, Controller, SequenceTheorems, TLAPS

--------------------------------------------------------------------------------
(***************************************************************************)
(* The two handlers of a key and the mouse, for any keys and any options:  *)
(* what the device holds down is held, a press takes one road at most, and *)
(* only what went down comes up.                                           *)
(*                                                                         *)
(* The handlers keep records of their own, and the inductive invariant     *)
(* says how each stands to the device: the key codes down on it are those  *)
(* SlintInput sent (Sent), its reports hold what Uhid has (Reports), a     *)
(* button is down on it only while the pointer is captured (Buttons), and  *)
(* in a session begun with nothing held Uhid's modifiers are those held    *)
(* (Begun): it is what makes both handlers agree on the shortcut modifier. *)
(***************************************************************************)

(* The key codes that are down were sent, and their releases will be. *)
Sent ==
  /\ sentDown = devCodes
  /\ devCodes \subseteq down \cup missed
  /\ devCodes # {} => /\ Running /\ mode.control /\ ~Mine
                      /\ mode.inject # "text"

Reports ==
  /\ hidKeys \subseteq down
  /\ hidKeys # {} => keyboard
  /\ devMods # {} => keyboard
  /\ ~Running => ~keyboard /\ ~mouse

Fingers ==
  /\ devTouch # {} => button /\ Touches
  /\ "finger" \in devTouch => vfinger

Buttons == devButton => mouse /\ captured /\ buttons

Begun ==
  clean => /\ HasSomewhereToSend => modifiers = down \cap Modifiers /\ (buttons => button)
           /\ devMods \subseteq down
           /\ devButton => button

Cable == usb.plugged = usb.registered

Parts == Sent /\ Reports /\ Fingers /\ Buttons /\ Begun /\ Cable
Inv == TypeOK /\ Parts

LEMMA KeyFacts ==
  /\ "alt" \notin Letters /\ Letters \cap Modifiers = {}
  /\ Letters \subseteq Keys /\ Modifiers \subseteq Keys
  BY InputAssumption DEF Keys

LEMMA InitKeeps == Init => Inv
  <1> SUFFICES ASSUME Init PROVE Inv OBVIOUS
  <1>1. TypeOK BY DEF Init, TypeOK, Nothing, Devices
  <1>2. ~Running BY DEF Init, Running
  <1>3. Sent /\ Reports /\ Fingers /\ Buttons
        BY DEF Init, Sent, Reports, Fingers, Buttons
  <1>4. Begun /\ Cable BY DEF Init, Begun, Cable, Nothing, HasSomewhereToSend
  <1> QED BY <1>1, <1>3, <1>4 DEF Inv, Parts

-------------------------------------------------------------------------------
(* Sessions *)

(* A session's end leaves nothing on the device. *)
LEMMA EndKeeps ==
  ASSUME Inv, EndSession, down' \subseteq Keys, {button', focus', captureApplied'} \subseteq BOOLEAN,
         UNCHANGED <<modifiers, deviceModifiers, buttons>>, captureKey' \in CaptureKeys \cup {NoKey}
  PROVE  Inv'
  <1>1. /\ mode' = NoSession /\ keyboard' = FALSE /\ mouse' = FALSE /\ captured' = FALSE
        /\ usb' = [registered |-> {}, plugged |-> usb.plugged \ usb.registered]
        /\ held' = {} /\ sentDown' = {} /\ vfinger' = FALSE
        /\ hidKeys' = {} /\ devCodes' = {} /\ devTouch' = {}
        /\ devMods' = {} /\ devButton' = FALSE
        /\ missed' = {} /\ clean' = TRUE
        BY DEF EndSession, Detach
  <1>2. usb' = [registered |-> {}, plugged |-> {}] BY <1>1 DEF Inv, Parts, Cable
  <1>3. TypeOK'
        <2>1. usb' \in [registered : SUBSET Devices, plugged : SUBSET Devices] BY <1>2
        <2>2. {button, focus, vfinger, keyboard, mouse, buttons, captured,
               captureApplied, devButton, clean}' \subseteq BOOLEAN
              BY <1>1 DEF Inv, TypeOK
        <2> QED BY <1>1, <2>1, <2>2 DEF Inv, TypeOK
  <1>4. Sent' /\ Reports' /\ Fingers' /\ Buttons'
        BY <1>1 DEF Sent, Reports, Fingers, Buttons
  <1>5. Begun' BY <1>1 DEF Begun, HasSomewhereToSend
  <1>6. Cable' BY <1>2 DEF Cable
  <1> QED BY <1>3, <1>4, <1>5, <1>6 DEF Inv, Parts

LEMMA StopKeeps ==
  ASSUME Inv, Stop
  PROVE  Inv'
  <1>1. /\ EndSession /\ UNCHANGED <<down, button, focus, captureApplied>>
        /\ UNCHANGED <<modifiers, deviceModifiers, buttons, captureKey>>
        BY DEF Stop, record
  <1>2. down' \subseteq Keys /\ captureKey' \in CaptureKeys \cup {NoKey}
        BY <1>1 DEF Inv, TypeOK
  <1>3. {button', focus', captureApplied'} \subseteq BOOLEAN BY <1>1 DEF Inv, TypeOK
  <1> QED BY <1>1, <1>2, <1>3, EndKeeps

(* What is attached was taken, or queued. *)
LEMMA AttachFacts ==
  ASSUME NEW m, Attach(m)
  PROVE  /\ usb'.plugged = usb'.registered
         /\ usb' \in [registered : SUBSET Devices, plugged : SUBSET Devices]
         /\ keyboard' \in BOOLEAN /\ mouse' \in BOOLEAN
         /\ captured' = (captured \/ mouse')
         /\ keyboard' => m.keyboard \in {"uhid", "aoa"}
         /\ mouse' => m.mouse \in {"uhid", "aoa"}
  <1>1. PICK cable \in BOOLEAN :
          LET byUsb == IF cable THEN Wanted(m, "aoa") ELSE {}
              bySocket == Wanted(m, "uhid") \cup (Wanted(m, "aoa") \ byUsb)
          IN \E taken \in SUBSET byUsb, queued \in SUBSET IF m.control THEN bySocket ELSE {} :
             \E described \in SUBSET taken :
               /\ usb' = Registered(taken)
               /\ keyboard' = ("keyboard" \in described \cup queued)
               /\ mouse' = ("mouse" \in described \cup queued)
               /\ captured' = (captured \/ mouse')
        BY DEF Attach
  <1> DEFINE byUsb == IF cable THEN Wanted(m, "aoa") ELSE {}
             bySocket == Wanted(m, "uhid") \cup (Wanted(m, "aoa") \ byUsb)
  <1>2. PICK taken \in SUBSET byUsb :
          \E queued \in SUBSET IF m.control THEN bySocket ELSE {} :
            \E described \in SUBSET taken :
               /\ usb' = Registered(taken)
               /\ keyboard' = ("keyboard" \in described \cup queued)
               /\ mouse' = ("mouse" \in described \cup queued)
               /\ captured' = (captured \/ mouse')
        BY <1>1
  <1>3. PICK queued \in SUBSET IF m.control THEN bySocket ELSE {} :
            \E described \in SUBSET taken :
               /\ usb' = Registered(taken)
               /\ keyboard' = ("keyboard" \in described \cup queued)
               /\ mouse' = ("mouse" \in described \cup queued)
               /\ captured' = (captured \/ mouse')
        BY <1>2
  <1>4. PICK described \in SUBSET taken :
               /\ usb' = Registered(taken)
               /\ keyboard' = ("keyboard" \in described \cup queued)
               /\ mouse' = ("mouse" \in described \cup queued)
               /\ captured' = (captured \/ mouse')
        BY <1>3
  <1>5. taken \subseteq Wanted(m, "aoa") /\ queued \subseteq Wanted(m, "uhid") \cup Wanted(m, "aoa")
        OBVIOUS
  <1>6. \A d \in taken \cup queued : d \in Devices /\ m[d] \in {"uhid", "aoa"}
        BY <1>5 DEF Wanted
  <1>7. usb' = [registered |-> taken, plugged |-> taken] BY <1>4 DEF Registered
  <1>8. "keyboard" \in described \cup queued => m.keyboard \in {"uhid", "aoa"} BY <1>6
  <1>9. "mouse" \in described \cup queued => m.mouse \in {"uhid", "aoa"} BY <1>6
  <1>10. keyboard' \in BOOLEAN /\ mouse' \in BOOLEAN BY <1>4
  <1>11. usb'.plugged = usb'.registered BY <1>7
  <1>12. taken \in SUBSET Devices BY <1>6
  <1>13. usb' \in [registered : SUBSET Devices, plugged : SUBSET Devices] BY <1>7, <1>12
  <1> QED BY <1>4, <1>8, <1>9, <1>10, <1>11, <1>13

(* With no session nothing is held by the device. *)
LEMMA IdleFacts ==
  ASSUME Inv, ~Running
  PROVE  /\ sentDown = {} /\ devCodes = {} /\ hidKeys = {} /\ devMods = {} /\ devTouch = {}
         /\ ~devButton /\ ~keyboard /\ ~mouse
  <1>1. ~keyboard /\ ~mouse BY DEF Inv, Parts, Reports
  <1>2. hidKeys = {} /\ devMods = {} BY <1>1 DEF Inv, Parts, Reports
  <1>3. devCodes = {} /\ sentDown = {} BY DEF Inv, Parts, Sent
  <1>4. devTouch = {} BY DEF Inv, Parts, Fingers, Touches
  <1>5. ~devButton BY <1>1 DEF Inv, Parts, Buttons
  <1> QED BY <1>1, <1>2, <1>3, <1>4, <1>5

LEMMA StartKeeps ==
  ASSUME Inv, NEW m \in Modes, Start(m) \/ StartOtg(m)
  PROVE  Inv'
  <1>1. /\ ~Running
        /\ clean' = (down = {} /\ ~button /\ modifiers = {} /\ ~buttons)
        /\ UNCHANGED <<down, button, focus, missed, held, sentDown, vfinger, hidKeys, modifiers,
                       deviceModifiers, buttons, captureKey, captureApplied, devCodes, devTouch,
                       devMods, devButton>>
        /\ mode' = m \/ mode' = AsOtg(m) \/ mode' = NoSession
        BY DEF Start, StartOtg, world, slint, record, device
  <1>2. /\ usb'.plugged = usb'.registered
        /\ usb' \in [registered : SUBSET Devices, plugged : SUBSET Devices]
        /\ keyboard' \in BOOLEAN /\ mouse' \in BOOLEAN /\ captured' \in BOOLEAN
        <2>1. CASE Attach(m) BY <2>1, AttachFacts DEF Inv, TypeOK
        <2>2. CASE Attach(AsOtg(m)) BY <2>2, AttachFacts DEF Inv, TypeOK
        <2>3. CASE UNCHANGED <<keyboard, mouse, usb, captured>>
              BY <2>3 DEF Inv, TypeOK, Parts, Cable
        <2> QED BY <2>1, <2>2, <2>3 DEF Start, StartOtg
  <1>3. clean' \in BOOLEAN BY <1>1
  <1>4. TypeOK'
        <2>1. {button, focus, vfinger, keyboard, mouse, buttons, captured,
               captureApplied, devButton, clean}' \subseteq BOOLEAN
              BY <1>1, <1>2, <1>3 DEF Inv, TypeOK
        <2> QED BY <1>1, <1>2, <2>1 DEF Inv, TypeOK
  <1>5. keyboard' \/ mouse' => Running'
        <2>1. NoSession \notin Modes BY InputAssumption
        <2>2. CASE Start(m) BY <2>1, <2>2 DEF Start, Running
        <2>3. CASE StartOtg(m)
              BY <2>3, InputAssumption DEF StartOtg, Running
        <2> QED BY <2>2, <2>3
  <1>6. /\ sentDown = {} /\ devCodes = {} /\ hidKeys = {} /\ devMods = {} /\ devTouch = {}
        /\ ~devButton
        BY <1>1, IdleFacts
  <1>7. Sent' /\ Reports' /\ Fingers' /\ Buttons'
        BY <1>1, <1>2, <1>5, <1>6 DEF Sent, Reports, Fingers, Buttons
  <1>8. Begun' BY <1>1, <1>6 DEF Begun
  <1>9. Cable' BY <1>2 DEF Cable
  <1> QED BY <1>4, <1>7, <1>8, <1>9 DEF Inv, Parts

-------------------------------------------------------------------------------
(* The raw events *)

LEMMA SlintOf ==
  ASSUME TypeOK
  PROVE  /\ modifiers \subseteq Modifiers /\ deviceModifiers \subseteq modifiers
         /\ devMods \subseteq Modifiers /\ hidKeys \subseteq Letters
         /\ captureKey \in CaptureKeys \cup {NoKey}
         /\ keyboard \in BOOLEAN /\ mouse \in BOOLEAN /\ captured \in BOOLEAN
         /\ buttons \in BOOLEAN /\ devButton \in BOOLEAN /\ button \in BOOLEAN
         /\ down \subseteq Keys /\ missed \subseteq Letters
         /\ sentDown \subseteq Letters /\ devCodes \subseteq Letters
  BY DEF TypeOK

(* What Uhid's record and the reports are after a key. *)
LEMMA HidKeyFacts ==
  ASSUME Inv, NEW k \in Keys, NEW pressed \in BOOLEAN, HidKey(k, pressed)
  PROVE  /\ modifiers' \subseteq Modifiers /\ deviceModifiers' \subseteq modifiers'
         /\ devMods' \subseteq Modifiers /\ hidKeys' \subseteq Letters
         /\ captureKey' \in CaptureKeys \cup {NoKey}
         /\ captured' \in BOOLEAN /\ buttons' \in BOOLEAN /\ devButton' \in BOOLEAN
         /\ captureApplied' = captured'
         /\ devButton' => devButton /\ mouse /\ captured' /\ buttons'
         /\ buttons' => buttons
         /\ HasSomewhereToSend => modifiers' = ModifiersAfter(k, pressed)
         /\ hidKeys' \subseteq hidKeys \cup {k} /\ (~pressed => hidKeys' \subseteq hidKeys \ {k})
         /\ hidKeys' # {} => keyboard
         /\ devMods' # {} => keyboard
         /\ devMods' = devMods \/ (keyboard /\ devMods' \subseteq modifiers')
         /\ ~pressed => devMods' = {} \/ (keyboard /\ devMods' \subseteq modifiers')
  <1> USE SlintOf DEF Inv
  <1>1. /\ hidKeys # {} => keyboard
        /\ devMods # {} => keyboard
        /\ devButton => mouse /\ captured /\ buttons
        BY DEF Parts, Reports, Buttons
  <1>2. CASE ~HasSomewhereToSend
        <2>1. UNCHANGED <<captured, modifiers, deviceModifiers, buttons, captureKey, devButton,
                          hidKeys, devMods>> /\ captureApplied' = captured'
              BY <1>2 DEF HidKey, record
        <2>2. ~keyboard /\ ~mouse BY <1>2 DEF HasSomewhereToSend
        <2> QED BY <1>1, <1>2, <2>1, <2>2
  <1>3. CASE HasSomewhereToSend
        <2>1. TrackCapture(k, pressed) /\ OnKey(k, pressed) /\ ReportFor(k, pressed)
              /\ captureApplied' = captured'
              BY <1>3 DEF HidKey
        <2>2. /\ captureKey' = IF ~mouse THEN captureKey
                               ELSE IF pressed /\ k \in CaptureKeys THEN k ELSE NoKey
              /\ captured' = (captured # CaptureToggled(k, pressed))
              /\ IF CaptureToggled(k, pressed) /\ captured
                 THEN ReleaseButtons
                 ELSE UNCHANGED <<buttons, devButton>>
              BY <2>1 DEF TrackCapture
        <2>3. captureKey' \in CaptureKeys \cup {NoKey} BY <2>2
        <2>4. CaptureToggled(k, pressed) \in BOOLEAN BY DEF CaptureToggled
        <2>5. captured' \in BOOLEAN BY <2>2
        <2>6. /\ buttons' \in BOOLEAN /\ devButton' \in BOOLEAN
              /\ buttons' => buttons
              /\ devButton' => devButton /\ mouse /\ captured' /\ buttons'
              <3>1. CASE CaptureToggled(k, pressed) /\ captured
                    <4>1. buttons' = FALSE /\ devButton' = (devButton /\ ~(buttons /\ mouse))
                          BY <2>2, <3>1 DEF ReleaseButtons
                    <4>2. devButton' = FALSE BY <1>1, <4>1
                    <4> QED BY <4>1, <4>2
              <3>2. CASE ~(CaptureToggled(k, pressed) /\ captured)
                    <4>1. UNCHANGED <<buttons, devButton>> BY <2>2, <3>2
                    <4>2. captured => captured' BY <2>2, <2>4, <3>2
                    <4> QED BY <1>1, <4>1, <4>2
              <3> QED BY <3>1, <3>2
        <2>7. /\ modifiers' = ModifiersAfter(k, pressed)
              /\ deviceModifiers' =
                   IF OnKeySends(k, pressed) /\ pressed
                   THEN deviceModifiers \cup ({k} \cap Modifiers)
                   ELSE IF pressed THEN deviceModifiers ELSE deviceModifiers \ {k}
              BY <2>1 DEF OnKey
        <2>8. modifiers' \subseteq Modifiers /\ deviceModifiers' \subseteq modifiers'
              BY <2>7 DEF ModifiersAfter
        <2>9. /\ hidKeys' = IF ~OnKeySends(k, pressed) THEN hidKeys
                            ELSE IF pressed THEN hidKeys \cup ({k} \cap Letters)
                            ELSE hidKeys \ {k}
              /\ devMods' = IF OnKeySends(k, pressed) THEN deviceModifiers' ELSE devMods
              BY <2>1 DEF ReportFor
        <2>10. /\ OnKeySends(k, pressed) => keyboard
               /\ ~pressed => (OnKeySends(k, pressed) <=> keyboard)
               BY DEF OnKeySends
        <2>11. /\ hidKeys' \subseteq Letters
               /\ hidKeys' \subseteq hidKeys \cup {k} /\ (~pressed => hidKeys' \subseteq hidKeys \ {k})
               /\ hidKeys' # {} => keyboard
               BY <1>1, <2>9, <2>10
        <2>12. /\ devMods' \subseteq Modifiers
               /\ devMods' # {} => keyboard
               /\ devMods' = devMods \/ (keyboard /\ devMods' \subseteq modifiers')
               /\ ~pressed => devMods' = {} \/ (keyboard /\ devMods' \subseteq modifiers')
               BY <1>1, <2>8, <2>9, <2>10
        <2> QED BY <2>1, <2>3, <2>5, <2>6, <2>7, <2>8, <2>11, <2>12
  <1> QED BY <1>2, <1>3

(* The parts that the session's mode and devices decide are the next step's, *)
(* if neither changes.                                                       *)
LEMMA SessionKeeps ==
  ASSUME UNCHANGED <<mode, keyboard, mouse>>
  PROVE  /\ Running' = Running /\ Touches' = Touches /\ Mine' = Mine
         /\ HasSomewhereToSend' = HasSomewhereToSend /\ Pointing' = (mouse /\ captured')
  BY DEF Running, Touches, Mine, HasSomewhereToSend, Pointing

LEMMA CharFacts ==
  ASSUME NEW k \in Letters
  PROVE  Char(k) \in Letters \X BOOLEAN
  <1>1. ("shift" \in down) \in BOOLEAN OBVIOUS
  <1>2. \A b \in BOOLEAN : <<k, b>> \in Letters \X BOOLEAN OBVIOUS
  <1> QED BY <1>1, <1>2, Zenon DEF Char

(* A key code is sent for a letter that is the device's, in a mode that has  *)
(* them; no shortcut is one.                                                 *)
LEMMA PressFacts ==
  ASSUME NEW k \in Keys, "down" \in KeyDownSends(k)
  PROVE  k \in Letters /\ Running /\ mode.control /\ ~Mine /\ mode.inject # "text"
  <1>1. /\ Running /\ mode.control
        /\ \/ Types(k) /\ KeycodeFor(k)
           \/ RunsShortcut(k) /\ "down" = ShortcutFor[k]
        BY DEF KeyDownSends
  <1>2. CASE Types(k) /\ KeycodeFor(k) BY <1>1, <1>2 DEF Types, KeycodeFor
  <1>3. CASE RunsShortcut(k) /\ "down" = ShortcutFor[k]
        <2>1. k \in {"v", "h", "q", "t"} BY <1>3, InputAssumption DEF RunsShortcut
        <2>2. ShortcutFor[k] \in {"torch", "quit", "command"} BY <2>1 DEF ShortcutFor
        <2> QED BY <1>3, <2>2
  <1> QED BY <1>1, <1>2, <1>3

LEMMA KeyDownKeeps ==
  ASSUME Inv, NEW k \in Keys, KeyDown(k)
  PROVE  Inv'
  <1> USE SlintOf DEF Inv
  <1>1. k \notin down /\ down' = down \cup {k} /\ UNCHANGED <<button, focus>>
        BY DEF KeyDown
  <1>2. CASE Quits(k)
        <2>1. QuitByKey(k)
              BY <1>2 DEF KeyDown
        <2>2. /\ captureKey' = IF mouse THEN NoKey ELSE captureKey
              /\ captureApplied' = captured /\ EndSession
              /\ UNCHANGED <<modifiers, deviceModifiers, buttons>>
              BY <2>1 DEF QuitByKey
        <2>3. {button', focus', captureApplied'} \subseteq BOOLEAN
              BY <1>1, <2>2 DEF TypeOK
        <2>4. down' \subseteq Keys /\ captureKey' \in CaptureKeys \cup {NoKey} BY <1>1, <2>2
        <2> QED BY <2>2, <2>3, <2>4, EndKeeps
  <1>3. CASE ~Quits(k)
        <2>1. /\ HidKey(k, TRUE) /\ SlintKeyDown(k) /\ missed' = missed \ {k}
              /\ UNCHANGED <<mode, keyboard, mouse, usb, vfinger, devTouch, clean>>
              BY <1>3 DEF KeyDown
        <2>2. /\ held' = IF Translating /\ k \in Letters THEN held \cup {Char(k)} ELSE held
              /\ sentDown' = IF "down" \in KeyDownSends(k) THEN sentDown \cup {k} ELSE sentDown
              /\ devCodes' = IF "down" \in KeyDownSends(k) THEN devCodes \cup {k} ELSE devCodes
              BY <2>1 DEF SlintKeyDown
        <2>3. "down" \in KeyDownSends(k) =>
                k \in Letters /\ Running /\ mode.control /\ ~Mine /\ mode.inject # "text"
              BY PressFacts
        <2>4. held' \subseteq Letters \X BOOLEAN BY <2>2, CharFacts DEF TypeOK
        <2>5. /\ modifiers' \subseteq Modifiers /\ deviceModifiers' \subseteq modifiers'
              /\ devMods' \subseteq Modifiers /\ hidKeys' \subseteq Letters
              /\ captureKey' \in CaptureKeys \cup {NoKey}
              /\ captured' \in BOOLEAN /\ buttons' \in BOOLEAN /\ devButton' \in BOOLEAN
              /\ captureApplied' = captured'
              /\ devButton' => devButton /\ mouse /\ captured' /\ buttons'
              /\ buttons' => buttons
              /\ HasSomewhereToSend => modifiers' = ModifiersAfter(k, TRUE)
              /\ hidKeys' \subseteq hidKeys \cup {k}
              /\ hidKeys' # {} => keyboard
              /\ devMods' # {} => keyboard
              /\ devMods' = devMods \/ (keyboard /\ devMods' \subseteq modifiers')
              BY <2>1, HidKeyFacts
        <2>6. {button, focus, vfinger, keyboard, mouse, buttons, captured,
               captureApplied, devButton, clean}' \subseteq BOOLEAN
              BY <1>1, <2>1, <2>5 DEF TypeOK
        <2>7. TypeOK' BY <1>1, <2>1, <2>2, <2>3, <2>4, <2>5, <2>6 DEF TypeOK
        <2>8. Sent' BY <1>1, <2>1, <2>2, <2>3, SessionKeeps DEF Parts, Sent
        <2>9. Reports' BY <1>1, <2>1, <2>5, SessionKeeps DEF Parts, Reports
        <2>10. Fingers' BY <1>1, <2>1, SessionKeeps DEF Parts, Fingers
        <2>11. Buttons' BY <2>1, <2>5 DEF Buttons
        <2>12. ASSUME clean, HasSomewhereToSend
               PROVE  modifiers' = down' \cap Modifiers /\ (buttons' => button')
               <3>1. modifiers = down \cap Modifiers /\ (buttons => button)
                     BY <2>12 DEF Parts, Begun
               <3>2. modifiers' = modifiers \cup ({k} \cap Modifiers)
                     BY <2>5, <2>12 DEF ModifiersAfter
               <3> QED BY <1>1, <2>5, <3>1, <3>2
        <2>13. ASSUME clean PROVE devMods' \subseteq down' /\ (devButton' => button')
               <3>1. devMods \subseteq down /\ (devButton => button) BY <2>13 DEF Parts, Begun
               <3>2. keyboard => HasSomewhereToSend BY DEF HasSomewhereToSend
               <3> QED BY <1>1, <2>5, <2>12, <2>13, <3>1, <3>2
        <2>14. Begun' BY <2>1, <2>12, <2>13, SessionKeeps DEF Begun
        <2>15. Cable' BY <2>1, SessionKeeps DEF Parts, Cable
        <2> QED BY <2>7, <2>8, <2>9, <2>10, <2>11, <2>14, <2>15 DEF Parts
  <1> QED BY <1>2, <1>3

LEMMA KeyRepeatKeeps ==
  ASSUME Inv, NEW k \in Keys, KeyRepeat(k)
  PROVE  Inv'
  <1> USE SlintOf DEF Inv
  <1>1. k \in down /\ k \in Letters /\ UNCHANGED <<down, button, focus>>
        BY DEF KeyRepeat
  <1>2. CASE Quits(k)
        <2>1. captureApplied' = captured /\ EndSession /\ UNCHANGED record
              BY <1>2 DEF KeyRepeat
        <2>2. UNCHANGED <<modifiers, deviceModifiers, buttons, captureKey>> BY <2>1 DEF record
        <2>3. {button', focus', captureApplied'} \subseteq BOOLEAN
              BY <1>1, <2>1 DEF TypeOK
        <2>4. down' \subseteq Keys /\ captureKey' \in CaptureKeys \cup {NoKey} BY <1>1, <2>2
        <2> QED BY <2>1, <2>2, <2>3, <2>4, EndKeeps
  <1>3. CASE ~Quits(k)
        <2>1. /\ captureApplied' = captured
              /\ SlintKeyDown(k)
              /\ UNCHANGED <<missed, mode, keyboard, mouse, usb, vfinger, hidKeys, modifiers,
                             deviceModifiers, buttons, captureKey, captured, devTouch, devMods,
                             devButton, clean>>
              BY <1>3 DEF KeyRepeat, record
        <2>2. /\ held' = IF Translating /\ k \in Letters THEN held \cup {Char(k)} ELSE held
              /\ sentDown' = IF "down" \in KeyDownSends(k) THEN sentDown \cup {k} ELSE sentDown
              /\ devCodes' = IF "down" \in KeyDownSends(k) THEN devCodes \cup {k} ELSE devCodes
              BY <2>1 DEF SlintKeyDown
        <2>3. "down" \in KeyDownSends(k) =>
                k \in Letters /\ Running /\ mode.control /\ ~Mine /\ mode.inject # "text"
              BY PressFacts
        <2>4. held' \subseteq Letters \X BOOLEAN BY <2>2, CharFacts DEF TypeOK
        <2>6. {button, focus, vfinger, keyboard, mouse, buttons, captured,
               captureApplied, devButton, clean}' \subseteq BOOLEAN
              BY <1>1, <2>1 DEF TypeOK
        <2>7. TypeOK' BY <1>1, <2>1, <2>2, <2>3, <2>4, <2>6 DEF TypeOK
        <2>8. Sent' BY <1>1, <2>1, <2>2, <2>3, SessionKeeps DEF Parts, Sent
        <2>9. Reports' BY <1>1, <2>1, SessionKeeps DEF Parts, Reports
        <2>10. Fingers' BY <1>1, <2>1, SessionKeeps DEF Parts, Fingers
        <2>11. Buttons' BY <2>1 DEF Parts, Buttons
        <2>14. Begun' BY <1>1, <2>1, SessionKeeps DEF Parts, Begun
        <2>15. Cable' BY <2>1, SessionKeeps DEF Parts, Cable
        <2> QED BY <2>7, <2>8, <2>9, <2>10, <2>11, <2>14, <2>15 DEF Parts
  <1> QED BY <1>2, <1>3

(* A key that went down as a key code comes up as one. *)
LEMMA ReleaseIsSent ==
  ASSUME Inv, NEW k \in devCodes
  PROVE  "up" \in KeyUpSends(k)
  BY DEF KeyUpSends, KeycodeFor, Inv, Parts, Sent

LEMMA KeyUpKeeps ==
  ASSUME Inv, NEW k \in Keys, KeyUp(k)
  PROVE  Inv'
  <1> USE SlintOf DEF Inv
  <1>1. /\ k \in down /\ down' = down \ {k} /\ HidKey(k, FALSE) /\ SlintKeyUp(k)
        /\ UNCHANGED <<button, focus, missed, mode, keyboard, mouse, usb, vfinger, devTouch, clean>>
        BY DEF KeyUp
  <1>2. /\ held' = held \ {Char(k)}
        /\ sentDown' = IF "up" \in KeyUpSends(k) THEN sentDown \ {k} ELSE sentDown
        /\ devCodes' = IF "up" \in KeyUpSends(k) THEN devCodes \ {k} ELSE devCodes
        BY <1>1 DEF SlintKeyUp
  <1>3. k \notin devCodes' BY <1>2, ReleaseIsSent
  <1>4. held' \subseteq Letters \X BOOLEAN BY <1>2 DEF TypeOK
  <1>5. /\ modifiers' \subseteq Modifiers /\ deviceModifiers' \subseteq modifiers'
        /\ devMods' \subseteq Modifiers /\ hidKeys' \subseteq Letters
        /\ captureKey' \in CaptureKeys \cup {NoKey}
        /\ captured' \in BOOLEAN /\ buttons' \in BOOLEAN /\ devButton' \in BOOLEAN
        /\ captureApplied' = captured'
        /\ devButton' => devButton /\ mouse /\ captured' /\ buttons'
        /\ buttons' => buttons
        /\ HasSomewhereToSend => modifiers' = ModifiersAfter(k, FALSE)
        /\ hidKeys' \subseteq hidKeys \ {k}
        /\ hidKeys' # {} => keyboard
        /\ devMods' # {} => keyboard
        /\ devMods' = {} \/ (keyboard /\ devMods' \subseteq modifiers')
        BY <1>1, HidKeyFacts
  <1>6. {button, focus, vfinger, keyboard, mouse, buttons, captured,
         captureApplied, devButton, clean}' \subseteq BOOLEAN
        BY <1>1, <1>5 DEF TypeOK
  <1>7. TypeOK' BY <1>1, <1>2, <1>4, <1>5, <1>6 DEF TypeOK
  <1>8. Sent' BY <1>1, <1>2, <1>3, SessionKeeps DEF Parts, Sent
  <1>9. Reports' BY <1>1, <1>5, SessionKeeps DEF Parts, Reports
  <1>10. Fingers' BY <1>1, SessionKeeps DEF Parts, Fingers
  <1>11. Buttons' BY <1>1, <1>5 DEF Buttons
  <1>12. ASSUME clean, HasSomewhereToSend
         PROVE  modifiers' = down' \cap Modifiers /\ (buttons' => button')
         <2>1. modifiers = down \cap Modifiers /\ (buttons => button)
               BY <1>12 DEF Parts, Begun
         <2>2. modifiers' = modifiers \ {k} BY <1>5, <1>12 DEF ModifiersAfter
         <2> QED BY <1>1, <1>5, <2>1, <2>2
  <1>13. ASSUME clean PROVE devMods' \subseteq down' /\ (devButton' => button')
         <2>1. devButton => button BY <1>13 DEF Parts, Begun
         <2>2. keyboard => HasSomewhereToSend BY DEF HasSomewhereToSend
         <2> QED BY <1>1, <1>5, <1>12, <1>13, <2>1, <2>2
  <1>14. Begun' BY <1>1, <1>12, <1>13, SessionKeeps DEF Begun
  <1>15. Cable' BY <1>1, SessionKeeps DEF Parts, Cable
  <1> QED BY <1>7, <1>8, <1>9, <1>10, <1>11, <1>14, <1>15 DEF Parts

-------------------------------------------------------------------------------
(* The pointer *)

LEMMA ButtonDownKeeps ==
  ASSUME Inv, ButtonDown
  PROVE  Inv'
  <1> USE SlintOf DEF Inv
  <1>1. /\ button' = TRUE /\ captureApplied' = captured
        /\ buttons' = IF HasSomewhereToSend THEN TRUE ELSE buttons
        /\ devButton' = IF Pointing THEN TRUE ELSE devButton
        /\ PointerDown
        /\ UNCHANGED <<down, focus, missed, mode, held, sentDown, keyboard, mouse, usb, hidKeys,
                       modifiers, deviceModifiers, captured, captureKey, devCodes, devMods, clean>>
        BY DEF ButtonDown, HidButton
  <1> DEFINE second == {"ctrl", "shift"} \cap down # {}
  <1>2. /\ vfinger' = (vfinger \/ (Touches /\ second))
        /\ devTouch' = IF ~Touches THEN devTouch
                       ELSE devTouch \cup {"mouse"} \cup {f \in {"finger"} : second}
        BY <1>1 DEF PointerDown
  <1>3. vfinger' \in BOOLEAN BY <1>2
  <1> HIDE DEF second
  <1>4. devTouch' \subseteq {"mouse", "finger"} BY <1>2 DEF TypeOK
  <1>5. {button, focus, vfinger, keyboard, mouse, buttons, captured,
         captureApplied, devButton, clean}' \subseteq BOOLEAN
        BY <1>1, <1>3 DEF TypeOK
  <1>6. TypeOK' BY <1>1, <1>4, <1>5 DEF TypeOK
  <1>7. Sent' BY <1>1, SessionKeeps DEF Parts, Sent
  <1>8. Reports' BY <1>1, SessionKeeps DEF Parts, Reports
  <1>9. Fingers' BY <1>1, <1>2, SessionKeeps DEF Parts, Fingers
  <1>10. Buttons' BY <1>1 DEF Parts, Buttons, Pointing, HasSomewhereToSend
  <1>11. Begun' BY <1>1, SessionKeeps DEF Parts, Begun
  <1>12. Cable' BY <1>1, SessionKeeps DEF Parts, Cable
  <1> QED BY <1>6, <1>7, <1>8, <1>9, <1>10, <1>11, <1>12 DEF Parts

LEMMA ButtonUpKeeps ==
  ASSUME Inv, ButtonUp
  PROVE  Inv'
  <1> USE SlintOf DEF Inv
  <1>1. /\ button' = FALSE /\ captureApplied' = captured
        /\ buttons' = IF HasSomewhereToSend THEN FALSE ELSE buttons
        /\ devButton' = IF Pointing THEN FALSE ELSE devButton
        /\ PointerUp
        /\ UNCHANGED <<down, focus, missed, mode, held, sentDown, keyboard, mouse, usb, hidKeys,
                       modifiers, deviceModifiers, captured, captureKey, devCodes, devMods, clean>>
        BY DEF ButtonUp, HidButton
  <1>2. /\ vfinger' = (vfinger /\ ~Touches)
        /\ devTouch' = IF ~Touches THEN devTouch
                       ELSE devTouch \ ({"mouse"} \cup {f \in {"finger"} : vfinger})
        BY <1>1 DEF PointerUp
  <1>3. vfinger' \in BOOLEAN BY <1>2
  <1>4. devTouch' = {}
        <2>1. /\ devTouch # {} => Touches
              /\ "finger" \in devTouch => vfinger
              /\ devTouch \subseteq {"mouse", "finger"}
              BY DEF Parts, Fingers, TypeOK
        <2>2. CASE ~Touches BY <1>2, <2>1, <2>2
        <2>3. CASE Touches BY <1>2, <2>1, <2>3
        <2> QED BY <2>2, <2>3
  <1>5. {button, focus, vfinger, keyboard, mouse, buttons, captured,
         captureApplied, devButton, clean}' \subseteq BOOLEAN
        BY <1>1, <1>3 DEF TypeOK
  <1>6. TypeOK' BY <1>1, <1>4, <1>5 DEF TypeOK
  <1>7. Sent' BY <1>1, SessionKeeps DEF Parts, Sent
  <1>8. Reports' BY <1>1, SessionKeeps DEF Parts, Reports
  <1>9. Fingers' BY <1>4 DEF Fingers
  <1>10. devButton' = FALSE
         BY <1>1 DEF Parts, Buttons, Pointing
  <1>11. Buttons' BY <1>10 DEF Buttons
  <1>12. Begun' BY <1>1, <1>10, SessionKeeps DEF Parts, Begun
  <1>13. Cable' BY <1>1, SessionKeeps DEF Parts, Cable
  <1> QED BY <1>6, <1>7, <1>8, <1>9, <1>11, <1>12, <1>13 DEF Parts

LEMMA SecondaryClickKeeps ==
  ASSUME Inv, SecondaryClick
  PROVE  Inv'
  <1> USE SlintOf DEF Inv
  <1>1. /\ devTouch' \subseteq devTouch /\ captureApplied' = captured
        /\ UNCHANGED <<down, button, focus, missed, mode, held, sentDown, vfinger, keyboard, mouse,
                       usb, hidKeys, modifiers, deviceModifiers, buttons, captureKey, captured,
                       devCodes, devMods, devButton, clean>>
        BY DEF SecondaryClick, world, slint, record
  <1>2. {button, focus, vfinger, keyboard, mouse, buttons, captured,
         captureApplied, devButton, clean}' \subseteq BOOLEAN
        BY <1>1 DEF TypeOK
  <1>3. TypeOK' BY <1>1, <1>2 DEF TypeOK
  <1>4. Sent' BY <1>1, SessionKeeps DEF Parts, Sent
  <1>5. Reports' BY <1>1, SessionKeeps DEF Parts, Reports
  <1>6. Fingers' BY <1>1, SessionKeeps DEF Parts, Fingers
  <1>7. Buttons' BY <1>1 DEF Parts, Buttons
  <1>8. Begun' BY <1>1, SessionKeeps DEF Parts, Begun
  <1>9. Cable' BY <1>1, SessionKeeps DEF Parts, Cable
  <1> QED BY <1>3, <1>4, <1>5, <1>6, <1>7, <1>8, <1>9 DEF Parts

LEMMA MotionKeeps ==
  ASSUME Inv, Motion
  PROVE  Inv'
  <1> USE SlintOf DEF Inv
  <1>1. /\ mouse /\ captured /\ devButton' = buttons
        /\ UNCHANGED <<down, button, focus, missed, mode, held, sentDown, vfinger, keyboard, mouse,
                       usb, hidKeys, modifiers, deviceModifiers, buttons, captureKey, captured,
                       captureApplied, devCodes, devTouch, devMods, clean>>
        BY DEF Motion, Pointing, world, slint, record
  <1>2. {button, focus, vfinger, keyboard, mouse, buttons, captured,
         captureApplied, devButton, clean}' \subseteq BOOLEAN
        BY <1>1 DEF TypeOK
  <1>3. TypeOK' BY <1>1, <1>2 DEF TypeOK
  <1>4. Sent' BY <1>1, SessionKeeps DEF Parts, Sent
  <1>5. Reports' BY <1>1, SessionKeeps DEF Parts, Reports
  <1>6. Fingers' BY <1>1, SessionKeeps DEF Parts, Fingers
  <1>7. Buttons' BY <1>1 DEF Buttons
  <1>8. HasSomewhereToSend BY <1>1 DEF HasSomewhereToSend
  <1>9. Begun' BY <1>1, <1>8, SessionKeeps DEF Parts, Begun
  <1>10. Cable' BY <1>1, SessionKeeps DEF Parts, Cable
  <1> QED BY <1>3, <1>4, <1>5, <1>6, <1>7, <1>9, <1>10 DEF Parts

-------------------------------------------------------------------------------
(* The window *)

LEMMA WindowKeeps ==
  ASSUME Inv, WindowEvent \/ FocusGained \/ UNCHANGED vars
  PROVE  Inv'
  <1> USE SlintOf DEF Inv
  <1>1. /\ focus' \in BOOLEAN /\ captureApplied' \in BOOLEAN
        /\ UNCHANGED <<down, button, missed, mode, held, sentDown, vfinger, keyboard, mouse,
                       usb, hidKeys, modifiers, deviceModifiers, buttons, captureKey, captured,
                       devCodes, devTouch, devMods, devButton, clean>>
        BY DEF WindowEvent, FocusGained, vars, world, slint, record, device, TypeOK
  <1>2. {button, focus, vfinger, keyboard, mouse, buttons, captured,
         captureApplied, devButton, clean}' \subseteq BOOLEAN
        BY <1>1 DEF TypeOK
  <1>3. TypeOK' BY <1>1, <1>2 DEF TypeOK
  <1>4. Sent' BY <1>1, SessionKeeps DEF Parts, Sent
  <1>5. Reports' BY <1>1, SessionKeeps DEF Parts, Reports
  <1>6. Fingers' BY <1>1, SessionKeeps DEF Parts, Fingers
  <1>7. Buttons' BY <1>1 DEF Parts, Buttons
  <1>8. Begun' BY <1>1, SessionKeeps DEF Parts, Begun
  <1>9. Cable' BY <1>1, SessionKeeps DEF Parts, Cable
  <1> QED BY <1>3, <1>4, <1>5, <1>6, <1>7, <1>8, <1>9 DEF Parts

(* Both records forget what is held with the focus, and the reports with them. *)
LEMMA FocusLostKeeps ==
  ASSUME Inv, FocusLost
  PROVE  Inv'
  <1> USE SlintOf DEF Inv
  <1>1. /\ focus' = FALSE /\ down' = {} /\ captured' = FALSE /\ captureApplied' = FALSE
        /\ missed' = IF Running THEN missed \cup (down \cap Letters) ELSE missed
        /\ UNCHANGED <<button, mode, held, sentDown, vfinger, keyboard, mouse, usb, captureKey,
                       devCodes, devTouch, clean>>
        BY DEF FocusLost, slint
  <1>2. /\ HasSomewhereToSend =>
             /\ modifiers' = {} /\ deviceModifiers' = {} /\ hidKeys' = {}
             /\ devMods' = IF keyboard THEN {} ELSE devMods
             /\ buttons' = FALSE /\ devButton' = (devButton /\ ~(buttons /\ mouse))
        /\ ~HasSomewhereToSend =>
             UNCHANGED <<modifiers, deviceModifiers, hidKeys, buttons, devMods, devButton>>
        BY DEF FocusLost, ReleaseButtons
  <1>3. /\ hidKeys # {} => keyboard
        /\ devMods # {} => keyboard
        /\ devButton => mouse /\ captured /\ buttons
        BY DEF Parts, Reports, Buttons
  <1>4. devButton' = FALSE /\ buttons' \in BOOLEAN
        BY <1>2, <1>3 DEF HasSomewhereToSend
  <1>5. hidKeys' = {} /\ devMods' = {}
        BY <1>2, <1>3 DEF HasSomewhereToSend
  <1>6. /\ modifiers' \subseteq Modifiers /\ deviceModifiers' \subseteq modifiers'
        /\ HasSomewhereToSend => modifiers' = {} /\ buttons' = FALSE
        BY <1>2
  <1>7. {button, focus, vfinger, keyboard, mouse, buttons, captured,
         captureApplied, devButton, clean}' \subseteq BOOLEAN
        BY <1>1, <1>4 DEF TypeOK
  <1>8. TypeOK' BY <1>1, <1>5, <1>6, <1>7 DEF TypeOK
  <1>9. Sent' BY <1>1, SessionKeeps DEF Parts, Sent
  <1>10. Reports' BY <1>1, <1>5, SessionKeeps DEF Parts, Reports
  <1>11. Fingers' BY <1>1, SessionKeeps DEF Parts, Fingers
  <1>12. Buttons' BY <1>4 DEF Buttons
  <1>13. Begun' BY <1>1, <1>4, <1>5, <1>6, SessionKeeps DEF Begun
  <1>14. Cable' BY <1>1, SessionKeeps DEF Parts, Cable
  <1> QED BY <1>8, <1>9, <1>10, <1>11, <1>12, <1>13, <1>14 DEF Parts

-------------------------------------------------------------------------------
(* What is proved *)

(* The inductive invariant: how the two handlers' records stand to what is  *)
(* held and to what the device was told (slint_input/keyboard.rs;           *)
(* uhid/events.rs).                                                         *)
THEOREM Invariance == Spec => []Inv
  <1>1. Init => Inv BY InitKeeps
  <1>2. Inv /\ [Next]_vars => Inv'
        <2> SUFFICES ASSUME Inv, [Next]_vars PROVE Inv' OBVIOUS
        <2>1. ASSUME NEW m \in Modes, Start(m) \/ StartOtg(m) PROVE Inv' BY <2>1, StartKeeps
        <2>2. CASE Stop BY <2>2, StopKeeps
        <2>3. ASSUME NEW k \in Keys, KeyDown(k) \/ KeyRepeat(k) \/ KeyUp(k) PROVE Inv'
              BY <2>3, KeyDownKeeps, KeyRepeatKeeps, KeyUpKeeps
        <2>4. CASE ButtonDown BY <2>4, ButtonDownKeeps
        <2>5. CASE ButtonUp BY <2>5, ButtonUpKeeps
        <2>6. CASE SecondaryClick BY <2>6, SecondaryClickKeeps
        <2>7. CASE Motion BY <2>7, MotionKeeps
        <2>8. CASE WindowEvent \/ FocusGained \/ UNCHANGED vars BY <2>8, WindowKeeps
        <2>9. CASE FocusLost BY <2>9, FocusLostKeeps
        <2> QED BY <2>1, <2>2, <2>3, <2>4, <2>5, <2>6, <2>7, <2>8, <2>9 DEF Next
  <1> QED BY <1>1, <1>2, PTL DEF Spec

(* What the device holds is held, or let go where the window did not see    *)
(* it, and what is at the end of the cable is registered here               *)
(* (slint_input/keyboard.rs, release; uhid/events.rs, release_everything;   *)
(* aoa_hid.rs, Drop).                                                       *)
THEOREM NothingStaysDown == Spec => []NothingIsLeftHeld
  <1>1. Inv => NothingIsLeftHeld
        BY DEF Inv, Parts, NothingIsLeftHeld, Sent, Reports, Fingers, Begun, Cable
  <1> QED BY <1>1, Invariance, PTL

(* A release is sent only of a key whose press was                          *)
(* (slint_input/keyboard.rs, sent_down).                                    *)
THEOREM ReleasesAreOfPresses == Spec => []OnlyWhatWentDownComesUp
  <1>1. Inv => OnlyWhatWentDownComesUp
        BY DEF Inv, Parts, Sent, OnlyWhatWentDownComesUp, KeyUpSends
  <1> QED BY <1>1, Invariance, PTL

(* A press takes one road, HID reports are only of what was asked for, and  *)
(* a camera hears of no key but its torch's (uhid/mod.rs;                   *)
(* slint_input/keyboard.rs), for any options: both handlers see the same    *)
(* shortcut modifier, though each looks at its own record.                  *)
THEOREM PressesTakeOneRoad == Spec => []OneRoad
  <1> DEFINE Asked == /\ keyboard => AskedFor("keyboard")
                      /\ mouse => AskedFor("mouse")
  <1>1. Init => Asked BY DEF Init
  <1>2. Inv /\ Asked /\ [Next]_vars => Asked'
        <2> SUFFICES ASSUME Inv, Asked, [Next]_vars, keyboard' \/ mouse'
                     PROVE  Asked'
            OBVIOUS
        <2>1. CASE UNCHANGED <<mode, keyboard, mouse>> BY <2>1 DEF AskedFor
        <2>2. ASSUME NEW m \in Modes, Start(m) PROVE Asked'
              <3>1. mode' = m /\ ~keyboard /\ ~mouse BY <2>2, IdleFacts DEF Start
              <3>2. CASE Attach(m) BY <3>1, <3>2, AttachFacts DEF AskedFor
              <3>3. CASE UNCHANGED <<keyboard, mouse>> BY <3>1, <3>3
              <3> QED BY <2>2, <3>2, <3>3 DEF Start
        <2>3. ASSUME NEW m \in Modes, StartOtg(m) PROVE Asked'
              <3>1. mode' = AsOtg(m) /\ Attach(AsOtg(m)) BY <2>3 DEF StartOtg
              <3>2. /\ keyboard' => AsOtg(m).keyboard \in {"uhid", "aoa"}
                    /\ mouse' => AsOtg(m).mouse \in {"uhid", "aoa"}
                    BY <3>1, AttachFacts
              <3> QED BY <3>1, <3>2 DEF AskedFor
        <2>4. ASSUME EndSession PROVE FALSE BY <2>4 DEF EndSession, Detach
        <2>5. CASE Stop BY <2>4, <2>5 DEF Stop
        <2>6. ASSUME NEW k \in Keys, KeyDown(k) \/ KeyRepeat(k) \/ KeyUp(k)
              PROVE  UNCHANGED <<mode, keyboard, mouse>>
              BY <2>4, <2>6 DEF KeyDown, KeyRepeat, KeyUp, QuitByKey
        <2>7. ASSUME ButtonDown \/ ButtonUp \/ SecondaryClick \/ Motion \/ WindowEvent
                       \/ FocusLost \/ FocusGained \/ UNCHANGED vars
              PROVE  UNCHANGED <<mode, keyboard, mouse>>
              BY <2>7 DEF ButtonDown, ButtonUp, SecondaryClick, Motion, WindowEvent, FocusLost,
                          FocusGained, vars
        <2> QED BY <2>1, <2>2, <2>3, <2>5, <2>6, <2>7 DEF Next
  <1>3. Inv /\ Asked => OneRoad
        <2> SUFFICES ASSUME Inv, Asked PROVE OneRoad OBVIOUS
        <2>1. ASSUME clean, NEW k \in Keys \ down, OnKeySends(k, TRUE), KeyDownSends(k) # {}
              PROVE  FALSE
              <3>1. keyboard /\ "alt" \notin modifiers
                    BY <2>1 DEF OnKeySends, ShortcutHeld, ModifiersAfter
              <3>2. Mine BY <3>1 DEF Mine
              <3>3. RunsShortcut(k) BY <2>1, <3>2 DEF KeyDownSends, Types, Pastes
              <3>4. "alt" \in down BY <3>3 DEF RunsShortcut, ModHeld
              <3>5. "alt" \in Modifiers BY <3>4, KeyFacts DEF Inv, TypeOK, Keys
              <3>6. modifiers = down \cap Modifiers
                    BY <2>1, <3>1 DEF Inv, Parts, Begun, HasSomewhereToSend
              <3> QED BY <3>1, <3>4, <3>5, <3>6
        <2>2. ASSUME Running, mode.camera
              PROVE  /\ \A k \in Keys : KeyDownSends(k) \cup KeyUpSends(k) \subseteq CameraTakes
                     /\ devTouch = {} /\ devCodes = {}
              <3>1. Mine BY <2>2 DEF Mine
              <3>2. ASSUME NEW k \in Keys, NEW s \in KeyDownSends(k) PROVE s \in CameraTakes
                    BY <2>2, <3>1, <3>2 DEF KeyDownSends, Types, Pastes
              <3>3. ASSUME NEW k \in Keys PROVE KeyUpSends(k) = {}
                    BY <3>1 DEF KeyUpSends
              <3>4. devTouch = {} /\ devCodes = {}
                    BY <2>2, <3>1 DEF Inv, Parts, Fingers, Sent, Touches
              <3> QED BY <3>2, <3>3, <3>4
        <2>3. HasSomewhereToSend => Running BY DEF Inv, Parts, Reports, HasSomewhereToSend
        <2> QED BY <2>1, <2>2, <2>3 DEF OneRoad
  <1>4. Spec => []Asked BY <1>1, <1>2, Invariance, PTL DEF Spec
  <1> QED BY <1>3, <1>4, Invariance, PTL

--------------------------------------------------------------------------------
(***************************************************************************)
(* The control channel, for any number of pushers, any capacity and any    *)
(* number of messages: nothing vanishes, what was refused is not sent, and *)
(* what one thread pushes keeps its order.                                 *)
(*                                                                         *)
(* The messages that were not refused stand in one line: those written,    *)
(* the one in the sender's hand, and those in the queue.  The sender's     *)
(* steps leave the line as it is, and a push adds at its end.  The         *)
(* invariant says how far the numbers in the line and among the refused    *)
(* have come (Numbers); that a pusher waits with its latest message        *)
(* (Waiters) is why one that finds room late does not overtake.            *)
(***************************************************************************)

Hand == IF hand = None THEN <<>> ELSE <<hand>>
Line == written \o Hand \o queue
Known == refused \union Range(Line)

ControlTypes ==
  /\ queue \in Seq(ControlMsg) /\ written \in Seq(ControlMsg)
  /\ hand \in ControlMsg \union {None}
  /\ refused \in SUBSET ControlMsg
  /\ pushes \in [Pushers -> 0 .. MaxPushes]
  /\ waiting \in [Pushers -> ControlMsg \union {None}]
  /\ sender \in {"taking", "writing", "failed", "ended"}
  /\ sender = "writing" <=> hand # None

Waiters ==
  \A p \in Pushers :
    waiting[p] # None => waiting[p].from = p /\ waiting[p].no = pushes[p]

Numbers ==
  \A p \in Pushers, m \in Known :
    m.from = p => /\ m.no <= pushes[p]
                  /\ waiting[p] # None => m.no < pushes[p]

Accounted ==
  Connected => \A p \in Pushers : \A n \in 1 .. pushes[p] :
                 \/ waiting[p] # None /\ n = pushes[p]
                 \/ \E m \in Known : m.from = p /\ m.no = n

Sorted(s) ==
  \A i, j \in 1 .. Len(s) : i < j /\ s[i].from = s[j].from => s[i].no < s[j].no

ControlInv == /\ ControlTypes /\ Waiters /\ Numbers /\ Accounted
       /\ refused \intersect Range(Line) = {} /\ Sorted(Line)

-------------------------------------------------------------------------------
LEMMA MessageFacts ==
  /\ None \notin ControlMsg
  /\ \A m \in ControlMsg : m.from \in Pushers /\ m.no \in 1 .. MaxPushes /\ m.no \in Int
  <1>1. \A m \in ControlMsg : m.no \in 1 .. MaxPushes /\ m.from \in Pushers
        BY DEF ControlMsg
  <1>2. \A m \in ControlMsg : m.no \in Int BY <1>1, ControllerAssumption, SMT
  <1>3. None \notin ControlMsg
        <2> SUFFICES ASSUME None \in ControlMsg PROVE FALSE OBVIOUS
        <2>1. DOMAIN None = {"from", "no", "droppable"} BY DEF ControlMsg
        <2>2. DOMAIN None = {"from"} BY DEF None
        <2> QED BY <2>1, <2>2
  <1> QED BY <1>1, <1>2, <1>3

(* The line, and who stands in it.                                         *)
LEMMA LineFacts ==
  ASSUME ControlTypes
  PROVE  /\ Hand \in Seq(ControlMsg) /\ Line \in Seq(ControlMsg)
         /\ written \o Hand \in Seq(ControlMsg)
         /\ Range(Line) = Range(written) \union Range(Hand) \union Range(queue)
         /\ Range(Hand) = {hand} \ {None}
         /\ Range(Line) \in SUBSET ControlMsg
  <1>1. \A m \in ControlMsg : <<m>> \in Seq(ControlMsg) /\ Len(<<m>>) = 1 /\ <<m>>[1] = m
        BY SMT
  <1>2. <<>> \in Seq(ControlMsg) /\ Len(<<>>) = 0 BY EmptySeq
  <1>3. Hand \in Seq(ControlMsg) BY <1>1, <1>2 DEF Hand, ControlTypes
  <1>a. written \in Seq(ControlMsg) /\ queue \in Seq(ControlMsg) BY DEF ControlTypes
  <1>b. Line = (written \o Hand) \o queue BY DEF Line
  <1>c. \A a, b \in Seq(ControlMsg) : a \o b \in Seq(ControlMsg) BY ConcatProperties
  <1>d. \A a, b \in Seq(ControlMsg) : Range(a \o b) = Range(a) \union Range(b)
        BY RangeConcatenation
  <1>4. written \o Hand \in Seq(ControlMsg) BY <1>3, <1>a, <1>c
  <1>5. Line \in Seq(ControlMsg) BY <1>4, <1>a, <1>b, <1>c
  <1>6. Range(Line) = Range(written \o Hand) \union Range(queue) BY <1>4, <1>a, <1>b, <1>d
  <1>7. Range(written \o Hand) = Range(written) \union Range(Hand) BY <1>3, <1>a, <1>d
  <1>8. Range(Hand) = {hand} \ {None}
        <2>1. Range(Hand) = {Hand[i] : i \in 1 .. Len(Hand)} BY <1>3, RangeEquality
        <2>2. CASE hand = None
              <3>1. Hand = <<>> /\ 1 .. 0 = {} BY <2>2, SMT DEF Hand
              <3> QED BY <1>2, <2>1, <2>2, <3>1
        <2>3. CASE hand # None
              <3>1. Hand = <<hand>> /\ hand \in ControlMsg BY <2>3 DEF Hand, ControlTypes
              <3>2. 1 .. 1 = {1} BY SMT
              <3> QED BY <1>1, <2>1, <2>3, <3>1, <3>2
        <2> QED BY <2>2, <2>3
  <1>9. Range(Line) \in SUBSET ControlMsg BY <1>5, RangeOfSeq
  <1> QED BY <1>3, <1>4, <1>5, <1>6, <1>7, <1>8, <1>9

(* A message later than all of its pusher's keeps the line sorted.         *)
LEMMA SortedAppend ==
  ASSUME NEW s \in Seq(ControlMsg), NEW m \in ControlMsg, Sorted(s),
         \A x \in Range(s) : x.from = m.from => x.no < m.no
  PROVE  Sorted(Append(s, m)) /\ Range(Append(s, m)) = Range(s) \union {m}
  <1> DEFINE t == Append(s, m)
  <1>1. /\ t \in Seq(ControlMsg) /\ Len(t) = Len(s) + 1 /\ Len(s) \in Nat
        /\ \A i \in 1 .. Len(s) : t[i] = s[i]
        /\ t[Len(s) + 1] = m
        BY AppendProperties, LenProperties
  <1>2. \A i \in 1 .. Len(s) : s[i] \in Range(s) BY RangeEquality
  <1> HIDE DEF t
  <1>3. Sorted(t)
        <2> SUFFICES ASSUME NEW i \in 1 .. Len(t), NEW j \in 1 .. Len(t),
                            i < j, t[i].from = t[j].from
                     PROVE  t[i].no < t[j].no
            BY DEF Sorted
        <2>1. i \in 1 .. Len(s) BY <1>1, SMT
        <2>2. CASE j \in 1 .. Len(s) BY <1>1, <2>1, <2>2 DEF Sorted
        <2>3. CASE j \notin 1 .. Len(s)
              <3>1. j = Len(s) + 1 BY <1>1, <2>3, SMT
              <3> QED BY <1>1, <1>2, <2>1, <3>1
        <2> QED BY <2>2, <2>3
  <1>4. Range(t) = Range(s) \union {m}
        <2>1. Range(t) = {t[i] : i \in 1 .. Len(t)} /\ Range(s) = {s[i] : i \in 1 .. Len(s)}
              BY <1>1, RangeEquality
        <2>2. 1 .. Len(t) = (1 .. Len(s)) \union {Len(s) + 1} BY <1>1, SMT
        <2> QED BY <1>1, <2>1, <2>2
  <1> QED BY <1>3, <1>4 DEF t

(* The beginning of a sorted line is sorted.                               *)
LEMMA SortedPrefix ==
  ASSUME NEW s \in Seq(ControlMsg), NEW t \in Seq(ControlMsg), Sorted(s \o t)
  PROVE  Sorted(s)
  <1>1. /\ Len(s) \in Nat /\ Len(t) \in Nat /\ Len(s \o t) = Len(s) + Len(t)
        /\ \A i \in 1 .. Len(s) + Len(t) : (s \o t)[i] = IF i <= Len(s) THEN s[i] ELSE t[i - Len(s)]
        BY ConcatProperties, LenProperties
  <1>2. \A i \in 1 .. Len(s) : i \in 1 .. Len(s) + Len(t) /\ i <= Len(s) BY <1>1, SMT
  <1>3. \A i \in 1 .. Len(s) : i \in 1 .. Len(s \o t) /\ (s \o t)[i] = s[i] BY <1>1, <1>2
  <1> QED BY <1>3 DEF Sorted

LEMMA ControlInitKeeps == ControlInit => ControlInv
  <1> SUFFICES ASSUME ControlInit PROVE ControlInv OBVIOUS
  <1>1. <<>> \in Seq(ControlMsg) /\ Len(<<>>) = 0 BY EmptySeq
  <1>2. 0 \in 0 .. MaxPushes BY ControllerAssumption, SMT
  <1>3. ControlTypes BY <1>1, <1>2 DEF ControlInit, ControlTypes
  <1>4. Line = <<>> BY <1>1, ConcatEmptySeq DEF ControlInit, Line, Hand
  <1>5. 1 .. 0 = {} BY SMT
  <1>6. Range(Line) = {} BY <1>1, <1>4, <1>5, RangeEquality
  <1>7. Sorted(Line) BY <1>1, <1>4, <1>5 DEF Sorted
  <1>8. Waiters /\ Numbers BY <1>6 DEF ControlInit, Waiters, Numbers, Known
  <1>9. Accounted BY <1>5 DEF ControlInit, Accounted
  <1> QED BY <1>3, <1>6, <1>7, <1>8, <1>9 DEF ControlInv

-------------------------------------------------------------------------------
(* A message lands: at the end of the line, or among the refused.  It is   *)
(* its pusher's latest, and so later than all of its that were known.      *)
LEMMA LandingKeeps ==
  ASSUME ControlInv, ControlTypes', NEW p \in Pushers, NEW msg \in ControlMsg,
         msg.from = p,
         \A m \in Known : m.from = p => m.no < msg.no,
         pushes' = [pushes EXCEPT ![p] = msg.no],
         waiting' = [waiting EXCEPT ![p] = None],
         \A n \in 1 .. msg.no :
           n = msg.no \/ (n \in 1 .. pushes[p] /\ ~(waiting[p] # None /\ n = pushes[p])),
         \/ Line' = Append(Line, msg) /\ refused' = refused
         \/ Line' = Line /\ refused' = refused \union {msg},
         Connected' => Connected
  PROVE  ControlInv'
  <1>1. Line \in Seq(ControlMsg) /\ Range(Line) \in SUBSET ControlMsg BY LineFacts DEF ControlInv
  <1>2. msg \notin Known
        <2> SUFFICES ASSUME msg \in Known PROVE FALSE OBVIOUS
        <2>1. msg.no < msg.no OBVIOUS
        <2> QED BY <2>1, MessageFacts, SMT
  <1>3. /\ Sorted(Append(Line, msg))
        /\ Range(Append(Line, msg)) = Range(Line) \union {msg}
        BY <1>1, SortedAppend DEF ControlInv, Known
  <1>4. Known' = Known \union {msg} BY <1>3 DEF Known
  <1>5. Sorted(Line') BY <1>3 DEF ControlInv
  <1>6. Sorted(Line)' BY <1>5 DEF Sorted
  <1>7. (refused \intersect Range(Line) = {})'
        BY <1>2, <1>3 DEF ControlInv, Known
  <1>8. /\ pushes'[p] = msg.no /\ waiting'[p] = None
        /\ \A r \in Pushers : r # p => pushes'[r] = pushes[r] /\ waiting'[r] = waiting[r]
        BY DEF ControlInv, ControlTypes
  <1>9. Waiters' BY <1>8 DEF ControlInv, Waiters
  <1>10. Numbers'
        <2> SUFFICES ASSUME NEW r \in Pushers, NEW m \in Known', m.from = r
                     PROVE  m.no <= pushes'[r] /\ (waiting'[r] # None => m.no < pushes'[r])
            BY DEF Numbers
        <2>1. CASE r # p BY <1>4, <1>8, <2>1 DEF ControlInv, Numbers
        <2>2. CASE r = p /\ m = msg BY <1>8, <2>2, MessageFacts, SMT
        <2>3. CASE r = p /\ m # msg
              <3>1. m \in Known BY <1>4, <2>3
              <3>2. m \in ControlMsg BY <1>1, <3>1 DEF Known, ControlInv, ControlTypes
              <3>3. m.no < msg.no BY <2>3, <3>1
              <3>4. m.no <= msg.no BY <3>2, <3>3, MessageFacts, SMT
              <3> QED BY <1>8, <2>3, <3>4
        <2> QED BY <2>1, <2>2, <2>3
  <1>11. Accounted'
        <2> SUFFICES ASSUME Connected, NEW r \in Pushers, NEW n \in 1 .. pushes'[r]
                     PROVE  \/ waiting'[r] # None /\ n = pushes'[r]
                            \/ \E m \in Known' : m.from = r /\ m.no = n
            BY DEF Accounted
        <2>1. CASE r # p BY <1>4, <1>8, <2>1 DEF ControlInv, Accounted
        <2>2. CASE r = p /\ n = msg.no BY <1>4, <2>2
        <2>3. CASE r = p /\ n # msg.no
              <3>1. n \in 1 .. pushes[p] /\ ~(waiting[p] # None /\ n = pushes[p])
                    BY <1>8, <2>3
              <3> QED BY <1>4, <2>3, <3>1 DEF ControlInv, Accounted
        <2> QED BY <2>1, <2>2, <2>3
  <1> QED BY <1>6, <1>7, <1>9, <1>10, <1>11 DEF ControlInv

(* A step that moves nobody's message out of the line keeps everything.    *)
LEMMA SameLineKeeps ==
  ASSUME ControlInv, ControlTypes', Line' = Line, UNCHANGED <<pushes, waiting, refused>>,
         Connected' => Connected
  PROVE  ControlInv'
  <1> USE DEF ControlInv
  <1>1. Known' = Known BY DEF Known
  <1>2. Waiters' BY DEF Waiters
  <1>3. Numbers' BY <1>1 DEF Numbers
  <1>4. Accounted' BY <1>1 DEF Accounted
  <1>5. Sorted(Line)' BY DEF Sorted
  <1> QED BY <1>2, <1>3, <1>4, <1>5

-------------------------------------------------------------------------------
(* Adding to the queue adds to the line.                                   *)
LEMMA EnqueueFacts ==
  ASSUME ControlTypes, NEW m \in ControlMsg, queue' = Append(queue, m),
         UNCHANGED <<written, hand>>
  PROVE  Line' = Append(Line, m) /\ queue' \in Seq(ControlMsg)
  <1>1. <<m>> \in Seq(ControlMsg) BY SMT
  <1>2. queue' = queue \o <<m>> BY AppendIsConcat DEF ControlTypes
  <1>3. Hand' = Hand BY DEF Hand
  <1>4. Line' = (written \o Hand) \o (queue \o <<m>>) BY <1>2, <1>3 DEF Line
  <1>5. Line' = Line \o <<m>>
        BY <1>1, <1>4, LineFacts, ConcatAssociative DEF ControlTypes, Line
  <1>6. Append(Line, m) = Line \o <<m>> BY LineFacts, AppendIsConcat
  <1>7. Append(queue, m) \in Seq(ControlMsg) BY AppendProperties DEF ControlTypes
  <1> QED BY <1>5, <1>6, <1>7

LEMMA PushKeeps ==
  ASSUME ControlInv, NEW p \in Pushers, Push(p)
  PROVE  ControlInv'
  <1>1. PICK b \in BOOLEAN :
          LET msg == [from |-> p, no |-> pushes[p] + 1, droppable |-> b]
          IN  \/ Connected /\ ~Full /\ Enqueue(msg) /\ UNCHANGED waiting
              \/ Connected /\ Full /\ msg.droppable /\ Refuse(msg) /\ UNCHANGED waiting
              \/ ~Connected /\ Refuse(msg) /\ UNCHANGED waiting
              \/ /\ Connected /\ Full /\ ~msg.droppable
                 /\ waiting' = [waiting EXCEPT ![p] = msg]
                 /\ UNCHANGED <<queue, refused>>
        BY DEF Push
  <1> DEFINE msg == [from |-> p, no |-> pushes[p] + 1, droppable |-> b]
  <1>2. /\ waiting[p] = None /\ pushes[p] < MaxPushes
        /\ pushes' = [pushes EXCEPT ![p] = @ + 1]
        /\ UNCHANGED <<senders, sender, hand, socket, written>>
        BY DEF Push
  <1>3. pushes[p] \in Nat /\ pushes[p] + 1 \in 1 .. MaxPushes
        /\ pushes[p] + 1 \in 0 .. MaxPushes
        BY <1>2, ControllerAssumption, SMT DEF ControlInv, ControlTypes
  <1>4. msg \in ControlMsg /\ msg.from = p /\ msg.no = pushes[p] + 1
        BY <1>3 DEF ControlMsg
  <1>5. msg # None BY <1>4, MessageFacts
  <1>6. pushes' \in [Pushers -> 0 .. MaxPushes] BY <1>2, <1>3 DEF ControlInv, ControlTypes
  <1>7. \A m \in Known : m.from = p => m.no < msg.no
        <2> SUFFICES ASSUME NEW m \in Known, m.from = p PROVE m.no < msg.no OBVIOUS
        <2>1. m.no <= pushes[p] BY DEF ControlInv, Numbers
        <2>2. m \in ControlMsg BY LineFacts DEF Known, ControlInv, ControlTypes
        <2> HIDE DEF msg
        <2> QED BY <1>3, <1>4, <2>1, <2>2, MessageFacts, SMT
  <1> HIDE DEF msg
  <1>8. CASE Enqueue(msg) /\ UNCHANGED waiting
        <2>1. Line' = Append(Line, msg) /\ queue' \in Seq(ControlMsg) /\ refused' = refused
              BY <1>2, <1>4, <1>8, EnqueueFacts DEF Enqueue, ControlInv
        <2>2. ControlTypes' BY <1>2, <1>6, <1>8, <2>1 DEF ControlInv, ControlTypes
        <2>3. waiting' = [waiting EXCEPT ![p] = None] BY <1>2, <1>8 DEF ControlInv, ControlTypes
        <2>4. pushes' = [pushes EXCEPT ![p] = msg.no] BY <1>2, <1>4
        <2>5. \A n \in 1 .. msg.no : n = msg.no \/ n \in 1 .. pushes[p]
              BY <1>3, <1>4, SMT
        <2>6. Connected' => Connected BY <1>2 DEF Connected
        <2> QED BY <1>2, <1>4, <1>7, <2>1, <2>2, <2>3, <2>4, <2>5, <2>6, LandingKeeps
  <1>9. CASE Refuse(msg) /\ UNCHANGED waiting
        <2>1. Line' = Line /\ refused' = refused \union {msg} /\ queue' = queue
              BY <1>2, <1>9 DEF Refuse, Line, Hand
        <2>2. ControlTypes' BY <1>2, <1>4, <1>6, <1>9, <2>1 DEF ControlInv, ControlTypes
        <2>3. waiting' = [waiting EXCEPT ![p] = None] BY <1>2, <1>9 DEF ControlInv, ControlTypes
        <2>4. pushes' = [pushes EXCEPT ![p] = msg.no] BY <1>2, <1>4
        <2>5. \A n \in 1 .. msg.no : n = msg.no \/ n \in 1 .. pushes[p]
              BY <1>3, <1>4, SMT
        <2>6. Connected' => Connected BY <1>2 DEF Connected
        <2> QED BY <1>2, <1>4, <1>7, <2>1, <2>2, <2>3, <2>4, <2>5, <2>6, LandingKeeps
  (* It waits: it is its pusher's latest, and nobody else's. *)
  <1>10. CASE waiting' = [waiting EXCEPT ![p] = msg] /\ UNCHANGED <<queue, refused>>
        <2>1. Line' = Line /\ Known' = Known BY <1>2, <1>10 DEF Line, Hand, Known
        <2>2. ControlTypes' BY <1>2, <1>4, <1>6, <1>10 DEF ControlInv, ControlTypes
        <2>3. /\ pushes'[p] = msg.no /\ waiting'[p] = msg
              /\ \A r \in Pushers : r # p => pushes'[r] = pushes[r] /\ waiting'[r] = waiting[r]
              BY <1>2, <1>4, <1>10 DEF ControlInv, ControlTypes
        <2>4. Waiters' BY <1>4, <2>3 DEF ControlInv, Waiters
        <2>5. Numbers'
              <3> SUFFICES ASSUME NEW r \in Pushers, NEW m \in Known, m.from = r
                           PROVE  m.no <= pushes'[r] /\ (waiting'[r] # None => m.no < pushes'[r])
                  BY <2>1 DEF Numbers
              <3>1. CASE r # p BY <2>3, <3>1 DEF ControlInv, Numbers
              <3>2. CASE r = p
                    <4>1. m.no < msg.no BY <1>7, <3>2
                    <4>2. m \in ControlMsg BY LineFacts DEF Known, ControlInv, ControlTypes
                    <4>3. m.no <= msg.no BY <1>4, <4>1, <4>2, MessageFacts, SMT
                    <4> QED BY <2>3, <3>2, <4>1, <4>3
              <3> QED BY <3>1, <3>2
        <2>6. Accounted'
              <3> SUFFICES ASSUME Connected, NEW r \in Pushers, NEW n \in 1 .. pushes'[r]
                           PROVE  \/ waiting'[r] # None /\ n = pushes'[r]
                                  \/ \E m \in Known : m.from = r /\ m.no = n
                  BY <1>2, <2>1 DEF Accounted, Connected
              <3>1. CASE r # p BY <2>3, <3>1 DEF ControlInv, Accounted
              <3>2. CASE r = p /\ n = msg.no BY <1>5, <2>3, <3>2
              <3>3. CASE r = p /\ n # msg.no
                    <4>1. n \in 1 .. pushes[p] BY <1>3, <1>4, <2>3, <3>3, SMT
                    <4> QED BY <1>2, <3>3, <4>1 DEF ControlInv, Accounted
              <3> QED BY <3>1, <3>2, <3>3
        <2>7. Sorted(Line)' BY <2>1 DEF ControlInv, Sorted
        <2>8. (refused \intersect Range(Line) = {})' BY <1>10, <2>1 DEF ControlInv
        <2> QED BY <2>2, <2>4, <2>5, <2>6, <2>7, <2>8 DEF ControlInv
  <1> QED BY <1>1, <1>8, <1>9, <1>10 DEF msg

(* The wait of a push ends, with room or without.                          *)
LEMMA WaitEndKeeps ==
  ASSUME ControlInv, NEW p \in Pushers, FindsRoom(p) \/ GivesUp(p)
  PROVE  ControlInv'
  <1> DEFINE msg == waiting[p]
  <1>1. /\ msg # None
        /\ waiting' = [waiting EXCEPT ![p] = None]
        /\ UNCHANGED <<senders, pushes, sender, hand, socket, written>>
        BY DEF FindsRoom, GivesUp
  <1>2. msg \in ControlMsg /\ msg.from = p /\ msg.no = pushes[p]
        BY <1>1 DEF ControlInv, ControlTypes, Waiters
  <1>3. \A m \in Known : m.from = p => m.no < msg.no BY <1>1, <1>2 DEF ControlInv, Numbers
  <1>4. pushes' = [pushes EXCEPT ![p] = msg.no] BY <1>1, <1>2 DEF ControlInv, ControlTypes
  <1>5. waiting' \in [Pushers -> ControlMsg \union {None}] BY <1>1 DEF ControlInv, ControlTypes
  <1>6. \A n \in 1 .. msg.no :
          n = msg.no \/ (n \in 1 .. pushes[p] /\ ~(waiting[p] # None /\ n = pushes[p]))
        BY <1>2
  <1>7. Connected' => Connected BY <1>1 DEF Connected
  <1> HIDE DEF msg
  <1>8. CASE Enqueue(msg)
        <2>1. Line' = Append(Line, msg) /\ queue' \in Seq(ControlMsg) /\ refused' = refused
              BY <1>1, <1>2, <1>8, EnqueueFacts DEF Enqueue, ControlInv
        <2>2. ControlTypes' BY <1>1, <1>5, <2>1 DEF ControlInv, ControlTypes
        <2> QED BY <1>1, <1>2, <1>3, <1>4, <1>6, <1>7, <2>1, <2>2, LandingKeeps
  <1>9. CASE Refuse(msg)
        <2>1. Line' = Line /\ refused' = refused \union {msg} /\ queue' = queue
              BY <1>1, <1>9 DEF Refuse, Line, Hand
        <2>2. ControlTypes' BY <1>1, <1>2, <1>5, <2>1 DEF ControlInv, ControlTypes
        <2> QED BY <1>1, <1>2, <1>3, <1>4, <1>6, <1>7, <2>1, <2>2, LandingKeeps
  <1> QED BY <1>8, <1>9 DEF FindsRoom, GivesUp, msg

-------------------------------------------------------------------------------
(* The sender's steps leave the line as it is, until it fails.             *)
LEMMA TakeKeeps ==
  ASSUME ControlInv, SenderTakes
  PROVE  ControlInv'
  <1>1. /\ queue # <<>> /\ queue \in Seq(ControlMsg) /\ hand = None
        /\ hand' = Head(queue) /\ queue' = Tail(queue) /\ sender' = "writing"
        /\ UNCHANGED <<senders, pushes, waiting, refused, socket, written>>
        BY DEF SenderTakes, ControlInv, ControlTypes
  <1>2. Head(queue) \in ControlMsg /\ Tail(queue) \in Seq(ControlMsg)
        BY <1>1, HeadTailProperties
  <1>3. hand' # None BY <1>1, <1>2, MessageFacts
  <1>4. ControlTypes' BY <1>1, <1>2, <1>3 DEF ControlInv, ControlTypes
  <1>5. <<Head(queue)>> \in Seq(ControlMsg) BY <1>2, SMT
  <1>6. queue = <<Head(queue)>> \o Tail(queue)
        <2>1. /\ Len(<<Head(queue)>>) = 1 /\ <<Head(queue)>>[1] = Head(queue)
              /\ Head(queue) = queue[1]
              BY SMT
        <2>2. /\ Len(Tail(queue)) = Len(queue) - 1 /\ Len(queue) \in Nat
              /\ \A i \in 1 .. Len(Tail(queue)) : Tail(queue)[i] = queue[i + 1]
              BY <1>1, HeadTailProperties, LenProperties
        <2> DEFINE t == <<Head(queue)>> \o Tail(queue)
        <2>3. /\ t \in Seq(ControlMsg)
              /\ Len(t) = 1 + Len(Tail(queue))
              /\ \A i \in 1 .. 1 + Len(Tail(queue)) :
                   t[i] = IF i <= 1 THEN <<Head(queue)>>[i] ELSE Tail(queue)[i - 1]
              BY <1>2, <1>5, <2>1, ConcatProperties
        <2> HIDE DEF t
        <2>4. Len(t) = Len(queue) BY <2>2, <2>3, SMT
        <2>5. ASSUME NEW i \in 1 .. Len(t) PROVE t[i] = queue[i]
              <3>1. CASE i = 1
                    <4>1. i \in 1 .. 1 + Len(Tail(queue)) /\ i <= 1 BY <2>3, <3>1, SMT
                    <4> QED BY <2>1, <2>3, <3>1, <4>1
              <3>2. CASE i # 1
                    <4>1. /\ i \in 1 .. 1 + Len(Tail(queue)) /\ ~(i <= 1)
                          /\ i - 1 \in 1 .. Len(Tail(queue)) /\ (i - 1) + 1 = i
                          BY <2>2, <2>3, <3>2, SMT
                    <4>2. t[i] = Tail(queue)[i - 1] BY <2>3, <4>1
                    <4>3. Tail(queue)[i - 1] = queue[(i - 1) + 1] BY <2>2, <4>1
                    <4> QED BY <4>1, <4>2, <4>3
              <3> QED BY <3>1, <3>2
        <2>6. t = queue BY <1>1, <2>3, <2>4, <2>5, SeqEqual
        <2> QED BY <2>6 DEF t
  <1>7. Line' = Line
        <2>1. Hand = <<>> /\ Hand' = <<Head(queue)>> BY <1>1, <1>3 DEF Hand
        <2>2. written \in Seq(ControlMsg) BY DEF ControlInv, ControlTypes
        <2>3. Line = written \o queue BY <2>1, <2>2, ConcatEmptySeq DEF Line
        <2>4. Line' = (written \o <<Head(queue)>>) \o Tail(queue) BY <1>1, <2>1 DEF Line
        <2>5. Line' = written \o (<<Head(queue)>> \o Tail(queue))
              BY <1>2, <1>5, <2>2, <2>4, ConcatAssociative
        <2> QED BY <1>6, <2>3, <2>5
  <1>8. Connected' => Connected BY DEF Connected, SenderTakes
  <1> QED BY <1>1, <1>4, <1>7, <1>8, SameLineKeeps

LEMMA WriteKeeps ==
  ASSUME ControlInv, SenderWrites
  PROVE  ControlInv'
  <1>1. /\ hand # None /\ hand \in ControlMsg /\ hand' = None /\ sender' = "taking"
        /\ written \in Seq(ControlMsg) /\ queue \in Seq(ControlMsg)
        /\ written' = Append(written, hand)
        /\ UNCHANGED <<queue, senders, pushes, waiting, refused, socket>>
        BY DEF SenderWrites, ControlInv, ControlTypes
  <1>2. Append(written, hand) \in Seq(ControlMsg)
        /\ Append(written, hand) = written \o <<hand>>
        BY <1>1, AppendProperties, AppendIsConcat
  <1>3. ControlTypes' BY <1>1, <1>2 DEF ControlInv, ControlTypes
  <1>4. Hand = <<hand>> /\ Hand' = <<>> BY <1>1 DEF Hand
  <1>5. Line' = Line BY <1>1, <1>2, <1>4, ConcatEmptySeq DEF Line
  <1>6. Connected' => Connected BY DEF Connected, SenderWrites
  <1> QED BY <1>1, <1>3, <1>5, <1>6, SameLineKeeps

LEMMA FailKeeps ==
  ASSUME ControlInv, SenderFails
  PROVE  ControlInv'
  <1>1. /\ hand' = None /\ queue' = <<>> /\ sender' = "failed"
        /\ UNCHANGED <<senders, pushes, waiting, refused, socket, written>>
        BY DEF SenderFails
  <1>2. <<>> \in Seq(ControlMsg) BY EmptySeq
  <1>3. ControlTypes' BY <1>1, <1>2 DEF ControlInv, ControlTypes
  <1>4. Line' = written BY <1>1, ConcatEmptySeq DEF Line, Hand, ControlInv, ControlTypes
  <1>5. Sorted(written)
        <2>1. /\ written \in Seq(ControlMsg) /\ Hand \in Seq(ControlMsg)
              /\ queue \in Seq(ControlMsg) /\ written \o Hand \in Seq(ControlMsg)
              BY LineFacts DEF ControlInv, ControlTypes
        <2>2. Sorted((written \o Hand) \o queue) BY DEF ControlInv, Line
        <2>3. Sorted(written \o Hand) BY <2>1, <2>2, SortedPrefix
        <2> QED BY <2>1, <2>3, SortedPrefix
  <1>6. Range(written) \subseteq Range(Line) BY LineFacts DEF ControlInv
  <1>7. Known' \subseteq Known BY <1>1, <1>4, <1>6 DEF Known
  <1>8. Waiters' BY <1>1 DEF ControlInv, Waiters
  <1>9. Numbers' BY <1>1, <1>7 DEF ControlInv, Numbers
  <1>10. Accounted' BY <1>1 DEF Accounted, Connected
  <1>11. (refused \intersect Range(Line) = {})' BY <1>1, <1>4, <1>6 DEF ControlInv
  <1>12. Sorted(Line') BY <1>4, <1>5
  <1>13. Sorted(Line)' BY <1>12 DEF Sorted
  <1> QED BY <1>3, <1>8, <1>9, <1>10, <1>11, <1>13 DEF ControlInv

LEMMA OtherKeeps ==
  ASSUME ControlInv, (\E p \in Pushers : LetGo(p)) \/ SenderEnds \/ SocketChanges \/ UNCHANGED controlVars
  PROVE  ControlInv'
  <1>1. /\ UNCHANGED <<pushes, waiting, refused, hand, written>> /\ queue' = queue
        /\ sender' = sender \/ (sender = "taking" /\ sender' = "ended")
        BY DEF LetGo, SenderEnds, SocketChanges, controlVars, NothingToDo
  <1>2. ControlTypes' BY <1>1 DEF ControlInv, ControlTypes
  <1>3. Line' = Line BY <1>1 DEF Line, Hand
  <1>4. Connected' => Connected BY <1>1 DEF Connected
  <1> QED BY <1>1, <1>2, <1>3, <1>4, SameLineKeeps

LEMMA StepKeeps ==
  ASSUME ControlInv, [ControlNext]_controlVars
  PROVE  ControlInv'
  BY PushKeeps, WaitEndKeeps, TakeKeeps, WriteKeeps, FailKeeps, OtherKeeps DEF ControlNext

-------------------------------------------------------------------------------
(* The invariant holds throughout.                                         *)
THEOREM ControlInvariance == ControlSpec => []ControlInv
  BY ControlInitKeeps, StepKeeps, PTL DEF ControlSpec

(* While the sender lives every message pushed was refused, has been sent  *)
(* or is on the way; what was refused is none of these; and each pusher's  *)
(* messages keep their order.                                              *)
THEOREM NoneVanishes == ControlSpec => []NothingVanishes
  <1>1. ASSUME ControlInv PROVE NothingVanishes
        <2> USE <1>1
        <2>1. /\ Range(Line) = Range(written) \union Range(Hand) \union Range(queue)
              /\ Range(Hand) = {hand} \ {None} /\ Range(Line) \in SUBSET ControlMsg
              BY LineFacts DEF ControlInv
        <2>2. Known \subseteq ControlMsg /\ None \notin Known
              BY <2>1, MessageFacts DEF Known, ControlInv, ControlTypes
        <2>3. ASSUME Connected, NEW p \in Pushers, NEW n \in 1 .. pushes[p]
              PROVE  \E msg \in refused \union Range(written) \union OnTheWay :
                        msg # None /\ msg.from = p /\ msg.no = n
              <3>1. CASE waiting[p] # None /\ n = pushes[p]
                    BY <3>1 DEF ControlInv, Waiters, OnTheWay
              <3>2. CASE \E m \in Known : m.from = p /\ m.no = n
                    <4>1. PICK m \in Known : m.from = p /\ m.no = n BY <3>2
                    <4>2. m \in refused \union Range(written) \union OnTheWay
                          BY <2>1 DEF Known, OnTheWay
                    <4> QED BY <2>2, <4>1, <4>2
              <3> QED BY <2>3, <3>1, <3>2 DEF ControlInv, Accounted
        <2>4. ASSUME NEW m \in refused, m \in Range(written) \union OnTheWay
              PROVE  FALSE
              <3>1. m \in Known /\ m # None BY <2>2 DEF Known
              <3>2. m \notin Range(Line) BY DEF ControlInv
              <3>3. PICK q \in Pushers : m = waiting[q]
                    BY <2>1, <2>4, <3>1, <3>2 DEF OnTheWay
              <3>4. m.from = q /\ m.no = pushes[q] BY <3>1, <3>3 DEF ControlInv, Waiters
              <3>5. m.no < pushes[q] BY <3>1, <3>3, <3>4 DEF ControlInv, Numbers
              <3>6. m.no \in Int BY <2>2, <3>1, MessageFacts
              <3> QED BY <3>4, <3>5, <3>6, SMT
        <2>5. Sorted(written \o (IF hand = None THEN <<>> ELSE <<hand>>) \o queue)
              BY DEF ControlInv, Line, Hand
        <2> QED BY <2>3, <2>4, <2>5 DEF NothingVanishes, Sorted
  <1> QED BY <1>1, ControlInvariance, PTL
================================================================================
