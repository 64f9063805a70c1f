-------------------------------- MODULE Input --------------------------------
(***************************************************************************)
(* What becomes of a key and of the mouse (input/slint_input/,             *)
(* input/uhid/).  Every event of the window is handled twice: by the       *)
(* handler of raw winit events (Uhid), which sends HID reports, and then   *)
(* by the translator of Slint events (SlintInput), which sends key codes,  *)
(* text, touches and commands.  Uhid lives as long as the program; a       *)
(* session attaches devices to it and takes them away again.  SlintInput   *)
(* lives as long as the session.                                           *)
(*                                                                         *)
(* Both keep their own record of what is held.  The device is told of      *)
(* changes by one of them, so a release that one of them misses, or sends  *)
(* by another road than the press, leaves a key held on the phone.         *)
(*                                                                         *)
(* Abstractions: a key is a letter or a modifier; the shortcut modifier is *)
(* Alt, which is also the key that gives the pointer back.  One mouse      *)
(* button of five (their bits are independent).  Where on the screen a     *)
(* touch lands is left out, as is the repeat count.  A message pushed is   *)
(* one sent: what becomes of a refused one is the subject of module        *)
(* Controller.  A report over the cable is one taken, too.                 *)
(***************************************************************************)
EXTENDS FiniteSets

CONSTANTS
  Letters,    \* the printable keys of this keyboard
  Modifiers,  \* and the others
  Modes,      \* the options sessions are started with
  NoSession   \* the value of mode when no session runs

Keys == Letters \cup Modifiers
CaptureKeys == {"alt"}
NoKey == "none"

Devices == {"keyboard", "mouse"}

(* Under --otg there is no socket, so whatever is wanted goes by the cable. *)
AsOtg(m) == [d \in DOMAIN m |-> CASE d \in Devices /\ m[d] # "disabled" -> "aoa"
                                  [] d = "control" -> FALSE
                                  [] OTHER -> m[d]]

(* The options that matter here: how keys and pointer travel, whether there *)
(* is a control channel, what is mirrored, the key inject mode, whether a   *)
(* held key keeps reaching the device, and whether there is nothing but the *)
(* cable (--otg).                                                           *)
ASSUME InputAssumption ==
  /\ Letters \subseteq {"v", "h", "q", "t"}
  /\ Modifiers \subseteq {"alt", "ctrl", "shift"}
  /\ Modes \subseteq
       [keyboard : {"sdk", "uhid", "aoa", "disabled"},
        mouse : {"sdk", "uhid", "aoa", "disabled"}, control : BOOLEAN,
        camera : BOOLEAN, inject : {"mixed", "text", "raw"}, repeats : BOOLEAN,
        otg : BOOLEAN]
  /\ NoSession \notin Modes \cup {AsOtg(m) : m \in Modes}

(* What SlintInput makes of a key that is for the device.                   *)
Messages == {"down", "up", "text", "command", "torch"}

(* What the server takes while it mirrors a camera.                         *)
CameraTakes == {"torch"}

VARIABLES
  down, button, focus,            \* keys and button held, the window's focus
  missed,                         \* letters let go where the window did not see it
  mode,                           \* the session's options, or NoSession
  held, sentDown, vfinger,        \* SlintInput
  keyboard, mouse,                \* Uhid: what is attached
  usb,                            \* AoaHid: what is registered, and what the phone
                                  \* believes to be plugged into it
  hidKeys, modifiers, deviceModifiers, buttons,
  captured, captureApplied, captureKey,
  devCodes, devTouch,             \* the device: keys and fingers injected down
  devMods, devButton,             \* the device: bytes of the last HID reports
  clean                           \* the session began with nothing held

world == <<down, button, focus, missed>>
slint == <<held, sentDown, vfinger>>
record == <<modifiers, deviceModifiers, buttons, captureKey>>
device == <<devCodes, devTouch, devMods, devButton>>
vars == <<world, mode, slint, keyboard, mouse, usb, hidKeys, record, captured,
          captureApplied, device, clean>>

Nothing == [registered |-> {}, plugged |-> {}]

TypeOK ==
  /\ down \subseteq Keys /\ missed \subseteq Letters
  /\ {button, focus, vfinger, keyboard, mouse, buttons, captured,
      captureApplied, devButton, clean} \subseteq BOOLEAN
  /\ mode = NoSession \/ mode \in Modes \/ \E m \in Modes : mode = AsOtg(m)
  /\ usb \in [registered : SUBSET Devices, plugged : SUBSET Devices]
  /\ held \subseteq Letters \X BOOLEAN
  /\ sentDown \subseteq Letters /\ devCodes \subseteq Letters
  /\ hidKeys \subseteq Letters
  /\ modifiers \subseteq Modifiers
  /\ deviceModifiers \subseteq modifiers
  /\ devMods \subseteq Modifiers
  /\ captureKey \in CaptureKeys \cup {NoKey}
  /\ devTouch \subseteq {"mouse", "finger"}

Init ==
  /\ down = {} /\ button = FALSE /\ focus = TRUE /\ missed = {}
  /\ mode = NoSession
  /\ held = {} /\ sentDown = {} /\ vfinger = FALSE
  /\ keyboard = FALSE /\ mouse = FALSE /\ usb = Nothing
  /\ hidKeys = {} /\ modifiers = {} /\ deviceModifiers = {} /\ buttons = FALSE
  /\ captured = FALSE /\ captureApplied = FALSE /\ captureKey = NoKey
  /\ devCodes = {} /\ devTouch = {} /\ devMods = {} /\ devButton = FALSE
  /\ clean = TRUE

Running == mode # NoSession
Translating == Running /\ ~mode.otg   \* there is a SlintInput
-----------------------------------------------------------------------------
(* Uhid: the raw events.                                                    *)

HasSomewhereToSend == keyboard \/ mouse
Pointing == mouse /\ captured
ShortcutHeld(mods) == "alt" \in mods

ModifiersAfter(k, pressed) ==
  IF pressed THEN modifiers \cup ({k} \cap Modifiers) ELSE modifiers \ {k}

(* mutant: the releases are withheld like the presses *)
OnKeySwallows(k, pressed) ==
  keyboard /\ ~ShortcutHeld(ModifiersAfter(k, pressed))

(* A press under the shortcut modifier stays here, a release never does.    *)
OnKeySends(k, pressed) ==
  keyboard /\ ~(pressed /\ ShortcutHeld(ModifiersAfter(k, pressed)))

CaptureToggled(k, pressed) == mouse /\ ~pressed /\ captureKey = k

ReleaseButtons ==
  /\ buttons' = FALSE
  /\ devButton' = (devButton /\ ~(buttons /\ mouse))

(* What is pressed or released with nothing in between hands the pointer    *)
(* over; what was held goes with it.                                        *)
TrackCapture(k, pressed) ==
  /\ captureKey' = IF ~mouse THEN captureKey
                   ELSE IF pressed /\ k \in CaptureKeys THEN k ELSE NoKey
  /\ captured' = (captured # CaptureToggled(k, pressed))
  /\ IF CaptureToggled(k, pressed) /\ captured
     THEN ReleaseButtons
     ELSE UNCHANGED <<buttons, devButton>>

OnKey(k, pressed) ==
  /\ modifiers' = ModifiersAfter(k, pressed)
  /\ deviceModifiers' =
       IF OnKeySends(k, pressed) /\ pressed
       THEN deviceModifiers \cup ({k} \cap Modifiers)
       ELSE IF pressed THEN deviceModifiers ELSE deviceModifiers \ {k}

ReportFor(k, pressed) ==
  /\ hidKeys' = IF ~OnKeySends(k, pressed) THEN hidKeys
                ELSE IF pressed THEN hidKeys \cup ({k} \cap Letters)
                ELSE hidKeys \ {k}
  /\ devMods' = IF OnKeySends(k, pressed) THEN deviceModifiers' ELSE devMods

(* The capture owed to the window is paid first, attached or not.           *)
HidKey(k, pressed) ==
  /\ IF HasSomewhereToSend
     THEN TrackCapture(k, pressed) /\ OnKey(k, pressed) /\ ReportFor(k, pressed)
     ELSE UNCHANGED <<captured, record, devButton, hidKeys, devMods>>
  /\ captureApplied' = captured'

HidButton(pressed) ==
  /\ captureApplied' = captured
  /\ buttons' = IF HasSomewhereToSend THEN pressed ELSE buttons
  /\ devButton' = IF Pointing THEN pressed ELSE devButton
-----------------------------------------------------------------------------
(* SlintInput: the keys as characters.                                      *)

Char(k) == <<k, "shift" \in down>>
ModHeld == "alt" \in down
IsRepeat(k) == Char(k) \in held

(* Letters travel as keycodes in mixed and in raw mode alike.               *)
KeycodeFor(k) == mode.inject # "text"
MineUnlessHid == mode.camera     \* mutant: the HID keyboard is forgotten
Mine == mode.camera \/ keyboard  \* keys do not take this road

(* What a shortcut comes to: a message, or something the window does.       *)
ShortcutFor == [k \in {"v", "h", "q", "t"} |->
  CASE k = "t" -> "torch" [] k = "q" -> "quit" [] OTHER -> "command"]

Pastes(k) ==
  k = "v" /\ "ctrl" \in down /\ ~ModHeld /\ ~Mine /\ ~IsRepeat(k)
RunsShortcut(k) == k \in Letters /\ ModHeld /\ ~IsRepeat(k)
Types(k) ==
  /\ k \in Letters /\ ~ModHeld /\ ~Mine /\ ~Pastes(k)
  /\ IsRepeat(k) => mode.repeats
Quits(k) == Translating /\ RunsShortcut(k) /\ ShortcutFor[k] = "quit"

KeyDownSends(k) ==
  {s \in Messages :
     /\ Running /\ mode.control
     /\ \/ s = "text" /\ Pastes(k)
        \/ s = "text" /\ Types(k) /\ ~KeycodeFor(k) /\ mode.inject # "raw" /\ ~IsRepeat(k)
        \/ s = "down" /\ Types(k) /\ KeycodeFor(k)
        \/ /\ RunsShortcut(k)
           /\ s = ShortcutFor[k]
           /\ mode.camera => s \in CameraTakes}

(* mutant: the shortcut modifier decides, not what was sent *)
KeyUpUnlessMod(k) ==
  {s \in {"up"} : Running /\ mode.control /\ ~Mine /\ ~ModHeld /\ KeycodeFor(k)}

KeyUpSends(k) ==
  {s \in {"up"} : Running /\ mode.control /\ ~Mine /\ k \in sentDown /\ KeycodeFor(k)}

SlintKeyDown(k) ==
  /\ held' = IF Translating /\ k \in Letters THEN held \cup {Char(k)} ELSE held
  /\ sentDown' = IF "down" \in KeyDownSends(k) THEN sentDown \cup {k} ELSE sentDown
  /\ devCodes' = IF "down" \in KeyDownSends(k) THEN devCodes \cup {k} ELSE devCodes

SlintKeyUp(k) ==
  /\ held' = held \ {Char(k)}
  /\ sentDown' = IF "up" \in KeyUpSends(k) THEN sentDown \ {k} ELSE sentDown
  /\ devCodes' = IF "up" \in KeyUpSends(k) THEN devCodes \ {k} ELSE devCodes
-----------------------------------------------------------------------------
(* The pointer.                                                             *)

Touches == Running /\ mode.control /\ ~mode.camera /\ ~mouse

PointerDown ==
  LET second == {"ctrl", "shift"} \cap down # {}
  IN /\ vfinger' = (vfinger \/ (Touches /\ second))
     /\ devTouch' = IF ~Touches THEN devTouch
                    ELSE devTouch \cup {"mouse"} \cup {f \in {"finger"} : second}

PointerUp ==
  /\ vfinger' = (vfinger /\ ~Touches)
  /\ devTouch' = IF ~Touches THEN devTouch
                 ELSE devTouch \ ({"mouse"} \cup {f \in {"finger"} : vfinger})
-----------------------------------------------------------------------------
(* Sessions.                                                                *)

(* What is on the books is destroyed by the road it has, and the end of the *)
(* USB connection gives back whatever was registered and is not.            *)
Detach ==
  /\ keyboard' = FALSE /\ mouse' = FALSE /\ captured' = FALSE
  /\ usb' = [registered |-> {}, plugged |-> usb.plugged \ usb.registered]

(* The session ends: what it injected goes with the server, what was        *)
(* attached is destroyed, the record of what is held stays as it is.        *)
EndSession ==
  /\ mode' = NoSession
  /\ Detach
  /\ held' = {} /\ sentDown' = {} /\ vfinger' = FALSE
  /\ hidKeys' = {} /\ devCodes' = {} /\ devTouch' = {}
  /\ devMods' = {} /\ devButton' = FALSE
  /\ missed' = {} /\ clean' = TRUE

(* A session starts.  What is wanted by cable goes by socket if the phone   *)
(* has no cable or will not have it as one.  Either road may refuse, and    *)
(* then the ordinary one is used: the queue to take the creation, the phone *)
(* the registration, or the description of what it has just registered.     *)
Wanted(m, road) == {d \in Devices : m[d] = road}

Registered(taken) == [registered |-> taken, plugged |-> taken]

Attach(m) ==
  \E cable \in BOOLEAN :
  LET byUsb == IF cable THEN Wanted(m, "aoa") ELSE {}
      bySocket == Wanted(m, "uhid") \cup (Wanted(m, "aoa") \ byUsb)
  IN \E taken \in SUBSET byUsb, queued \in SUBSET IF m.control THEN bySocket ELSE {} :
     \E described \in SUBSET taken :
       /\ usb' = Registered(taken)
       /\ keyboard' = ("keyboard" \in described \cup queued)
       /\ mouse' = ("mouse" \in described \cup queued)
       /\ captured' = (captured \/ mouse')

Start(m) ==
  /\ ~Running /\ usb = Nothing /\ ~m.otg
  /\ mode' = m
  /\ IF m.control THEN Attach(m) ELSE UNCHANGED <<keyboard, mouse, usb, captured>>
  /\ clean' = (down = {} /\ ~button /\ modifiers = {} /\ ~buttons)
  /\ UNCHANGED <<world, slint, hidKeys, record, captureApplied, device>>

(* run_otg: there must be something to attach, and something attached, or   *)
(* the program is over: it leaves what it has registered as it is, and      *)
(* nothing starts any more.  A session is all its program does; that others *)
(* may follow here allows more.                                             *)
StartOtg(m) ==
  /\ ~Running /\ usb = Nothing /\ m.otg
  /\ m.keyboard # "disabled" \/ m.mouse # "disabled"
  /\ Attach(AsOtg(m))
  /\ mode' = IF keyboard' \/ mouse' THEN AsOtg(m) ELSE NoSession
  /\ clean' = (down = {} /\ ~button /\ modifiers = {} /\ ~buttons)
  /\ UNCHANGED <<world, slint, hidKeys, record, captureApplied, device>>

Stop ==
  /\ Running
  /\ EndSession
  /\ UNCHANGED <<down, button, focus, record, captureApplied>>
-----------------------------------------------------------------------------
(* The events.                                                              *)

(* MOD+q ends the session from inside the key's own handler.                *)
QuitByKey(k) ==
  /\ captureKey' = IF mouse THEN NoKey ELSE captureKey
  /\ captureApplied' = captured
  /\ EndSession
  /\ UNCHANGED <<modifiers, deviceModifiers, buttons>>

KeyDown(k) ==
  /\ focus /\ k \notin down
  /\ down' = down \cup {k}
  /\ UNCHANGED <<button, focus>>
  /\ \/ Quits(k) /\ QuitByKey(k)
     \/ /\ ~Quits(k)
        /\ HidKey(k, TRUE)
        /\ SlintKeyDown(k)
        /\ missed' = missed \ {k}
        /\ UNCHANGED <<mode, keyboard, mouse, usb, vfinger, devTouch, clean>>

(* The keyboard repeats a held key.  Uhid lets it pass; Slint's winit       *)
(* backend reports it as a press like any other.                            *)
KeyRepeat(k) ==
  /\ focus /\ k \in down \cap Letters
  /\ UNCHANGED <<down, button, focus>>
  /\ \/ Quits(k) /\ captureApplied' = captured /\ EndSession /\ UNCHANGED record
     \/ /\ ~Quits(k)
        /\ captureApplied' = captured
        /\ SlintKeyDown(k)
        /\ UNCHANGED <<missed, mode, keyboard, mouse, usb, vfinger, hidKeys, record,
                       captured, devTouch, devMods, devButton, clean>>

KeyUp(k) ==
  /\ focus /\ k \in down
  /\ down' = down \ {k}
  /\ HidKey(k, FALSE)
  /\ SlintKeyUp(k)
  /\ UNCHANGED <<button, focus, missed, mode, keyboard, mouse, usb, vfinger, devTouch, clean>>

ButtonDown ==
  /\ focus /\ ~button /\ button' = TRUE
  /\ HidButton(TRUE)
  /\ PointerDown
  /\ UNCHANGED <<down, focus, missed, mode, held, sentDown, keyboard, mouse, usb, hidKeys,
                 modifiers, deviceModifiers, captured, captureKey, devCodes, devMods, clean>>

(* The window that saw the press sees the release, focus or not.            *)
ButtonUp ==
  /\ button /\ button' = FALSE
  /\ HidButton(FALSE)
  /\ PointerUp
  /\ UNCHANGED <<down, focus, missed, mode, held, sentDown, keyboard, mouse, usb, hidKeys,
                 modifiers, deviceModifiers, captured, captureKey, devCodes, devMods, clean>>

(* A secondary button under --mouse-bind: a click of its own, which ends a  *)
(* drag, or a command.                                                      *)
SecondaryClick ==
  /\ Touches /\ focus
  /\ \/ devTouch' = devTouch \ {"mouse"}
     \/ UNCHANGED devTouch
  /\ captureApplied' = captured
  /\ UNCHANGED <<world, mode, slint, keyboard, mouse, usb, hidKeys, record, captured,
                 devCodes, devMods, devButton, clean>>

(* Relative motion, or the wheel: both reports carry the buttons.  (That    *)
(* the wheel is also an event of the window is WindowEvent.)                *)
Motion ==
  /\ Pointing
  /\ devButton' = buttons
  /\ UNCHANGED <<world, mode, slint, keyboard, mouse, usb, hidKeys, record, captured,
                 captureApplied, devCodes, devTouch, devMods, clean>>

(* mutant: nothing is done for the window once nothing is attached *)
WindowEventBehindGuard ==
  /\ captureApplied' = IF HasSomewhereToSend THEN captured ELSE captureApplied
  /\ UNCHANGED <<world, mode, slint, keyboard, mouse, usb, hidKeys, record, captured, device,
                 clean>>

(* Any other event of the window, the pointer's way across it among them.   *)
WindowEvent ==
  /\ captureApplied' = captured
  /\ UNCHANGED <<world, mode, slint, keyboard, mouse, usb, hidKeys, record, captured, device,
                 clean>>

(* The focus goes, and the releases of what is held go with it.             *)
FocusLost ==
  /\ focus /\ focus' = FALSE
  /\ missed' = IF Running THEN missed \cup (down \cap Letters) ELSE missed
  /\ down' = {}
  /\ captured' = FALSE /\ captureApplied' = FALSE
  /\ IF HasSomewhereToSend
     THEN /\ modifiers' = {} /\ deviceModifiers' = {} /\ hidKeys' = {}
          /\ devMods' = IF keyboard THEN {} ELSE devMods
          /\ ReleaseButtons
     ELSE UNCHANGED <<modifiers, deviceModifiers, hidKeys, buttons, devMods, devButton>>
  /\ UNCHANGED <<button, mode, slint, keyboard, mouse, usb, captureKey, devCodes, devTouch, clean>>

(* It comes back with no key held.                                          *)
FocusGained ==
  /\ ~focus /\ focus' = TRUE
  /\ captureApplied' = captured
  /\ UNCHANGED <<down, button, missed, mode, slint, keyboard, mouse, usb, hidKeys, record,
                 captured, device, clean>>

Next ==
  \/ \E m \in Modes : Start(m) \/ StartOtg(m)
  \/ Stop
  \/ \E k \in Keys : KeyDown(k) \/ KeyRepeat(k) \/ KeyUp(k)
  \/ ButtonDown \/ ButtonUp \/ SecondaryClick \/ Motion
  \/ WindowEvent \/ FocusLost \/ FocusGained

(* The window is given events for as long as it is open: it is redrawn.     *)
Fairness == WF_vars(WindowEvent)

Spec == Init /\ [][Next]_vars /\ Fairness
-----------------------------------------------------------------------------
(* What the device holds is held: a key injected or reported down is a key  *)
(* still down, or one whose release the window never saw, and the same of   *)
(* modifiers and buttons in the HID reports and of fingers on the glass.    *)
(* For sessions begun with nothing held: a session that ends while the      *)
(* shortcut modifier is down leaves it on the books (events.rs, detach).    *)
(* And what the phone believes to be at the end of its cable is registered  *)
(* here, and so nothing once a session has ended: one whose registration    *)
(* failed half way included (aoa_hid.rs, register and Drop).                *)
NothingIsLeftHeld ==
  /\ TypeOK
  /\ devCodes \subseteq down \cup missed
  /\ hidKeys \subseteq down
  /\ devTouch # {} => button
  /\ clean => devMods \subseteq down /\ (devButton => button)
  /\ usb.plugged \subseteq usb.registered

(* A press reaches the device by one road at most: what SlintInput makes of *)
(* it, text, key code or command, is never also a HID report.  There are    *)
(* HID reports only of what the options asked for, whatever else is         *)
(* attached, falls back or comes and goes.  A camera's server is sent none  *)
(* of the keys but the torch's, HID devices or not, and no touch: anything  *)
(* else ends its control channel.                                           *)
AskedFor(d) == mode[d] \in {"uhid", "aoa"}

OneRoad ==
  /\ clean /\ focus => \A k \in Keys \ down :
       ~(OnKeySends(k, TRUE) /\ KeyDownSends(k) # {})
  /\ HasSomewhereToSend => Running
  /\ keyboard => AskedFor("keyboard")
  /\ mouse => AskedFor("mouse")
  /\ Running /\ mode.camera =>
       /\ \A k \in Keys : KeyDownSends(k) \cup KeyUpSends(k) \subseteq CameraTakes
       /\ devTouch = {} /\ devCodes = {}

(* Only what the device was told went down is told to come up.              *)
OnlyWhatWentDownComesUp ==
  \A k \in down : "up" \in KeyUpSends(k) => k \in devCodes

(* A pointer that is nobody's is let go: once it has been given back, or    *)
(* the session has ended, the window releases its grab.                     *)
GrabIsGivenBack == ~captured ~> (captured \/ ~captureApplied)
=============================================================================
