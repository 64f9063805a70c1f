------------------------------ MODULE PanelForm ------------------------------
(***************************************************************************)
(* The panel's form, the bar under it, and the two files of the panel      *)
(* (panel/mod.rs, wiring.rs, config.rs, session_run.rs).  Everything that  *)
(* writes to the form recomputes the bar; a start reads the form again and *)
(* hands each ticked device a client of its own.  The profiles and the     *)
(* settings are read when the panel starts and written whole at every      *)
(* change of them; a write may fail or be cut, and the user may edit the   *)
(* files between two starts.                                               *)
(*                                                                         *)
(* What a flag is and what a client makes of it is module CommandLine; the *)
(* scans, the ticks' rows and which card a save writes are PanelDevices.   *)
(* Of the settings the recording folder is kept.                           *)
(***************************************************************************)
EXTENDS CommandLine, SequencesExt, FiniteSetsExt

CONSTANTS
  Devices,      \* the devices that may be ticked
  Typed,        \* the texts tried in each control: a function from controls
  Together,     \* bound: the sets of controls edited at once, with no file written yet
  Beside,       \* bound: those edited at once with the files written and whole
  Few,          \* bound: those edited whatever the files are, and on a card
  Folders,      \* the recording folders of the settings
  MaxCards      \* bound on the profiles

(* A text a user types is not the mark of an option nobody gave, and a       *)
(* device has a serial; the direction of the clipboard is one of a list's.   *)
(* expand_bit_rate leaves a number as it is and writes the defaults as the   *)
(* options do, bit_rate takes what it writes where it takes what it read,    *)
(* and port_range_parsed reads the default as what it is.                    *)
NoDevice == "whichever"
ASSUME FormAssumption ==
  /\ DOMAIN Typed \subseteq Texts
  /\ \A c \in DOMAIN Typed : NotGiven \notin Typed[c]
  /\ "clipboard_direction" \in DOMAIN Typed =>
       Typed["clipboard_direction"] \subseteq {"", "both", "toDevice", "toPc"}
  /\ {"", NotGiven, NoDevice} \cap Devices = {}
  /\ Rewritten("8M", Expanded) = "8000000" /\ Rewritten("128K", Expanded) = "128000"
  /\ \A text \in DOMAIN Expanded :
       /\ Rewritten(Expanded[text], Expanded) = Expanded[text]
       /\ text \in Fits.bits <=> Expanded[text] \in Fits.bits
  /\ "" \notin DOMAIN Ranges /\ Rewritten("27183:27199", Ranges) = "27183:27199"

VARIABLES
  config,       \* Cfg
  ticked,       \* Panel::selected
  shown,        \* App.command
  memory,       \* Panel::profiles and Settings
  disk,         \* profiles.json and settings.json: [is, holds]
  unmoved,      \* the files that could not be read nor moved aside, which was said
  torn,         \* the files whose last write failed
  up            \* the panel runs

formVars == <<config, ticked, shown, memory, disk, unmoved, torn, up>>

Files == {"profiles", "settings"}
Nothing == [profiles |-> << >>, settings |-> ""]
NoFile(f) == [is |-> "none", holds |-> Nothing[f]]
Whole(content) == [is |-> "whole", holds |-> content]
Broken(f) == [is |-> "broken", holds |-> Nothing[f]]      \* is not JSON
NoText(f) == [is |-> "no text", holds |-> Nothing[f]]     \* is not even text

Edited(some) ==
  {c \in Texts : some.text[c] # DefaultText[c]}
    \cup ((some.on \ DefaultForm.on) \cup (DefaultForm.on \ some.on))
Untouched == [f \in Files |-> NoFile(f)]

-----------------------------------------------------------------------------
(* refresh_command: the bar is made of the form and the ticked devices.      *)
Refreshed_Unticked(some, serials) == ToCommandLineFor(some, << >>)
Refreshed(some, serials) == ToCommandLineFor(some, serials)

Fill(some, serials) ==
  /\ config' = some
  /\ ticked' = serials
  /\ shown' = Refreshed(some, serials)

FirstTicked(serials) == IF serials = << >> THEN "" ELSE serials[1]
WithSerial(some, serials) == [some EXCEPT !.text.serial = FirstTicked(serials)]

(* record_path_for: a bare name goes into the recording folder.              *)
RecordPathFor(typed, folder) ==
  LET path == Rewritten(typed, Tilde) IN
  IF path = "" \/ path \notin BareNames \/ folder = "" THEN path ELSE folder \o "/" \o path

LaunchConfig(some, folder) ==
  IF "record_enabled" \in some.on
  THEN [some EXCEPT !.text.record_path = RecordPathFor(@, Rewritten(folder, Tilde))]
  ELSE some

(* start_windowed: one client per device, and one file each.                 *)
ForDevice(flags, device) ==
  Retagged({f \in flags : f.flag # "serial"}, device) \cup {Flag("serial", device, "loop")}

(* start_session: the flags of the clients, by the device they are for.      *)
Covered(serials) == IF Len(serials) < 2 THEN {NoDevice} ELSE ToSet(serials)
Launched(some, serials, folder) ==
  LET flags == ToClientArgs(LaunchConfig(some, folder)) IN
  IF ~Parses(flags) THEN << >>
  ELSE [d \in Covered(serials) |-> IF d = NoDevice THEN flags ELSE ForDevice(flags, d)]

-----------------------------------------------------------------------------
(* The files.  A file that will not parse is moved aside; one that cannot be *)
(* read as text is taken for none.                                           *)
Aside_Not(f) == disk[f]
Aside(f) == NoFile(f)

Read(f) == IF disk[f].is = "whole" THEN disk[f].holds ELSE Nothing[f]

Load == \E stuck \in SUBSET {f \in Files : disk[f].is = "broken"} :
  /\ memory' = [f \in Files |-> Read(f)]
  /\ unmoved' = stuck
  /\ disk' = [f \in Files |-> IF disk[f].is = "broken" /\ f \notin stuck THEN Aside(f)
                             ELSE disk[f]]

(* save_profiles, save_settings: std::fs::write empties the file first.      *)
Save(f, content) ==
  /\ memory' = [memory EXCEPT ![f] = content]
  /\ \/ disk' = [disk EXCEPT ![f] = Whole(content)] /\ torn' = torn \ {f}
     \/ disk' = [disk EXCEPT ![f] = Broken(f)] /\ torn' = torn \cup {f}
     \/ torn' = torn \cup {f} /\ UNCHANGED disk
  /\ UNCHANGED unmoved

KeepFiles == UNCHANGED <<memory, disk, unmoved, torn>>

-----------------------------------------------------------------------------
FormInit ==
  /\ config = DefaultForm
  /\ ticked = << >>
  /\ shown = Refreshed(DefaultForm, << >>)
  /\ memory = Nothing
  /\ disk = Untouched
  /\ unmoved = {}
  /\ torn = {}
  /\ up = TRUE

(* Bound: all the controls are tried while there is no file, some of them    *)
(* while the files are at rest, and few while a file is broken.              *)
FilesAtRest == torn = {} /\ unmoved = {} /\ \A f \in Files : disk[f].is \in {"none", "whole"}
Bounds ==
  {Few} \cup (IF FilesAtRest THEN {Beside} ELSE {})
    \cup (IF disk = Untouched /\ torn = {} THEN Together ELSE {})
Tried(some) == \E controls \in Bounds : Edited(some) \subseteq controls
Editable == UNION {controls \in Bounds : Edited(config) \subseteq controls}

(* A control is edited: Cfg.changed.  The switch of section 07 for the       *)
(* orientation writes the two it is the shorthand of as well.                *)
EditText == \E c \in DOMAIN Typed \cap Editable : \E text \in Typed[c] \cup {DefaultText[c]} :
  /\ up
  /\ Fill([config EXCEPT !.text[c] = text], ticked)
  /\ UNCHANGED up
  /\ KeepFiles

PickOrientation == \E degrees \in Quarters :
  LET some == [config EXCEPT !.text.orientation = degrees,
                           !.text.display_orientation = degrees,
                           !.text.record_orientation = degrees] IN
  /\ up
  /\ Tried(some)
  /\ Fill(some, ticked)
  /\ UNCHANGED up
  /\ KeepFiles

Flip == \E s \in Switches \cap Editable :
  /\ up
  /\ Fill([config EXCEPT !.on = SymDiff(@, {s})], ticked)
  /\ UNCHANGED up
  /\ KeepFiles

(* The recording switch of the session tab names the file if nobody did.     *)
ToggleRecording ==
  LET flipped == [config EXCEPT !.on = SymDiff(@, {"record_enabled"})]
      some == IF "record_enabled" \in flipped.on /\ flipped.text.record_path = ""
              THEN [flipped EXCEPT !.text.record_path = "scrcpy.mp4"] ELSE flipped IN
  /\ up
  /\ Tried(some)
  /\ Fill(some, ticked)
  /\ UNCHANGED up
  /\ KeepFiles

(* apply_selection, from the rows of the devices or from a scan.             *)
Tick == \E serials \in {s \in SeqOf(Devices, 2) : IsInjective(s)} :
  LET some == WithSerial(config, serials) IN
  /\ up
  /\ Tried(some)
  /\ Fill(some, serials)
  /\ UNCHANGED up
  /\ KeepFiles

ResetForm ==
  /\ up
  /\ Fill(WithSerial(DefaultForm, ticked), ticked)
  /\ UNCHANGED up
  /\ KeepFiles

(* A card is applied or opened for editing.                                  *)
ApplyCard == \E card \in ToSet(memory.profiles) :
  /\ up
  /\ Fill(WithSerial(card, ticked), ticked)
  /\ UNCHANGED up
  /\ KeepFiles

(* A save adds a card or writes one; which one is module PanelDevices.       *)
WithCard(cards, some) ==
  {Append(cards, some)} \cup {ReplaceAt(cards, i, some) : i \in DOMAIN cards}
SaveCard == \E cards \in WithCard(memory.profiles, config) :
  /\ up
  /\ Edited(config) \subseteq Few
  /\ Len(cards) <= MaxCards
  /\ Save("profiles", cards)
  /\ UNCHANGED <<config, ticked, shown, up>>

DeleteCard == \E i \in DOMAIN memory.profiles :
  /\ up
  /\ Edited(config) \subseteq Few
  /\ Save("profiles", RemoveAt(memory.profiles, i))
  /\ UNCHANGED <<config, ticked, shown, up>>

ChangeSettings == \E folder \in Folders :
  /\ up
  /\ Edited(config) \subseteq Few
  /\ Save("settings", folder)
  /\ UNCHANGED <<config, ticked, shown, up>>

(* The panel is left, or killed while it writes.                             *)
Quit ==
  /\ up
  /\ Edited(config) \subseteq Few
  /\ up' = FALSE
  /\ Fill(DefaultForm, << >>)
  /\ memory' = Nothing
  /\ unmoved' = {}
  /\ UNCHANGED <<disk, torn>>

Killed == \E f \in Files :
  /\ up
  /\ Edited(config) \subseteq Few
  /\ disk' = [disk EXCEPT ![f] = Broken(f)]
  /\ up' = FALSE
  /\ Fill(DefaultForm, << >>)
  /\ memory' = Nothing
  /\ unmoved' = {}
  /\ torn' = torn \cup {f}

(* The user edits the files with the panel closed.                           *)
EditedByHand == \E f \in Files : \E text \in {Broken(f), NoText(f), NoFile(f)} :
  /\ ~up
  /\ disk' = [disk EXCEPT ![f] = text]
  /\ torn' = torn \ {f}
  /\ UNCHANGED <<config, ticked, shown, memory, unmoved, up>>

Run ==
  /\ ~up
  /\ up' = TRUE
  /\ Load
  /\ torn' = {}
  /\ UNCHANGED <<config, ticked, shown>>

TheForm == EditText \/ PickOrientation \/ Flip \/ ToggleRecording \/ Tick \/ ResetForm
           \/ ApplyCard
TheFiles == SaveCard \/ DeleteCard \/ ChangeSettings \/ Quit \/ Killed \/ EditedByHand \/ Run

FormNext == TheForm \/ TheFiles

FormSpec == FormInit /\ [][FormNext]_formVars

-----------------------------------------------------------------------------
(* What a session is asked to do, read off the controls, one by one: an      *)
(* empty box is the default, a switch is what its label says.                *)
Said(some, c, default) == IF some.text[c] = "" THEN default ELSE some.text[c]
Is(some, s) == Bool(s \in some.on)
IsNot(some, s) == Bool(s \notin some.on)
Rate(some, c) == Rewritten(Said(some, c, DefaultText[c]), Expanded)

ForItself == {
  "video_buffer", "audio_buffer", "audio_output_buffer", "time_limit", "keyboard",
  "mouse", "gamepad", "shortcut_mod", "start_app", "window_title", "window_x",
  "window_y", "window_width", "window_height", "tunnel_host", "tunnel_port"}
SwitchesForItself == {
  "print_fps", "legacy_paste", "fullscreen", "always_on_top", "window_borderless",
  "turn_screen_off", "disable_screensaver", "force_adb_forward", "kill_adb_on_close"}

(* "any" is whichever device is the only one.                                *)
AskedDevice(some, device) ==
  CASE device # NoDevice -> device
    [] device = NoDevice /\ Reached(some) -> some.text.tcpip_addr
    [] device = NoDevice /\ ~Reached(some) /\ some.text.serial # "" -> some.text.serial
    [] OTHER -> IF Is(some, "select_usb") = Is(some, "select_tcpip") THEN "any"
                ELSE IF "select_usb" \in some.on THEN "usb" ELSE "tcpip"

AskedFile(some, device, path) ==
  IF "record_enabled" \notin some.on \/ path = "" THEN NotGiven
  ELSE TagFileName(TagFileName(path, IF "record_timestamp" \in some.on THEN "stamp" ELSE ""),
                   IF device = NoDevice THEN "" ELSE device)

(* What a client is asked for its own part,                                  *)
AskedOfClient(some, device, path) == [
  device |-> AskedDevice(some, device),
  record |-> AskedFile(some, device, path),
  record_rotation |-> Said(some, "record_orientation", "0"),
  display_rotation |-> Said(some, "display_orientation", "0"),
  picture |-> {"no_video", "no_video_playback", "no_playback"} \cap some.on = {},
  sound |-> {"no_audio", "no_audio_playback", "no_playback"} \cap some.on = {},
  key_inject |-> IF "raw_key_events" \in some.on THEN "raw"
                 ELSE IF "prefer_text" \in some.on THEN "text" ELSE "mixed",
  mouse_bind |-> IF "forward_all_clicks" \in some.on THEN "++++"
                 ELSE IF "mouse_bind_enabled" \in some.on
                      THEN Said(some, "mouse_bind", NotGiven) ELSE NotGiven,
  ports |-> IF some.text.port \in DOMAIN Ranges THEN Ranges[some.text.port]
            ELSE "27183:27199",
  clipboard |-> Direction(Said(some, "clipboard_direction", "both")),
  v4l2_sink |-> Said(some, "v4l2_sink", NotGiven),
  v4l2_buffer |-> IF some.text.v4l2_sink # "" THEN Said(some, "v4l2_buffer", "0") ELSE "0",
  require_audio |-> Is(some, "require_audio")]

(* of the device,                                                            *)
AskedOfDevice(some) == [
  log_level |-> Said(some, "verbosity", "info"),
  video |-> IsNot(some, "no_video"), audio |-> IsNot(some, "no_audio"),
  control |-> IsNot(some, "no_control"),
  clipboard_autosync |-> IsNot(some, "no_clipboard_autosync"),
  crop |-> Said(some, "crop", NotGiven), display_id |-> Said(some, "display_id", NotGiven),
  show_touches |-> Is(some, "show_touches"), stay_awake |-> Is(some, "stay_awake"),
  cleanup |-> IsNot(some, "no_cleanup"), power_on |-> IsNot(some, "no_power_on"),
  power_off_on_close |-> Is(some, "power_off_on_close"),
  video_encoder |-> Said(some, "video_encoder", NotGiven),
  audio_encoder |-> Said(some, "audio_encoder", NotGiven),
  audio_bit_rate |-> Rate(some, "audio_bit_rate"),
  audio_dup |-> Is(some, "audio_dup"),
  audio_source |-> IF "audio_dup" \in some.on THEN "playback"
                   ELSE Said(some, "audio_source", "output")]

(* of its camera and of a display made for the session,                      *)
Lens(some, c, unless) ==
  IF some.text.video_source = "camera" /\ (unless = "" \/ some.text[unless] = "")
  THEN Said(some, c, ServerDefault[c])
  ELSE ServerDefault[c]
AskedOfSource(some) ==
  LET display == "new_display_enabled" \in some.on IN [
  video_source |-> Said(some, "video_source", "display"),
  camera_id |-> Lens(some, "camera_id", ""), camera_size |-> Lens(some, "camera_size", ""),
  camera_facing |-> Lens(some, "camera_facing", "camera_id"),
  camera_ar |-> Lens(some, "camera_ar", "camera_size"),
  camera_fps |-> Lens(some, "camera_fps", ""),
  camera_high_speed |->
    Bool(/\ some.text.video_source = "camera" /\ "camera_high_speed" \in some.on
         /\ some.text.camera_fps # ""),
  new_display |-> IF display THEN some.text.new_display ELSE NotGiven,
  vd_destroy_content |-> Bool(~display \/ "no_vd_destroy_content" \notin some.on),
  vd_system_decorations |-> Bool(~display \/ "no_vd_system_decorations" \notin some.on)]

(* and of the streams there are.                                             *)
AskedOfVideo(some) ==
  IF "no_video" \in some.on THEN << >>
  ELSE [video_codec |-> Said(some, "video_codec", "h264"),
        video_bit_rate |-> Rate(some, "video_bit_rate"),
        max_size |-> Said(some, "max_size", "0"),
        max_fps |-> Said(some, "max_fps", NotGiven)]
AskedOfAudio(some) ==
  IF "no_audio" \in some.on THEN << >>
  ELSE [audio_codec |-> Said(some, "audio_codec", "opus")]

AskedOf(some, device, path) ==
  Join(Join([c \in ForItself |-> Said(some, c, Options[c].default)],
            Join([s \in SwitchesForItself |-> Is(some, s)], AskedOfClient(some, device, path))),
       Join(Join(AskedOfDevice(some), AskedOfSource(some)),
            Join(AskedOfVideo(some), AskedOfAudio(some))))

(* What a client with these options does: what it keeps to itself, and what  *)
(* its server makes of the arguments.                                        *)
GoesTo(opts) ==
  CASE opts.serial # NotGiven -> opts.serial
    [] opts.serial = NotGiven /\ opts.tcpip # NotGiven -> opts.tcpip
    [] OTHER -> IF opts.select_usb = opts.select_tcpip THEN "any"
                ELSE IF opts.select_usb = "true" THEN "usb" ELSE "tcpip"

Served(args, name) ==
  IF \E a \in args : a.arg = name THEN (CHOOSE a \in args : a.arg = name).value
  ELSE ServerDefault[name]

DoesItself(opts) == [
  device |-> GoesTo(opts), record |-> opts.record,
  record_rotation |-> RecordRotation(opts), display_rotation |-> DisplayRotation(opts),
  picture |-> VideoPlayback(opts), sound |-> AudioPlayback(opts),
  key_inject |-> KeyInjectMode(opts), mouse_bind |-> MouseBind(opts),
  ports |-> PortRange(opts), clipboard |-> opts.clipboard_direction,
  v4l2_sink |-> opts.v4l2_sink, v4l2_buffer |-> opts.v4l2_buffer,
  require_audio |-> opts.require_audio]

Does(opts) ==
  Join(Join([c \in ForItself \cup SwitchesForItself |-> opts[OptionOf(c)]], DoesItself(opts)),
       [a \in DOMAIN ServerDefault |-> Served(BuildServerArgs(opts), a)])

Agrees(opts, asked) ==
  LET done == Does(opts) IN \A s \in DOMAIN asked : done[s] = asked[s]
Runs(flags) == Parses(flags) /\ ~Contradictory(Parsed(flags))

(* A form that contradicts itself, or a box with something in it that is not *)
(* what the box takes.                                                       *)
NotTaken(some) ==
  \E f \in Differing(some, PlainTexts) \cup Differing(some, {"v4l2_buffer", "camera_fps"}) :
    ~Accepts(Options[OptionOf(f.flag)], f.value)
Conflicts(some, serials) ==
  \/ NotTaken(some)
  \/ {"require_audio", "no_audio"} \subseteq some.on
  \/ {"audio_dup", "no_audio"} \subseteq some.on
  \/ "audio_dup" \in some.on /\ some.text.audio_source \notin {"", "output", "playback"}
  \/ {"forward_all_clicks", "mouse_bind_enabled"} \subseteq some.on /\ some.text.mouse_bind # ""
  \/ Reached(some) /\ (some.text.serial # "" \/ Len(serials) > 1)
  \/ /\ Len(serials) > 1
     /\ some.text.serial = ""
     /\ Cardinality({"select_usb", "select_tcpip"} \cap some.on) = 1

(* What scrcpy itself refuses on a line that names it.                       *)
ScrcpyTakes(flags) ==
  LET names == {f.flag : f \in flags} IN
  /\ "clipboard_direction" \notin names
  /\ ~({"camera_id", "camera_facing"} \subseteq names)
  /\ ~({"camera_size", "camera_ar"} \subseteq names)
  /\ "camera_high_speed" \in names => "camera_fps" \in names
  /\ Cardinality(names \cap {"serial", "tcpip", "select_usb", "select_tcpip"}) <= 1

(* A start does what the controls say, for every ticked device and into a    *)
(* file of its own; only a form that contradicts itself is refused; and the  *)
(* line in the bar is one that does the same, whoever it names as its        *)
(* program (to_flags, to_client_args, to_command_line_for, start_windowed,   *)
(* build_server_args).  The bar does not place a recording in a folder.      *)
TheLineIsWhatRuns ==
  LET launched == Launched(config, ticked, memory.settings)
      path == RecordPathFor(config.text.record_path, Rewritten(memory.settings, Tilde))
      fine == ~Conflicts(config, ticked)
      asked == [d \in Covered(ticked) |-> AskedOf(config, d, path)]
      inTheBar == [d \in Covered(ticked) |-> AskedOf(config, d, config.text.record_path)]
  IN
  /\ up /\ fine => DOMAIN launched = Covered(ticked)
  /\ \A d \in DOMAIN launched :
       /\ fine => Runs(launched[d])
       /\ Runs(launched[d]) => Agrees(Parsed(launched[d]), asked[d])
  /\ Cardinality(shown.lines) = Cardinality(Covered(ticked))
  /\ \A flags \in shown.lines :
       /\ fine => Runs(flags)
       /\ Runs(flags) => \E d \in Covered(ticked) : Agrees(Parsed(flags), inTheBar[d])
       /\ shown.binary = "scrcpy" /\ fine => ScrcpyTakes(flags)

(* What a file of the panel holds is read when the panel starts, and a file  *)
(* that could not be read is never written over: it is put aside first, or   *)
(* the log says that it could not be (config.rs, "a file that will not parse *)
(* is not none").  A file that is not even text is not covered, and one the  *)
(* panel's own write cut is written again.                                   *)
NothingStoredIsLost ==
  [][\A f \in Files :
       /\ (~up /\ up') => /\ disk[f].is = "whole" => memory'[f] = disk[f].holds
                          /\ disk'[f] # disk[f] => disk[f].is = "broken"
       /\ (up /\ up' /\ disk'[f] # disk[f] /\ disk[f].is = "broken")
            => f \in torn \cup unmoved
       /\ (up /\ f \notin torn /\ disk[f].is = "whole") => disk[f].holds = memory[f]]_formVars
=============================================================================
