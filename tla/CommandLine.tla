----------------------------- MODULE CommandLine -----------------------------
(***************************************************************************)
(* From the panel's form to what a session is asked to do                  *)
(* (panel/command, options, server/params.rs): the form becomes flags, the *)
(* flags the options of a client, and the options the server's arguments.  *)
(* No state: the operators of module PanelForm.                            *)
(*                                                                         *)
(* A control, its flag, the option and the server's argument share one     *)
(* name here, dashes as underscores, and every value is a text; a switch   *)
(* is "true" or "false", an option nobody gave is NotGiven.  The texts a   *)
(* user may type stand for kinds of text: what the conversions make of     *)
(* them is in the constants.  Of a path the folder and the name are kept,  *)
(* a tag is appended to the name, and the extension is not shown.          *)
(***************************************************************************)
EXTENDS Integers, Sequences

CONSTANTS
  Fits,         \* which of the texts parse: [u16, u32, i16, bits |-> set of texts]
  Expanded,     \* the texts expand_bit_rate rewrites, and into what
  Ranges,       \* the texts port_range_parsed understands, and as what
  Tilde,        \* the paths that begin with ~/, and what they stand for
  BareNames     \* the paths without a separator

NotGiven == "unset"
Bool(b) == IF b THEN "true" ELSE "false"
Rewritten(text, table) == IF text \in DOMAIN table THEN table[text] ELSE text

(* f, and g where f says nothing: f @@ g, which a proof cannot expand.       *)
Join(f, g) == [x \in DOMAIN f \cup DOMAIN g |-> IF x \in DOMAIN f THEN f[x] ELSE g[x]]

-----------------------------------------------------------------------------
(* The form: PanelConfig, and its defaults.                                  *)
DefaultText == [
  video_source |-> "display", video_codec |-> "h264", video_encoder |-> "",
  video_bit_rate |-> "8M", max_size |-> "", max_fps |-> "", crop |-> "",
  display_id |-> "", video_buffer |-> "", display_orientation |-> "0",
  v4l2_sink |-> "", v4l2_buffer |-> "",
  audio_codec |-> "opus", audio_source |-> "output", audio_encoder |-> "",
  audio_bit_rate |-> "128K", audio_buffer |-> "", audio_output_buffer |-> "",
  record_path |-> "", record_format |-> "mp4", time_limit |-> "",
  record_orientation |-> "0",
  keyboard |-> "sdk", mouse |-> "sdk", gamepad |-> "disabled", shortcut_mod |-> "lalt",
  key_layout |-> "", clipboard_direction |-> "both", mouse_bind |-> "++++",
  new_display |-> "", start_app |-> "",
  camera_facing |-> "back", camera_id |-> "", camera_size |-> "", camera_ar |-> "",
  camera_fps |-> "", window_title |-> "", orientation |-> "0", window_x |-> "",
  window_y |-> "", window_width |-> "", window_height |-> "",
  serial |-> "", port |-> "", tcpip_addr |-> "", tunnel_host |-> "",
  tunnel_port |-> "", verbosity |-> "info"]

Switches == {
  "no_video", "print_fps", "no_video_playback", "no_audio", "audio_dup",
  "require_audio", "no_audio_playback", "record_enabled", "no_playback",
  "record_timestamp", "otg", "no_control", "no_clipboard_autosync",
  "forward_all_clicks", "legacy_paste", "prefer_text", "raw_key_events",
  "mouse_bind_enabled", "new_display_enabled", "no_vd_destroy_content",
  "no_vd_system_decorations", "camera_high_speed", "fullscreen", "always_on_top",
  "window_borderless", "turn_screen_off", "stay_awake", "show_touches",
  "disable_screensaver", "power_off_on_close", "no_power_on", "no_mipmaps",
  "tcpip_enabled", "force_adb_forward", "select_usb", "select_tcpip",
  "kill_adb_on_close", "no_cleanup"}

Texts == DOMAIN DefaultText
DefaultForm == [text |-> DefaultText, on |-> {"record_timestamp"}]

-----------------------------------------------------------------------------
(* The flags, each with the control it comes from: two controls may ask for  *)
(* the same flag, and then it is on the line twice.                          *)
Flag(name, value, from) == [flag |-> name, value |-> value, from |-> from]
Only(cond, flags) == IF cond THEN flags ELSE {}

Differing(form, controls) ==
  {Flag(c, form.text[c], c) :
     c \in {d \in controls : form.text[d] \notin {"", DefaultText[d]}}}
Given(form, controls) == {Flag(c, form.text[c], c) : c \in {d \in controls : form.text[d] # ""}}
On(form, switches) == {Flag(s, "true", s) : s \in form.on \cap switches}

PlainTexts == {
  "video_source", "video_codec", "video_encoder", "video_bit_rate", "max_size",
  "max_fps", "crop", "display_id", "video_buffer", "display_orientation",
  "audio_codec", "audio_source", "audio_encoder", "audio_bit_rate", "audio_buffer",
  "audio_output_buffer", "time_limit", "record_orientation", "keyboard", "mouse",
  "gamepad", "shortcut_mod", "start_app", "window_title", "window_x", "window_y",
  "window_width", "window_height", "serial", "port", "tunnel_host", "tunnel_port",
  "verbosity"}

(* The camera is named by its id or its facing, and sized by its size or its *)
(* aspect ratio.                                                             *)
CameraFlags(form) ==
  Only(form.text.video_source = "camera",
       Differing(form, {"camera_fps",
                        IF form.text.camera_id = "" THEN "camera_facing" ELSE "camera_id",
                        IF form.text.camera_size = "" THEN "camera_ar" ELSE "camera_size"}))

Direction(text) == Rewritten(text, [toDevice |-> "to-device", toPc |-> "to-pc"])
ClipboardFlags(form) ==
  LET direction == Direction(form.text.clipboard_direction) IN
  Only(direction \notin {"", "both"},
       {Flag("clipboard_direction", direction, "clipboard_direction")})

PlainSwitches == Switches \ {
  "record_enabled", "record_timestamp", "forward_all_clicks", "mouse_bind_enabled",
  "new_display_enabled", "camera_high_speed", "tcpip_enabled", "select_usb",
  "select_tcpip"}

SwitchFlags(form) ==
  On(form, PlainSwitches)
    \cup Only("forward_all_clicks" \in form.on,
              {Flag("mouse_bind", "++++", "forward_all_clicks")})
    \cup Only(form.text.video_source = "camera" /\ form.text.camera_fps # "",
              On(form, {"camera_high_speed"}))

Reached(form) == "tcpip_enabled" \in form.on /\ form.text.tcpip_addr # ""
SelectorFlags(form) ==
  Only(form.text.serial = "" /\ ~Reached(form) /\ ~({"select_usb", "select_tcpip"} \subseteq form.on),
       On(form, {"select_usb", "select_tcpip"}))

TagFileName(path, tag) == IF path = "" \/ tag = "" THEN path ELSE path \o "-" \o tag

(* The stamp is the second the path is asked for.                            *)
EffectiveRecordPath(form) ==
  TagFileName(form.text.record_path, IF "record_timestamp" \in form.on THEN "stamp" ELSE "")

FormatFlags(form) ==
  Only(form.text.record_format # DefaultText.record_format,
       {Flag("record_format", form.text.record_format, "record_format")})

ValueFlags(form) ==
  Only(form.text.v4l2_sink # "", Given(form, {"v4l2_sink", "v4l2_buffer"}))
    \cup Only("mouse_bind_enabled" \in form.on, Given(form, {"mouse_bind"}))
    \cup Only("new_display_enabled" \in form.on,
              {Flag("new_display", form.text.new_display, "new_display")})
    \cup Only(Reached(form), {Flag("tcpip", form.text.tcpip_addr, "tcpip_addr")})
    \cup Only("record_enabled" \in form.on /\ form.text.record_path # "",
              {Flag("record", EffectiveRecordPath(form), "record_path")}
                \cup FormatFlags(form))

ToFlags(form) ==
  Differing(form, PlainTexts) \cup CameraFlags(form) \cup ClipboardFlags(form)
    \cup SwitchFlags(form) \cup SelectorFlags(form) \cup ValueFlags(form)

(* What the client acts on; the rest is left out of a launch, and said.      *)
Unsupported == {"otg", "no_mipmaps"}
BitRates == {"video_bit_rate", "audio_bit_rate"}
ToClientArgs(form) ==
  {IF f.flag \in BitRates
     THEN [f EXCEPT !.value = Rewritten(f.value, Expanded)] ELSE f :
     f \in {g \in ToFlags(form) : g.flag \notin Unsupported}}

(* The line of the bar: the flags it names for one device.  With several     *)
(* ticked it is a loop over them.                                            *)
Retagged(flags, device) ==
  {IF f.flag = "record" THEN [f EXCEPT !.value = TagFileName(f.value, device)] ELSE f :
     f \in flags}
LineFor(form, device) ==
  Retagged({f \in ToFlags(form) : f.flag \notin {"serial", "select_usb", "select_tcpip"}},
           device) \cup {Flag("serial", device, "loop")}
ForkOnly == {"clipboard_direction"}
BinaryFor(flags) ==
  IF \E f \in flags : f.flag \in ForkOnly THEN "scrcpy-panel" ELSE "scrcpy"
ToCommandLineFor(form, serials) ==
  LET lines == IF Len(serials) < 2 THEN {ToFlags(form)}
               ELSE {LineFor(form, serials[i]) : i \in DOMAIN serials}
  IN [binary |-> BinaryFor(UNION lines), lines |-> lines]

-----------------------------------------------------------------------------
(* The options of a client.                                                  *)
Takes(what, default) == [takes |-> what, default |-> default, of |-> {}]
Switch == Takes("switch", "false")
Stays == Takes("switch", "true")
OneOf(values, default) == [takes |-> "choice", default |-> default, of |-> values]
Optional == Takes("text", NotGiven)
Text(default) == Takes("text", default)

Quarters == {"0", "90", "180", "270"}
AudioSources == {
  "output", "mic", "playback", "mic-unprocessed", "mic-camcorder",
  "mic-voice-recognition", "mic-voice-communication", "voice-call", "voice-call-uplink",
  "voice-call-downlink", "voice-performance"}
LogLevels == {"verbose", "debug", "info", "warn", "error"}

StreamOptions == [
  panel |-> Switch, start |-> Switch, serial |-> Optional, tcpip |-> Optional,
  max_size |-> Takes("u16", "0"), max_fps |-> Optional,
  video_bit_rate |-> Takes("bits", "8000000"), video_codec |-> Text("h264"),
  no_audio |-> Switch, no_video |-> Switch, video_buffer |-> Takes("u32", "0"),
  no_control |-> Switch, window_title |-> Optional, fullscreen |-> Switch,
  always_on_top |-> Switch, borderless |-> Switch,
  render_fit |-> OneOf({"letterbox", "stretched", "unscaled"}, NotGiven),
  background_color |-> Optional, no_terminal_title |-> Switch,
  pause_on_exit |-> OneOf({"true", "false", "if-error"}, "false"),
  record |-> Optional, crop |-> Optional, port_range |-> Text("27183:27199"),
  turn_screen_off |-> Switch, force_adb_forward |-> Switch]

DeviceOptions == [
  print_fps |-> Switch, list_encoders |-> Switch, list_displays |-> Switch,
  list_cameras |-> Switch, list_camera_sizes |-> Switch, list_apps |-> Switch,
  show_touches |-> Switch, stay_awake |-> Switch, keep_active |-> Switch,
  power_on |-> Stays, no_power_on |-> Switch,
  clipboard_direction |-> OneOf({"both", "to-device", "to-pc"}, "both"),
  v4l2_buffer |-> Takes("u32", "0"), tunnel_host |-> Optional,
  tunnel_port |-> Takes("u16", NotGiven), verbosity |-> OneOf(LogLevels, "info"),
  no_vd_destroy_content |-> Switch, no_vd_system_decorations |-> Switch,
  select_usb |-> Switch, select_tcpip |-> Switch, forward_all_clicks |-> Switch,
  prefer_text |-> Switch, raw_key_events |-> Switch, power_off_on_close |-> Switch,
  display_id |-> Takes("u32", NotGiven), time_limit |-> Takes("u32", NotGiven),
  audio_bit_rate |-> Takes("bits", "128000"), video_encoder |-> Optional,
  audio_encoder |-> Optional, audio_source |-> OneOf(AudioSources, NotGiven)]

InputOptions == [
  video_source |-> Text("display"), camera_id |-> Optional, camera_size |-> Optional,
  camera_facing |-> Optional, camera_fps |-> Takes("u32", NotGiven),
  camera_ar |-> Optional, camera_high_speed |-> Switch, camera_torch |-> Switch,
  camera_zoom |-> Optional, hwdec |-> Text("disabled"), otg |-> Switch,
  keyboard |-> OneOf({"sdk", "uhid", "aoa", "disabled"}, "sdk"),
  mouse |-> OneOf({"sdk", "uhid", "aoa", "disabled"}, "sdk"),
  gamepad |-> OneOf({"disabled", "uhid", "aoa"}, "disabled"),
  key_inject_mode |-> Text("mixed"), render_driver |-> Optional, no_mipmaps |-> Switch,
  window_x |-> Takes("i16", NotGiven), window_y |-> Takes("i16", NotGiven),
  window_width |-> Takes("u16", NotGiven), window_height |-> Takes("u16", NotGiven),
  shortcut_mod |-> Text("lalt"), audio_codec |-> Text("opus"),
  record_format |-> Optional, push_target |-> Text("/sdcard/Download/"),
  forward_key_repeat |-> Stays, no_key_repeat |-> Switch, no_mouse_hover |-> Switch,
  clipboard_autosync |-> Stays, no_clipboard_autosync |-> Switch,
  disable_screensaver |-> Switch]

WindowOptions == [
  audio_buffer |-> Takes("u32", "50"),
  display_orientation |->
    OneOf(Quarters \cup {"flip0", "flip90", "flip180", "flip270"}, NotGiven),
  record_orientation |-> OneOf(Quarters, NotGiven), orientation |-> OneOf(Quarters, "0"),
  no_cleanup |-> Switch, kill_adb_on_close |-> Switch, start_app |-> Optional,
  capture_orientation |-> Optional, server_path |-> Optional, v4l2_sink |-> Optional,
  new_display |-> Optional, flex_display |-> Switch, no_video_playback |-> Switch,
  no_window |-> Switch, no_audio_playback |-> Switch, no_playback |-> Switch,
  require_audio |-> Switch, mouse_bind |-> Optional, legacy_paste |-> Switch,
  audio_dup |-> Switch, angle |-> Optional, downsize_on_error |-> Stays,
  no_downsize_on_error |-> Switch,
  min_size_alignment |-> OneOf({"1", "2", "4", "8", "16"}, NotGiven),
  ignore_video_encoder_constraints |-> Switch,
  audio_output_buffer |-> Takes("u32", "5"), video_codec_options |-> Optional,
  audio_codec_options |-> Optional, display_ime_policy |-> Optional,
  screen_off_timeout |-> Takes("i32", NotGiven)]

Options == Join(Join(StreamOptions, DeviceOptions), Join(InputOptions, WindowOptions))

OptionOf(flag) ==
  Rewritten(flag, [window_borderless |-> "borderless", port |-> "port_range"])

Accepts(option, value) ==
  CASE option.takes = "text" -> TRUE
    [] option.takes = "switch" -> value = "true"
    [] option.takes = "choice" -> value \in option.of
    [] OTHER -> value \in Fits[option.takes]

(* Options::try_parse_from: a flag that is not known, a value its option     *)
(* does not take and a flag given twice are refusals.                        *)
Parses(flags) ==
  /\ \A f \in flags :
       /\ OptionOf(f.flag) \in DOMAIN Options
       /\ Accepts(Options[OptionOf(f.flag)], f.value)
  /\ \A f, g \in flags : OptionOf(f.flag) = OptionOf(g.flag) => f = g

Parsed(flags) ==
  [o \in DOMAIN Options |->
     IF \E f \in flags : OptionOf(f.flag) = o
     THEN LET f == CHOOSE g \in flags : OptionOf(g.flag) = o IN
          IF Options[o].takes = "bits" THEN Rewritten(f.value, Expanded) ELSE f.value
     ELSE Options[o].default]

(* What Session::start refuses before it touches a device.                   *)
Selected(opts) ==
  {o \in {"serial", "tcpip"} : opts[o] # NotGiven}
    \cup {o \in {"select_usb", "select_tcpip"} : opts[o] = "true"}
Contradictory(opts) ==
  \/ opts.require_audio = "true" /\ opts.no_audio = "true"
  \/ /\ opts.audio_dup = "true"
     /\ opts.no_audio = "true" \/ opts.audio_source \notin {NotGiven, "playback"}
  \/ \E o, p \in Selected(opts) : o # p

(* What the client makes of its options for itself.                          *)
DisplayRotation(opts) ==
  IF opts.display_orientation # NotGiven THEN opts.display_orientation ELSE opts.orientation
RecordRotation(opts) ==
  IF opts.record_orientation # NotGiven THEN opts.record_orientation ELSE opts.orientation
VideoPlayback(opts) ==
  "true" \notin {opts.no_video, opts.no_video_playback, opts.no_window, opts.no_playback}
AudioPlayback(opts) ==
  "true" \notin {opts.no_audio, opts.no_audio_playback, opts.no_playback}
KeyInjectMode(opts) ==
  CASE opts.raw_key_events = "true" -> "raw"
    [] opts.raw_key_events # "true" /\ opts.prefer_text = "true" -> "text"
    [] OTHER -> opts.key_inject_mode
MouseBind(opts) == IF opts.forward_all_clicks = "true" THEN "++++" ELSE opts.mouse_bind
PortRange(opts) == IF opts.port_range \in DOMAIN Ranges THEN Ranges[opts.port_range]
                   ELSE Options.port_range.default

-----------------------------------------------------------------------------
(* build_server_args.  A set of [arg, value].                                *)
Arg(name, value) == {[arg |-> name, value |-> value]}
Told(cond, name, value) == Only(cond, Arg(name, value))
Passed(opts, names) ==
  UNION {Told(opts[n] # NotGiven, n, opts[n]) : n \in names}
Raised(opts, names) == UNION {Told(opts[n] = "true", n, "true") : n \in names}
Lowered(opts, positive, negative) ==
  Told(opts[positive] = "false" \/ opts[negative] = "true", positive, "false")

VideoArgs(opts) ==
  IF opts.no_video = "true" THEN Arg("video", "false")
  ELSE Arg("video_codec", opts.video_codec) \cup Arg("video_bit_rate", opts.video_bit_rate)
         \cup Told(opts.max_size # "0", "max_size", opts.max_size)
         \cup Passed(opts, {"max_fps"})

AudioArgs(opts) ==
  IF opts.no_audio = "true" THEN Arg("audio", "false")
  ELSE Arg("audio_codec", opts.audio_codec)

AudioSourceArgs(opts) ==
  IF opts.audio_source # NotGiven THEN Arg("audio_source", opts.audio_source)
  ELSE Told(opts.audio_dup = "true", "audio_source", "playback")

(* Seconds into milliseconds; a negative delay is no timeout.  No control of *)
(* the form sets it.                                                         *)
ScreenOffArgs(opts) ==
  LET millis == [s \in {"60"} |-> "60000"] IN
  Told(opts.screen_off_timeout \in DOMAIN millis, "screen_off_timeout",
       Rewritten(opts.screen_off_timeout, millis))

PowerArgs(opts) ==
  Lowered(opts, "clipboard_autosync", "no_clipboard_autosync")
    \cup Told(opts.no_control = "true", "control", "false")
    \cup Passed(opts, {"crop", "display_id"}) \cup ScreenOffArgs(opts)
    \cup Raised(opts, {"show_touches", "stay_awake", "power_off_on_close"})
    \cup Told(opts.no_cleanup = "true", "cleanup", "false")
    \cup Lowered(opts, "power_on", "no_power_on")
    \cup Told(opts.audio_bit_rate # "128000", "audio_bit_rate", opts.audio_bit_rate)
    \cup Passed(opts, {"video_encoder", "audio_encoder"})

CameraArgs(opts) ==
  Told(opts.video_source # "display", "video_source", opts.video_source)
    \cup Passed(opts, {"camera_id", "camera_size", "camera_facing", "camera_fps",
                       "camera_ar", "camera_zoom", "capture_orientation"})
    \cup Raised(opts, {"camera_torch", "camera_high_speed"})

DisplayArgs(opts) ==
  Passed(opts, {"new_display", "angle", "min_size_alignment", "video_codec_options",
                "audio_codec_options", "display_ime_policy"})
    \cup Only(opts.new_display # NotGiven,
              Told(opts.no_vd_destroy_content = "true", "vd_destroy_content", "false")
                \cup Told(opts.no_vd_system_decorations = "true",
                          "vd_system_decorations", "false"))
    \cup Raised(opts, {"flex_display", "audio_dup", "keep_active",
                       "ignore_video_encoder_constraints"})
    \cup Lowered(opts, "downsize_on_error", "no_downsize_on_error")

BuildServerArgs(opts) ==
  Arg("log_level", opts.verbosity) \cup VideoArgs(opts) \cup AudioArgs(opts)
    \cup PowerArgs(opts) \cup AudioSourceArgs(opts) \cup CameraArgs(opts)
    \cup DisplayArgs(opts)

(* What the server takes when it is told nothing (the device's side).        *)
ServerDefault == [
  log_level |-> "info", video |-> "true", audio |-> "true", control |-> "true",
  video_codec |-> "h264", video_bit_rate |-> "8000000", max_size |-> "0",
  max_fps |-> NotGiven, audio_codec |-> "opus", audio_bit_rate |-> "128000",
  clipboard_autosync |-> "true", crop |-> NotGiven, show_touches |-> "false",
  stay_awake |-> "false", cleanup |-> "true", power_on |-> "true",
  power_off_on_close |-> "false", display_id |-> NotGiven, video_encoder |-> NotGiven,
  audio_encoder |-> NotGiven, audio_source |-> "output", audio_dup |-> "false",
  video_source |-> "display", camera_id |-> NotGiven, camera_size |-> NotGiven,
  camera_facing |-> "back", camera_fps |-> NotGiven, camera_ar |-> NotGiven,
  camera_high_speed |-> "false", new_display |-> NotGiven, vd_destroy_content |-> "true",
  vd_system_decorations |-> "true"]
=============================================================================
