------------------------------ MODULE MCPanelForm ------------------------------
(* The texts that are tried, what the conversions make of them, and which    *)
(* controls are edited together.                                             *)
EXTENDS PanelForm

MCFits == [
  u16  |-> {"0", "40", "1024"},
  u32  |-> {"0", "40", "1024", "70000"},
  i16  |-> {"0", "40", "1024", "-5"},
  i32  |-> {"0", "40", "1024", "70000", "-5"},
  bits |-> {"8000000", "4000000", "128000", "64000", "40", "8M", "4M", "128K", "64K"}]

(* "5000M" is a number, and more than a bit rate can be.                     *)
MCExpanded ==
  "8M" :> "8000000" @@ "4M" :> "4000000" @@ "5000M" :> "5000000000"
    @@ "128K" :> "128000" @@ "64K" :> "64000"

MCRanges ==
  "27183:27199" :> "27183:27199" @@ "30000" :> "30000:30000"
    @@ "30000:30010" :> "30000:30010"

MCTilde == "~/clip" :> "/home/me/clip" @@ "~/Videos" :> "/home/me/Videos"
MCBareNames == {"clip", "scrcpy.mp4"}

Boxes == {
  "max_fps", "crop", "video_encoder", "audio_encoder", "shortcut_mod", "start_app",
  "window_title", "tunnel_host", "camera_id", "camera_size", "camera_ar", "key_layout"}
Counts == {
  "display_id", "video_buffer", "v4l2_buffer", "audio_buffer", "audio_output_buffer",
  "time_limit", "camera_fps"}

MCTyped ==
  [c \in Boxes |-> {"some"}]
    @@ [c \in Counts |-> {"40", "wide"}]
    @@ [c \in {"max_size", "window_width", "window_height", "tunnel_port"} |-> {"1024", "70000"}]
    @@ [c \in {"window_x", "window_y"} |-> {"-5", "70000"}]
    @@ "video_source" :> {"camera"} @@ "video_codec" :> {"h265", ""}
    @@ "video_bit_rate" :> {"4M", "40", "5000M", "lots"} @@ "audio_bit_rate" :> {"64K", ""}
    @@ "display_orientation" :> {"flip90"} @@ "record_orientation" :> {"90"}
    @@ "audio_codec" :> {"aac"} @@ "audio_source" :> {"mic", "playback"}
    @@ "record_path" :> {"clip", "~/clip"} @@ "record_format" :> {"mkv"}
    @@ "keyboard" :> {"uhid"} @@ "mouse" :> {"disabled"} @@ "gamepad" :> {"aoa"}
    @@ "clipboard_direction" :> {"toDevice", "toPc"} @@ "mouse_bind" :> {"bhsn", ""}
    @@ "new_display" :> {"/420"} @@ "camera_facing" :> {"front"}
    @@ "serial" :> {"other", ""} @@ "tcpip_addr" :> {"address"}
    @@ "port" :> {"30000", "backwards"} @@ "v4l2_sink" :> {"/dev/video2"}
    @@ "verbosity" :> {"debug"}

Camera == {
  "video_source", "camera_id", "camera_facing", "camera_size", "camera_ar", "camera_fps",
  "camera_high_speed"}
Sound == {
  "audio_source", "audio_dup", "no_audio", "require_audio", "no_audio_playback",
  "no_playback", "audio_codec"}
Picture == {
  "no_video", "no_video_playback", "no_playback", "max_size", "video_bit_rate", "v4l2_sink",
  "v4l2_buffer"}
Reaching == {"serial", "tcpip_enabled", "tcpip_addr", "select_usb", "select_tcpip"}
Filing == {
  "record_enabled", "record_path", "record_format", "record_timestamp", "serial"}
Turning == {"orientation", "display_orientation", "record_orientation"}
Handling == {
  "keyboard", "forward_all_clicks", "mouse_bind_enabled", "mouse_bind", "prefer_text",
  "raw_key_events", "clipboard_direction"}
Displaying == {
  "new_display_enabled", "new_display", "no_vd_destroy_content", "no_vd_system_decorations",
  "display_id", "start_app"}

(* Every control on its own, and those that meet together.                   *)
MCTogether ==
  {{c} : c \in Texts \cup Switches}
    \cup {Camera, Sound, Picture, Reaching, Filing, Turning, Handling, Displaying}
================================================================================
