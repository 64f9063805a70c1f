------------------------------ MODULE MCRecorder ------------------------------
(* Short streams with what matters to the recorder: packets ahead of the     *)
(* first config packet, a second config packet, a timestamp that repeats, an *)
(* audio stream with and without a config packet, audio ahead of the video.  *)
EXTENDS Recorder

P(kind, pts) == [kind |-> kind, pts |-> pts]
Config == P("config", 0)

MCVideoFeeds == {
  <<P("delta", 1), Config, P("key", 4), P("delta", 4), P("delta", 8)>>,
  <<Config, Config, P("key", 1), P("delta", 3)>>,
  <<Config, P("key", 5), Config, P("key", 9)>> }
MCAudioFeeds == {
  <<Config, P("audio", 2), P("audio", 3), P("audio", 7)>>,
  <<P("audio", 6), P("audio", 9)>> }
================================================================================
