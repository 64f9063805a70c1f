----------------------------- MODULE AudioPath -----------------------------
(***************************************************************************)
(* The way of the sound, from the socket to the speakers and the file: the *)
(* audio thread, which gives every packet to the recorder and decodes it   *)
(* for whoever listens (src/session/pipeline.rs), the bounded channel to   *)
(* the host, the feed thread and the sound card (src/mirror_host.rs,       *)
(* src/audio/player.rs), and the regulator between those two.              *)
(*                                                                         *)
(* The socket delivers up to MaxPackets packets.  One that gives no sound  *)
(* is a chunk of no frames, which is never sent.                           *)
(***************************************************************************)
EXTENDS AudioRegulator, Sequences

CONSTANTS
  Depth,            \* the chunks the channel holds: bounded(32)
  MaxAudioPackets   \* the packets the device sends in one behaviour

ASSUME PathAssumption == Depth \in Nat \ {0} /\ MaxAudioPackets \in Nat

VARIABLES
  arrived,      \* packets the socket has delivered
  recorded,     \* packets given to the recorder
  audioThread,  \* the audio thread: "opening", "reading", "sending", "failed", "shut"
  playing,      \* it believes that somebody listens
  chunk,        \* the frames it is sending
  channel,      \* the chunks between it and the feed thread
  audioStream,  \* the receiving end: "held" by the session, "fed", "gone"
  card          \* the sound card calls back

pvars == <<arrived, recorded, audioThread, playing, chunk, channel, audioStream, card>>
audioVars == <<rvars, pvars>>

Stream == {"held", "fed", "gone"}

AudioInit ==
  /\ RInit
  /\ arrived = 0
  /\ recorded = 0
  /\ audioThread = "opening"
  /\ playing \in BOOLEAN          \* --no-playback and --no-audio-playback
  /\ chunk = 0
  /\ channel = <<>>
  /\ audioStream = "held"
  /\ card = FALSE

-----------------------------------------------------------------------------
(* The audio thread                                                        *)

Arrive ==
  /\ arrived < MaxAudioPackets
  /\ arrived' = arrived + 1
  /\ UNCHANGED <<rvars, recorded, audioThread, playing, chunk, channel, audioStream, card>>

\* The decoder is opened before anything is read.  Without one (a codec that
\* is not one of sound, an FFmpeg that lacks it) the thread returns.
DecoderOpens ==
  /\ audioThread = "opening"
  /\ audioThread' \in {"reading", "failed"}
  /\ UNCHANGED <<rvars, arrived, recorded, playing, chunk, channel, audioStream, card>>

Packets == {"config", "media"}
Unconvertible == -1

\* The sound of what a decoded packet gave: packed floats as they are, any
\* other format through a resampler, which may fail.
Converted == Chunks \cup {Unconvertible}

\* A config packet is not for the decoder, and neither a packet it refuses nor
\* one it keeps is an error.
Decoded(packet) == IF packet = "config" THEN {0} ELSE {0} \cup Converted

\* A packet is taken: the recorder has it before it is decoded, and it is
\* decoded only for a listener.  An error ends the loop.
Take ==
  /\ audioThread = "reading" /\ recorded < arrived
  /\ recorded' = recorded + 1
  /\ \/ /\ ~playing
        /\ UNCHANGED <<audioThread, chunk>>
     \/ /\ playing
        /\ \E packet \in Packets : \E sound \in Decoded(packet) :
             \/ sound = 0 /\ UNCHANGED <<audioThread, chunk>>
             \/ sound > 0 /\ chunk' = sound /\ audioThread' = "sending"
             \/ sound = Unconvertible /\ audioThread' = "failed" /\ UNCHANGED chunk
  /\ UNCHANGED <<rvars, arrived, playing, channel, audioStream, card>>

\* send() waits for room while somebody holds the other end.
Send ==
  /\ audioThread = "sending" /\ audioStream # "gone" /\ Len(channel) < Depth
  /\ channel' = Append(channel, chunk)
  /\ audioThread' = "reading"
  /\ chunk' = 0
  /\ UNCHANGED <<rvars, arrived, recorded, playing, audioStream, card>>

\* Mutant: the thread returns when nobody listens any more.
SendFails_Returns ==
  /\ audioThread = "sending" /\ audioStream = "gone"
  /\ audioThread' = "returned"
  /\ chunk' = 0
  /\ UNCHANGED <<rvars, arrived, recorded, playing, channel, audioStream, card>>

\* With the other end gone, the thread carries on for the recording.
SendFails ==
  /\ audioThread = "sending" /\ audioStream = "gone"
  /\ playing' = FALSE
  /\ audioThread' = "reading"
  /\ chunk' = 0
  /\ UNCHANGED <<rvars, arrived, recorded, channel, audioStream, card>>

\* The read comes to the end of the stream, finds what is no packet (no length,
\* or one above any frame's), or the socket is shut down under it.
SocketEnds ==
  /\ audioThread = "reading"
  /\ audioThread' = "shut"
  /\ UNCHANGED <<rvars, arrived, recorded, playing, chunk, channel, audioStream, card>>

-----------------------------------------------------------------------------
(* The host and the feed thread                                            *)

\* start_audio with a sound card that opens.
StartAudio ==
  /\ audioStream = "held" /\ playing
  /\ audioStream' = "fed"
  /\ card' = TRUE
  /\ UNCHANGED <<rvars, arrived, recorded, audioThread, playing, chunk, channel>>

\* start_audio without one, a session dropped before it was mounted, or
\* playback that was never wanted.
DropStream ==
  /\ audioStream = "held"
  /\ audioStream' = "gone"
  /\ channel' = <<>>
  /\ UNCHANGED <<rvars, arrived, recorded, audioThread, playing, chunk, card>>

\* The feed thread: recv, then push.
Feed ==
  /\ audioStream = "fed" /\ channel # <<>>
  /\ Push(Head(channel))
  /\ channel' = Tail(channel)
  /\ UNCHANGED <<arrived, recorded, audioThread, playing, chunk, audioStream, card>>

\* The callback; one that only waits for the target changes nothing.
Callback ==
  /\ card
  /\ \E frames \in Pulls : Pull(frames)
  /\ UNCHANGED pvars

\* The device has gone, or the player was dropped: nobody calls back again,
\* and nothing stops the feed thread.
CardGoes ==
  /\ card
  /\ card' = FALSE
  /\ UNCHANGED <<rvars, arrived, recorded, audioThread, playing, chunk, channel, audioStream>>

AudioNext ==
  \/ Arrive \/ DecoderOpens \/ Take \/ Send \/ SendFails \/ SocketEnds
  \/ StartAudio \/ DropStream \/ Feed \/ Callback \/ CardGoes

(***************************************************************************)
(* The threads keep running, the host takes the stream or lets it go (it   *)
(* does so in the event that mounts the session), and the card calls back  *)
(* while it is there.  The socket need not end, nor the packets arrive.    *)
(***************************************************************************)
AudioFairness ==
  /\ WF_audioVars(DecoderOpens \/ Take)
  /\ WF_audioVars(Send \/ SendFails)
  /\ WF_audioVars(StartAudio \/ DropStream)
  /\ WF_audioVars(Feed)
  /\ WF_audioVars(Callback)

AudioSpec == AudioInit /\ [][AudioNext]_audioVars /\ AudioFairness

-----------------------------------------------------------------------------
(* Properties                                                              *)

(* Every packet that arrives reaches the recorder, unless the session ends *)
(* or a packet cannot be decoded: a listener that was never wanted, one    *)
(* that lets go of the channel while the thread is sending into it, a full *)
(* channel and a sound card that goes away in the middle never hold the    *)
(* recording up for good.                                                  *)
EverythingIsRecorded ==
  \A n \in 1 .. MaxAudioPackets :
    arrived >= n ~> recorded >= n \/ audioThread \in {"failed", "shut"}

(* The cap is high enough.  Once the target has been fed to a card that    *)
(* calls back, sound is heard: the cap in force before playback never keeps *)
(* the ring below the level playback waits for.  And while sound is playing *)
(* a push that gives samples up leaves the target and one whole callback of *)
(* the sound card behind: the cap is never what makes a callback run dry.  *)
PlaybackStarts ==
  /\ pushed >= Target /\ card ~> played \/ ~card
  /\ TheCapLeavesACallback
=============================================================================
