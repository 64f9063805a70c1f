---------------------------- MODULE VideoDecoder ----------------------------
(***************************************************************************)
(* The video decoder (src/media/decoder/mod.rs) as the decoder thread      *)
(* drives it (src/session/pipeline.rs, run_decoder).                       *)
(*                                                                         *)
(* The stream is a sequence of sessions, each a config packet and then     *)
(* media packets; a device that turns or resizes starts a new one.  A      *)
(* packet is its number, which is also its timestamp and the time it       *)
(* arrived.  libavcodec holds packets back, drops them, hands two pictures *)
(* over for one packet, and loses a timestamp, as it pleases.              *)
(***************************************************************************)
EXTENDS FrameConversion, Filtering, SequencesExt

CONSTANTS
  Apis,          \* the platform's hardware APIs, in the order auto tries them
  Kept,          \* RECEIVED_KEPT
  Holds,         \* the packets libavcodec may hold back
  MaxPackets,    \* bound: media packets in one behaviour
  MaxSessions    \* bound: encoder sessions in one behaviour

ASSUME DecoderAssumption ==
  /\ Apis \in Seq(STRING)
  /\ Kept \in Nat \ {0} /\ Holds \in Nat
  /\ MaxPackets \in Nat /\ MaxSessions \in Nat

None == 0          \* no timestamp, no time of arrival
Cpu == "cpu"

VARIABLES
  whims,       \* the libraries that do more than the simplest: "libavcodec"
               \*   and "swscale"
  flag,        \* --hwdec: "disabled", "auto" or the name of an API
  codec,       \* "av1" or "h264" (for all the others)
  session,     \* the number of the session the stream is in
  size,        \* the size of each session, by number
  taken,       \* the media packets taken from the channel
  thread,      \* "taking", "draining", "sending", "failed", "refused"
  opened,      \* hw_opened: the API that opened, or Cpu
  context,     \* the codec context: the session it was set up for (0: not
               \*   yet) and what it decodes on
  config,      \* config_data: the session whose parameter sets wait, or 0
  produced,    \* produced_since_config
  shown,       \* history: the sessions that have given a picture
  received,    \* received: the timestamps whose arrival is remembered
  inside,      \* the packets libavcodec holds
  pictures,    \* the pictures it has ready for receive_frame
  layout,      \* ask_for_yuv420p and sw_frame's format and size
  scaler,      \* scaler_key, write, and what the converter behind them does
  output       \* the frame being filled, from the pool

stream == <<whims, flag, codec, session, size, taken>>
decoding == <<thread, opened, context, config, produced, shown, received, inside,
              pictures>>
converting == <<layout, scaler, output>>
dvars == <<stream, decoding, converting>>

\* A buffer as DecodedFrame::empty makes it.
EmptyFrame == [size |-> "none", picture |-> 0, pts |-> None, received |-> None,
               on |-> Cpu, amiss |-> FALSE]

NotSetUp == [session |-> 0, on |-> Cpu]

\* A packet that libavcodec has taken, and where it is decoded.
Held(n, on) == [n |-> n, session |-> session, on |-> on]

-----------------------------------------------------------------------------
(* VideoDecoder::new                                                       *)

Tried == IF flag = "disabled" THEN <<>> ELSE IF flag = "auto" THEN Apis ELSE <<flag>>

\* The first API that opens, of those tried, and the CPU if none of them does
\* and none of them was named.
Opens(works) == Filtered(Tried, works)

Named == flag \notin {"disabled", "auto"}

DInit ==
  /\ whims \in SUBSET {"libavcodec", "swscale"}
  /\ flag \in {"disabled", "auto"} \union Range(Apis)
  /\ codec \in {"av1", "h264"}
  /\ session = 0 /\ size = <<>> /\ taken = 0
  /\ \E works \in SUBSET Range(Apis) :
       /\ opened = IF Opens(works) = <<>> THEN Cpu ELSE Head(Opens(works))
       /\ thread = IF Named /\ opened = Cpu THEN "refused" ELSE "taking"
  /\ context = NotSetUp
  /\ config = 0 /\ produced = FALSE /\ shown = {}
  /\ received = <<>> /\ inside = <<>> /\ pictures = <<>>
  /\ layout = [ask |-> TRUE, format |-> "none", size |-> "none"]
  /\ scaler = [key |-> NoKey, write |-> "direct", converter |-> Exact]
  /\ output = EmptyFrame

-----------------------------------------------------------------------------
(* decode_into                                                             *)

\* Mutant: the decoder is left as it is.
Reopened_Not == FALSE

\* The hardware decoder of AV1 is opened again, once a session made a picture.
Reopened == produced /\ codec = "av1" /\ opened # Cpu

\* The config packet of a new session, at size s, with a frame in hand for the
\* picture.  The hardware may be gone when it is opened again.
TakeConfig(s, frame) ==
  /\ thread = "taking" /\ session < MaxSessions
  /\ session' = session + 1
  /\ size' = Append(size, s)
  /\ produced' = FALSE
  /\ IF Reopened
     THEN /\ context' = NotSetUp
          /\ inside' = <<>>
          /\ \/ config' = session' /\ UNCHANGED thread
             \/ thread' = "failed" /\ UNCHANGED config
     ELSE /\ config' = session'
          /\ UNCHANGED <<context, inside, thread>>
  /\ output' = frame
  /\ UNCHANGED <<whims, flag, codec, taken, opened, shown, received, pictures, layout, scaler>>

Remembered(n) ==
  Append(IF Len(received) = Kept THEN Tail(received) ELSE received, n)

\* FFmpeg decodes on the CPU what the GPU will not take, unless it was named.
FallsBack == ~Named

\* FFmpeg sets a decoder up when it sees parameter sets for the first time;
\* the AV1 decoder does not set up its hardware a second time.
SetUp ==
  IF config = 0 \/ (codec = "av1" /\ opened # Cpu /\ context.session # 0)
  THEN {context}
  ELSE {[session |-> config, on |-> on] :
          on \in {opened} \union (IF opened # Cpu
                                  THEN {IF FallsBack THEN Cpu ELSE "nothing"} ELSE {})}

\* The pictures libavcodec may have ready of those it holds: a subsequence,
\* in their order or not.
Orders(held) ==
  IF "libavcodec" \notin whims THEN {held} ELSE
  LET some == {Filtered(held, S) : S \in SUBSET Range(held)}
  IN  some \union {Reverse(s) : s \in some}

\* The AV1 hardware decoder of FFmpeg holds no picture back.
MayHold(held) == IF codec = "av1" /\ opened # Cpu THEN {<<>>} ELSE {held, <<>>}

\* A media packet goes in, behind the parameter sets that wait; pictures come
\* out, or none does, and some packets never give one.
TakePacket(frame) ==
  /\ thread = "taking" /\ session > 0 /\ taken < MaxPackets
  /\ taken' = taken + 1
  /\ received' = Remembered(taken')
  /\ config' = 0
  /\ \E set \in SetUp :
       /\ context' = set
       /\ \E held \in (IF set.on = "nothing" THEN {inside}
                       ELSE {Append(inside, Held(taken', set.on))}
                              \union (IF "libavcodec" \in whims THEN {inside} ELSE {})) :
          \E ready \in Orders(held) :
            /\ Len(ready) <= 2
            /\ pictures' = ready
            /\ inside' \in MayHold(Filtered(held, Range(held) \ Range(ready)))
            /\ Len(inside') <= Holds
            /\ thread' = IF ready = <<>> THEN "taking" ELSE "draining"
            /\ produced' = (produced \/ ready # <<>>)
            /\ shown' = shown \union {p.session : p \in Range(ready)}
  /\ output' = frame
  /\ UNCHANGED <<whims, flag, codec, session, size, opened, layout, scaler>>

\* send_packet refuses it: the thread ends, and the picture with it.
PacketRefused ==
  /\ thread = "taking" /\ session > 0
  /\ thread' = "failed"
  /\ UNCHANGED <<stream, opened, context, config, produced, shown, received, inside,
                 pictures, converting>>

-----------------------------------------------------------------------------
(* process_frame                                                           *)

\* take_received_at: the picture's own arrival; what is older goes with it.
ReceivedAt(pts) == IF pts # None /\ pts \in Range(received) THEN pts ELSE None

AfterTaking(pts) ==
  IF ReceivedAt(pts) = None THEN received
  ELSE SelectSeq(received, LAMBDA n :
         \E i \in DOMAIN received, j \in DOMAIN received :
           received[i] = pts /\ received[j] = n /\ j > i)

\* sw_frame is started over for another size, or to ask for a layout.
StartsOver(s) == layout.size # s \/ (layout.ask /\ layout.format # "yuv")

\* transfer_hw_frame: the GPU hands back what it was asked for, or refuses it
\* once and for all and gives its own.
Transferred(s) ==
  IF StartsOver(s)
  THEN {[ask |-> FALSE, format |-> "own", size |-> s]}
         \union (IF layout.ask THEN {[ask |-> TRUE, format |-> "yuv", size |-> s]} ELSE {})
  ELSE {layout}

\* Assigned whatever it is: the frame comes from a pool.
Stamp(before, stamp) == stamp

\* convert_to_rgb into the output, and the stamps of the picture it shows.  The
\* first picture of a format and size is the one its write is chosen by.
Convert(picture, format, s, pts) ==
  \E built \in (IF Fresh(scaler.key, format, s) THEN {scaler}
                ELSE Built(<<format, s>>, IF "swscale" \in whims THEN Converters ELSE {Exact})) :
    /\ scaler' = built
    /\ output' = [size |-> s, picture |-> picture.n, on |-> picture.on,
                  pts |-> Stamp(output.pts, pts),
                  received |-> Stamp(output.received, ReceivedAt(pts)),
                  amiss |-> \/ built.key # <<format, s>>
                            \/ Reaches(built.write, built.converter) # Whole]

\* One picture: its stamps, the way back from the GPU, the conversion.  Of two
\* pictures the second is written over the first.
ProcessFrame ==
  /\ thread = "draining" /\ pictures # <<>>
  /\ LET picture == Head(pictures)
         s == size[picture.session] IN
     \E pts \in {picture.n} \union (IF "libavcodec" \in whims THEN {None} ELSE {}) :
       /\ received' = AfterTaking(pts)
       /\ IF picture.on = Cpu
          THEN Convert(picture, "yuv", s, pts) /\ UNCHANGED layout
          ELSE layout' \in Transferred(s) /\ Convert(picture, layout'.format, s, pts)
  /\ pictures' = Tail(pictures)
  /\ UNCHANGED <<stream, thread, opened, context, config, produced, shown, inside>>

\* The GPU hands back nothing at all, or no scaler can be built: the thread
\* ends, and the pictures with it.
PictureRefused ==
  /\ thread = "draining" /\ pictures # <<>>
  /\ thread' = "failed"
  /\ pictures' = <<>>
  /\ UNCHANGED <<stream, opened, context, config, produced, shown, received, inside,
                 converting>>

\* All are drained: the frame is sent.
Drained ==
  /\ thread = "draining" /\ pictures = <<>>
  /\ thread' = "sending"
  /\ UNCHANGED <<stream, opened, context, config, produced, shown, received, inside,
                 pictures, converting>>

-----------------------------------------------------------------------------
(* Properties                                                              *)

(* A frame on its way to the window is its own picture.  It carries that   *)
(* picture's timestamp and its packet's time of arrival, or none: pictures *)
(* held back, dropped, reordered or unstamped, a memory of arrivals that   *)
(* overflows, and the stamps a recycled frame comes with, never mix two of *)
(* them.  Every place of it holds this picture and nothing is written      *)
(* behind it, whatever the converter of each format and size does,         *)
(* whenever the stream turns or falls back to the CPU, and whatever byte   *)
(* the measured picture happens to hold; and a frame comes back from the   *)
(* GPU only into one of its own size.                                      *)
PictureIsItsOwn ==
  /\ thread = "sending" =>
       /\ output.pts \in {None, output.picture} /\ output.received \in {None, output.pts}
       /\ ~output.amiss
  /\ thread = "draining" /\ pictures # <<>> /\ Head(pictures).on # Cpu =>
       \A to \in Transferred(size[Head(pictures).session]) :
         to.size = size[Head(pictures).session]

(* A frame was decoded where it may be: with --hwdec naming an API,        *)
(* through that API and nothing else, which is decided at the opening and  *)
(* again when FFmpeg asks for a format; and by AV1 hardware that was set   *)
(* up for an earlier session only when that session never gave a picture.  *)
DecodedWhereItMay ==
  /\ Named => \A i \in DOMAIN pictures : pictures[i].on = flag
  /\ codec = "av1" /\ opened # Cpu => \A i \in DOMAIN pictures :
       context.session = pictures[i].session \/ context.session \notin shown
=============================================================================
