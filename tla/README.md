# scrcpy-panel in TLA+

A verification development for scrcpy-panel, a Rust client for scrcpy with a
control panel: it mirrors an Android device's screen and sound, sends it input,
and records what it shows. The specifications here follow a session from the
form it is started from, through the tunnel and the sockets, the pipeline of
picture and sound, the recording and the input, to its end and what it leaves
behind. TLC checks them on small instances; TLAPS proves, for every size, every
safety invariant the runs check, their action properties, and that the delay
buffer implements a bounded FIFO.

Paths below are relative to the repository's root; `src/` is the program's.

## 1. The system

One process, one event loop (Slint), and per session these threads:

| thread | code | blocks on |
|---|---|---|
| the connecting thread | `session/mod.rs` `start`, on a worker of `panel/session_run.rs` or on `main`'s | adb, the sockets, the push of the server |
| `scrcpy-demuxer` | `session/pipeline.rs` `run_demuxer` | the video socket; the packet channel |
| `scrcpy-decoder` | `session/pipeline.rs` `run_decoder`, `media/decoder/` | the packet channel; the frame channel |
| `scrcpy-delayfeed`, `scrcpy-delaybuf` | `session/mod.rs` `start_video`, `media/delay_buffer.rs` | the frame channel; a condition variable; the delayed channel |
| `scrcpy-audio` | `session/pipeline.rs` `run_audio_pipeline` | the audio socket; the samples channel |
| the audio feed and the card's callback | `mirror_host.rs` `start_audio`, `audio/player.rs`, `audio/regulator.rs` | the samples channel; the regulator's mutex |
| `scrcpy-recorder` | `media/recorder/mod.rs` | the recorder's condition variable; the disk |
| `scrcpy-controller` | `control/controller.rs` | the control queue; the control socket |
| the reader of the server's shell | `adb/commands.rs` | the shell's output |
| device scans | `panel/devices.rs` | adb |
| event loop | `mirror_host.rs`, `panel/`, `main.rs` | `Session::shutdown`, `stop_recording`, a control push of up to 250 ms |

Windowed sessions are processes of their own, started by the panel with a
command line it makes of its form.

All channels are bounded and a full one blocks its writer. The pump that draws
is a timer of the event loop, which does not fire while the event loop itself
waits; so every thread can be held by the next, and the last of them by whoever
shuts the session down.

### Components

| component | state | operations | what makes it correct |
|---|---|---|---|
| Panel form and files (`panel/mod.rs`, `panel/command/`, `panel/wiring.rs`, `panel/config.rs`) | the form, the bar, the profiles, the settings, their files | edit, start, save, delete, apply, reset, read and write | what runs and what the bar shows is what the controls ask; nothing stored is lost |
| Devices and profiles (`panel/devices.rs`, `panel/wiring.rs`) | the rows, the ticks, the typed serial, the profile edited | scan, tick, apply, save, autostart | a session goes to the ticked device, a save where the form came from |
| Options (`options/`, `server/params.rs`) | none: conversions | parse, default, derive, render | the server is asked what the user asked |
| Panel session (`panel/session_run.rs`) | pending, embedded and windowed sessions, timers, the tray | start, install, stop, quit | one session at a time; a stop leaves nothing behind |
| Server connection (`session/mod.rs`, `session/startup.rs`, `adb/`, `server/connection.rs`) | tunnel, listening socket, shell, sockets | choose, push, tunnel, start, accept or connect, drop | each stream has its socket; a wait ends; what was opened is closed |
| Session pipeline (`session/mod.rs`, `session/pipeline.rs`) | threads, channels, the pool of frame buffers | start_video, the loops, shutdown | shutdown returns; memory bounded; the buffer on screen is not shared |
| Video decoder (`media/decoder/`) | codec context, stamps waiting, the scaler | open, decode, reopen, convert | a frame has its own stamps and all of its bytes |
| Mirror host (`mirror_host.rs`, `main.rs`) | the frame on screen, paused, FlexDisplay | the pump, attach, drop, the display's size | never holds the decoder for good; the display gets the window's size |
| Delay buffer (`media/delay_buffer.rs`) | queue, stopped, first-frame flag, sleepers | push, stop, drop, the worker | frames in order, none lost; no thread sleeps through what it waits for |
| Recorder (`media/recorder/`) | two queues, stopped, the origin, held packets, the file | push_video, push_audio, stop, the thread | what was accepted is in the file, in order, with rising timestamps; a stop always closes it |
| Recording control (`session/recording.rs`) | recorder slot, thread slot, cached config packets | start_recording, stop_recording, wait_for_the_file | no orphan, no hole, failures reported |
| Audio path (`session/pipeline.rs`, `audio/`) | the samples channel, the ring, playback | read, decode, send, feed, push, pull | the newest samples, each channel its own; the recording is never held up |
| Control channel (`control/controller.rs`) | bounded queue, sender thread | push_msg, drop | what is refused is unsent, what is accepted is sent, in order; the event loop is not held |
| Input (`input/slint_input/`, `input/uhid/`, `input/aoa_hid.rs`) | keys, modifiers and buttons held, twice over; capture; HID devices attached | key and pointer events, focus, attach, detach | a release for every press the device saw; one road per press; the grab is given back |
| Gamepads (`input/gamepads.rs`, `input/hid_gamepad.rs`) | slots, gilrs's events | connect, move, disconnect, attach, detach | the device's pads are the hands' |
| V4L2 sink (`display/v4l2_sink.rs`) | delayed frames | push, poll | a delayed frame is not kept |
| Clock, key tables, i18n, logging, shaders | | | parsing, constants and text |

How they interact. The panel's form becomes a command line; the client that
parses it connects to a device and hands the sockets to the session. The
demuxer pushes every packet to the recorder in the session's slot, then to the
decoder's channel. The decoder takes a buffer from the pool, or allocates, and
sends the frame to the pump, by way of the delay buffer under `--video-buffer`.
The pump draws the newest frame, gives it to the V4L2 sink, and returns the one
it replaces. The audio thread pushes to the same recorder and, if somebody
listens, sends what it decodes to the feed thread, which pushes it into the
regulator the sound card pulls from. The end of the demuxer stops the recorder;
the end of the frames makes the pump ask for the end of the session; `shutdown`
drops the frames, shuts the socket, joins demuxer and decoder, then stops and
waits for the recorder. Starting a recording mid-session also asks the device
for a keyframe through the control channel, where input, gamepads, FlexDisplay
and file transfers push too.

### What is hard

* Two waits and a notify-all on one condition variable, with the second waiter
  added by a later change (the delay buffer).
* A chain of blocking sends that ends in a timer of the thread that joins it.
* Two producers, a stop and a consumer that must see one packet of each before
  it can write either (the recorder).
* A recorder installed in several steps while the streams run and end.
* A tunnel with a fallback, and connections given up that the server may
  nevertheless have accepted.
* Answers of threads that were asked by a form that has since changed: scans,
  connections, stops in between.
* One fact kept in two places: the device of a session in the ticks and in a
  text box; what is held down in two handlers, one of which lives as long as
  the program and the other as long as the session.
* Recycled buffers that carry the stamps, the size and the bytes of an earlier
  picture, filled by a library that writes more or less than it is asked.
* A ring that gives samples up in the middle of a stereo stream.
* libav, adb, the USB bus or the disk refusing at any call; a socket that
  stalls, or dies with a full queue.
* A wait with a limit, whose expiry has to be told from success.

`PROJECT.json` lists these hazards line by line, with the properties that cover
them and those no property covers, and why.

## 2. The modules

| module | models | state and actions |
|---|---|---|
| `FrameFifo` | what a frame line promises | `Accept`, `Deliver`, `Leave` over two counters |
| `DelayBuffer` | `media/delay_buffer.rs`, and its neighbours' ends of the channels | `queue`, `stopped`, `firstFrameSent` are `DelayBufferInner`'s fields; `sleeping` is who sleeps on the condition variable; `producer` and `worker` are program counters. One action per critical section, from the lock to the next unlock or wait, and one per blocking send |
| `Recorder`, `MCRecorder` | `media/recorder/mod.rs`, `write_pkt` of `media/recorder/muxer.rs` | `vq`, `aq`, `stopped` are `RecorderState`'s; `origin`, `pendV`, `pendA`, `prevV` are the locals of `write_the_packets`; `fileV`, `fileA` what the muxer took. `Round` is one turn of the packet loop. `MCRecorder` supplies the streams |
| `RecordingSession` | `session/recording.rs`, the tee of both loops of `session/pipeline.rs` | `slot`, `threadSlot`, `configSeen` are the session's shared fields; `refusing` is each recorder's `stopped`; `Start`, `Seed`, `Install` are `start_recording` cut where another thread can see a difference; `ReadPacket` and `PushPacket` are the two steps of a reader; `wait_for_the_file` is cut at each of its looks: at the thread (`WaitEnds`, `StillRunning`) and at the clock (`SleepsOn`, `GivesUp`) |
| `Session` | `session/mod.rs` `start_video` and `shutdown`, `session/pipeline.rs`, the pump of `mirror_host.rs` and `main.rs`, `stop_session` | channels as sequences of buffers; buffers have an identity. One action per blocking call and per turn of a loop |
| `Controller` | `control/controller.rs` | `queue`, one `waiting` message per pusher, the sender thread |
| `Input`, `MCInput` | `input/slint_input/`, `input/uhid/`, `input/aoa_hid.rs`, the callbacks of `mirror_host.rs` that call them, `run_otg` | `held`, `sentDown`, `vfinger` are `SlintInput`'s; `keyboard`, `mouse`, `modifiers`, `deviceModifiers`, `buttons`, `captured`, `captureApplied`, `captureKey` are `Uhid`'s; `usb` is what the phone believes at the end of its cable; `dev...` is what the device has been told. One action per event of the window, through both handlers. `MCInput` supplies the options |
| `AudioRegulator` | `audio/regulator.rs` | `ring` is `AudioBuffer`; `Push` and `Pull` are one critical section each |
| `AudioPath` | the audio loop of `session/pipeline.rs`, `start_audio` of `mirror_host.rs`, `audio/player.rs`; extends `AudioRegulator` | `audioThread` is the audio thread's program counter, `channel` the bounded channel, `audioStream` who holds its end, `card` whether the callback runs |
| `ServerConnection`, `MCServerConnection` | `Session::start`, `session/startup.rs`, `adb/commands.rs`, `adb/tunnel.rs`, `adb/protocol.rs`, `server/connection.rs` | `pc` follows the one thread through its blocking steps; `listener`, `reversed`, `forwarded`, `shell`, `sockets` are what it has to give back. The server and the desk are external actions |
| `Gamepads` | `input/gamepads.rs`, `input/hid_gamepad.rs` | `events` is gilrs's queue, `slots` is `HidGamepad`, `device` the last report of each pad. `Poll` drains the whole queue, as the timer does |
| `PanelSession`, `MCPanelSession` | `panel/session_run.rs`; extends `Gamepads` | a variable per slot of `Panel`; one action per callback of the event loop, one for the connecting thread's answer, one for a client's end |
| `PanelDevices`, `MCPanelDevices` | `panel/devices.rs`, the ticks and the profiles of `panel/wiring.rs`, autostart | `rows`, `selected`, `serial`, `profiles`, `editing` are the panel's; `scan` holds each scanning thread's list on its way |
| `CommandLine` | `panel/command/`, `options/`, `server/params.rs` | no state: `ToFlags` makes a set of flags of a form, `Parsed` the options of a client, `BuildServerArgs` the server's arguments |
| `PanelForm`, `MCPanelForm` | the form's callbacks, the bar, `panel/config.rs` | `config` (the form), `ticked`, `shown` and the two files, in memory and on disk; a start hands each device its client's line. `AskedOf` says, from the controls' side, what a session is asked to do, and `Does` what the options and the server's arguments come to |
| `FrameConversion` | `media/decoder/convert.rs` | a picture is its body, tail and edge and what lies behind it; `ChooseWrite` is `choose_write` |
| `VideoDecoder` | `media/decoder/mod.rs`, as `run_decoder` drives it; extends `FrameConversion` | the decoder's fields; libavcodec's packets inside and pictures ready |
| `MirrorPath`, `MCMirrorPath` | `main.rs` and `mirror_host.rs` from the frame on, `FlexDisplay`, `display/v4l2_sink.rs`; extends `VideoDecoder` | `frames`, `pool`, `screen`, the sink's `queue`, `seen` and `sent` of FlexDisplay; `moving` is a picture whose frames come closer together than `run_windowless` waits for one |
| `Filtering` | no code: the elements of a sequence that are in a set, as a recursive function | a proof can expand it, which it cannot with `SelectSeq` |
| `SessionProofs` (`Session`, `DelayBuffer`), `RecordingProofs` (`Recorder`, `RecordingSession`), `InputProofs` (`Input`, `Controller`), `PanelProofs` (`PanelSession`, `Gamepads`, `PanelDevices`), `PanelFormProofs` (`PanelForm`, `CommandLine`), `StreamProofs` (`MirrorPath`, `VideoDecoder`, `FrameConversion`, `AudioPath`, `AudioRegulator`), `ServerConnectionProofs`, `FilteringProofs` | | the theorems about the modules named |

Where one module of proofs covers several components, it extends them all, and
the specifications of the later ones carry the component's name so that they can
stand side by side: `DelaySpec`, `RecordingSpec`, `ControlSpec`, `DevicesSpec`,
`FormSpec`, `AudioSpec`, with `...Init`, `...Next` and `...Vars` likewise. The others are `Spec`.

How they compose.

* `DelayBuffer` implements `FrameFifo` (refinement mapping: `accepted` is the
  count of frames let in, `delivered` the last frame the renderer received,
  `open` the receiver), and `Session` uses a bounded FIFO for the delay line,
  which is what that refinement licenses.
* `RecordingSession` sees a recorder from outside, by what it is given and how
  its thread ends; `Recorder` shows that what it is given is what the file holds.
* `PanelSession` extends `Gamepads`: the session's life says when the pads are
  attached, detached and read. How one of its sessions connects is
  `ServerConnection`, how it runs and is torn down is `Session`.
* `AudioPath` puts the regulator between the two threads that share it.
* `MirrorPath` closes the loop around `VideoDecoder`: the buffers the decoder
  recycles are the ones the window let go, the size it decodes is the one
  FlexDisplay asked for. `Session` has the threads and channels of the same
  loop in full, with nothing in the frames.
* `PanelForm` uses `CommandLine` for the line it shows and the clients it
  starts; `PanelDevices` has the rows behind the ticks it takes as given.

### Abstractions

Frames and packets are numbers, or a kind with a timestamp; pixels and the
wire's layout are left out. Time is left out of `DelayBuffer` (a deadline may
pass at any moment, which covers whatever the clock estimates), and each timeout
(250 ms for a control push, the accept's, the resize's) is a step that may happen
whenever its condition holds. The five seconds a file is waited for are a clock
that may strike at any moment of the wait (`TimePasses`, `late`). libav, libswscale, gilrs, adb and
the USB bus are external: they may refuse at any call, and where the code cannot
know what they do (`sws_scale` writing past the last row, a decoder that drops
or doubles a picture) the model chooses freely.

* `Recorder`. The wait for the codecs (step 1 of `run_recorder`) is over at once,
  because both callers of `spawn` set the codecs of the streams they have first,
  and every caller of `set_audio_codec` says the stream has a config packet, so
  the thread always waits for one. Timestamps are naturals: `LastPacket` is
  `pts_origin.max(0)` on them.
* `Input`. A press is one step although it passes two handlers: both run on the
  event loop, one after the other, within the delivery of one event. A message
  pushed is taken for sent; what a refused one means is `Controller`'s subject.
  An OTG start that opened neither
  device is no session: its program ends.
  One mouse button stands for five, whose bits are independent. Every
  unregistration over USB is taken as done (a refused one is only logged).
* `AudioRegulator`. A sample is the number it was decoded under: its channel is
  its parity, and the order of the sound is the order of the numbers. Durations
  are numbers of frames.
* `ServerConnection`. A connection is a number; what adb lists is
  the set `bus` (here and in `PanelDevices`, whose scans read it), and other
  programs, cables and the server's own failures are the desk's actions. The
  first status of a reverse being lost is not modelled.
* `Controller`. The process lives on after the drop. A windowed client is a
  process that ends, and may end before its sender, which nobody joins, has
  written what it accepted; `AcceptedIsSent` says nothing of that.
* `Gamepads`. One button, one direction, one stick axis and one trigger of each
  pad; a position is counted in halves of the travel.
* `CommandLine`. A control, its flag, the option and the server's argument share
  a name, and each text is a member of a small set that says whether it parses.
  Quoting and the order of the flags are layout. `TheLineIsWhatRuns` does not ask
  about four controls: `otg` and `no_mipmaps`, which a launch leaves out and reports,
  `key_layout`, which no flag is made of, and `record_format`, whose default is never
  on the line and leaves the container to the path's extension.
* `MirrorPath`. The socket and the demuxer are left out (`Session` has them), and
  the hardware decoder, the sink and FlexDisplay are tried one at a time in the
  instance: they share no state but the display's size. A picture that moves goes
  on beyond the packets the instance decodes (`GoesOn`), as frames of the last
  size, so that the bound on packets is no pause in the stream.

## 3. The runs

| run | instance | states | asks |
|---|---|---|---|
| `delay_buffer` | IN_FLIGHT 2, channel 1, 6 frames | 2,939 | is every frame shown, in order, and nobody left asleep? |
| `recorder` | three video and two audio streams of up to 5 packets, with video only, audio only and both | 20,618 | is the file what was accepted? |
| `recording_session` | 3 video and 2 audio packets, 2 recordings | 1,147,369 | does a recording made mid-session have orphans or holes, and is whoever stops it told the truth? |
| `session` | pool 2, every channel 1, 6 packets; in the panel, in a window, without one | 1,091,052 | does every end of a session lead to a finished shutdown, and is the picture left alone? |
| `controller` | 2 pushers, queue 2, 2 messages each | 24,716 | does a message vanish, come out of order, or hold the event loop? |
| `input` | 3 letters, 2 modifiers, 8 sets of options | 875,296 | does anything stay down, or go two ways? |
| `panel_session` | 2 embedded attempts, 2 clients, 3 forms, 2 machines, 2 pads for 1 slot | 123,792 | does anything of one session reach the next? |
| `panel_devices` | 2 devices, 2 scans at once, 2 cards | 947,568 | does a session go to the wrong phone, or a save to the wrong profile? |
| `connection` | a wired and a wireless device, 3 ports, 8 command lines, 3 attempts | 119,524 | is what came up what was asked, and does a failure leave nothing behind? |
| `audio` | target 5, ring 10 frames, chunks of 0, 1 and 4, callbacks of 1 and 3, channel 2, 6 packets | 41,428 | is it the newest sound, in its own channel, and is it heard? |
| `mirror` | 2 sizes, 2 APIs, 3 packets in 2 sessions, channels 1, the sink's queue 2 | 1,069,501 | is a frame its own picture, and does the display settle? |
| `command_line` | every control alone and eight groups together; no, one, two ticks; 1 card | 17,902 | is what runs what the controls ask? |

### The properties

`delay_buffer`. `NoLostWakeup`: a thread sleeps only while what it waits for has
not happened. `NothingLost`: while somebody draws, a frame pushed is shown or is
in one place on the way. `ImplementsFifo`: the refinement. `NobodyWaitsForGood`:
a frame is shown unless the buffer stops or the renderer leaves, a producer
waiting for room is let go, and the drop that joins the worker returns.

`recorder`. `NothingAcceptedIsLost`: file, hands and queues together are what was
accepted, a file reported written is whole, and a recorder whose thread has gone
holds nothing. `TimestampsAreInOrder`: strictly rising in the container's own
time base, and not before the origin unless a stop decided it early.
`StopEndsTheFile`: no wait of the thread outlasts a stop.

`recording_session`. `NoOrphanRecorder`: a recorder that still takes packets is in
the slot or on its way there. `NoHoleInARecording`: what a recorder is given
after its seed is a run of consecutive packets. `EveryRecordingIsAnswered`: a stop
is answered, however long the recorder's thread takes; every recording started is
answered for or its thread still held; "failed" is said only of a recorder that
failed, and one that failed before the wait's last look is never said to be
written. A failure after that look is (section 5).

`session`. `PictureIsNotOverwritten`: the buffer on screen is in nobody else's
reach, and the buffers in circulation are bounded by what can be in flight (the
pool is only a cache, and an empty one makes the decoder allocate).
`SessionEnds`: whatever ends a session -- the user, the device, a decode error on
a still screen, a decoder that does not open -- shutdown returns with both
threads gone; the recording is closed; nobody holds the decoder for good.

`controller`. `NothingVanishes`: while the thread lives a message pushed was
refused, is sent or is on its way; what was refused is never sent; one thread's
messages keep their order. `AcceptedIsSent`: a push comes back, and what it
accepted is sent also after the Controller was dropped, unless the socket
stalls or fails.

`input`. `NothingIsLeftHeld`: what the device holds is held, or its release was
one the window never saw, and what a phone believes to be at the end of its cable
is registered here, so that nothing is once a session has ended.
`OneRoad`: a press never reaches the device both as a HID report and as a key
code, text or command; there are HID devices only of a kind the options ask for,
and only in a session; and a camera's server is sent no key but the torch's and
no touch, whether or not HID devices were asked for.
`OnlyWhatWentDownComesUp`: no release without a press under it.
`GrabIsGivenBack`: a pointer that is nobody's is released by the window.

`panel_session`. `NothingOfAnother`: every part the panel holds belongs to the
embedded session, no other session is up, and an answer is awaited with its own
options. `TheTrayTellsTheTruth`. `PadsAreTheHands`: what the device reads of a pad
is what the hand has done to it since it was opened, whichever pad had the slot
before, and it has no pad nobody can touch. `StoppedStaysStopped`: a start
stopped while connecting is never mounted and is undone by its worker.
`SessionsEnd`: a session with a picture ends with its server and at its time
limit, and clients that have ended are noticed.

`panel_devices`. `SessionGoesToTheTick`, `SaveWritesItsOwn`, `TicksAreKept`: no
profile, reset or scan moves a session to another phone; a save writes back to
the profile the form was filled from; a scan's result, however late, takes only
ticks of devices it looked for and did not find.

`connection`. `WhatIsUpIsWhatWasAsked`: the device is the one every selector
allows, each stream has the socket the server opened for it, though connections
were given up on the way, and required sound is announced by the server and given
to the thread that decodes it (whose decoder may still refuse: section 5). `TheWaitIsBounded`: the
wait for the sockets ends, and a server known to have gone is not waited for.
`HealthyStartsComeUp`: a start comes up unless something fails that is not the
client's. `NothingIsLeft`: neither a failed start nor an ended session leaves a
port, a tunnel or a server, and a session whose server has gone ends.

`audio`. `TheNewestAreKept`, `ChannelsKeepTheirPlace`: the ring holds the last
samples pushed, in order, the next of them a left one. `EverythingIsRecorded`:
no listener ever holds the recording up. `PlaybackStarts`: the cap before
playback lets the target be reached, and the cap during it leaves a callback.

`mirror`. `PictureIsItsOwn`: stamps and bytes of a frame are its picture's.
`DecodedWhereItMay`: a named API or nothing; AV1 hardware set up for an earlier
session only if that session never gave a picture. `FlexSettles`: once the
window rests, the display has been asked for its size. `NoFrameIsKept`: the
sink's delayed frame is written or gives way, the screen still or moving, except
without a window while a picture of another size than the sink's goes on moving.

`command_line`. `TheLineIsWhatRuns`: unless the form contradicts itself, every
device covered gets a client that runs and does what the controls say, the bar
shows the same lines, and one that names scrcpy is a line scrcpy takes.
`NothingStoredIsLost`: what is on disk is what is in memory, a whole file is
read, and a broken one is moved aside before it is written over.

### Bounds, and why they are enough

* `delay_buffer`: a queue of two is full, half full and empty; six frames fill
  the queue, the worker's hand and the channel, and leave two that must wait.
* `recorder`: the streams contain each thing the recorder treats specially:
  packets before the first config packet, a second config packet, a repeated
  timestamp, two timestamps in one tick, audio ahead of video and behind it,
  audio without a config packet. `Tick` is 2, so that rescaling loses
  information.
* `recording_session`: three video packets are the config packet, the keyframe
  and a delta frame; two recordings are one and the one after it. The recorder may
  fail before, between and after the looks of the wait, and the clock may strike
  at each.
* `session`: with every channel at one, six packets fill the whole chain and
  leave one in the demuxer's hands, with the delay line and without it. The
  bound on the buffers is reached.
* `controller`: a queue of two and four messages from two pushers: it fills
  while both wait.
* `input`: the letters are the one that pastes under Ctrl (`v`), the one that
  ends the session under the shortcut modifier (`q`) and one that a camera takes
  (`t`, the torch); every other letter behaves as one of them without its
  shortcut. Alt is both the shortcut modifier and a key that gives the pointer
  back. Shift is in the module and out of the instance: it changes which
  character a key is, and multiplies the states by thirty. The options are plain
  key codes, text without repeats, HID by socket, a camera without HID devices
  and one with them, no control channel, HID by cable, and the program that is
  nothing but HID by cable.
* `panel_session`: two attempts are a session and the one that must not inherit
  from it; two pads and one slot make a pad take another's place; one event in
  gilrs's queue is enough for a move to wait behind a session's end.
* `panel_devices`: two scans come back in either order; two cards let the one
  being edited be the first or the second when one is deleted. Devices, scans
  and profiles are symmetric; all three properties are safety properties.
* `connection`: three ports are a range whose first, or first two, are taken;
  three attempts let a connection be given up before and after the server
  listens. The eight command lines differ from the plain one in each thing the
  start looks at.
* `audio`: chunks of 1 and 4 in a ring of 10 overflow by odd and even numbers of
  frames; a callback of 3 finds less than it asks; a chunk of no frames is a
  packet that gave nothing; `Outputs` has a card that holds nothing.
* `mirror`: two sizes, each the other turned; a memory of two arrivals overflows
  with three packets; one packet held back is enough for a picture to come out
  in the next session; the sink's queue of two is filled, and overflows, with
  three. The picture may move without a pause beyond the third.
* `command_line`: two controls interact only where one operator reads both;
  the eight groups are those (camera, sound, picture, reaching a device, filing,
  turning, handling, displays). Each box is tried with a text that parses and
  one that does not, where both exist.

### Fairness, and why the code justifies it

A thread that can run does (weak fairness of its actions): the operating
system's scheduler. These cases need more words.

* `HoldEnds` of `DelayBuffer` is strongly fair: a push makes the worker work its
  deadline out again, but the deadline has a ceiling taken once, when the frame
  was picked up.
* A read from the video socket is only certain to return once the socket is
  shut (`WF_vars(socket = "shut" /\ ...)` of `Session`): the device may be silent
  for ever. `AudioPath` assumes nothing of the socket's end or of arrivals.
* In `ServerConnection` the client's own steps are fair, and once the tunnel is
  up its reads are while the server is not hung: accept, connect and the dummy
  byte have deadlines, the stream headers have none.
* The recorder is only certain to end once it has been told to stop, in `Recorder`
  and `Session`. In `RecordingSession` nothing is assumed of its thread, which a
  disk may hold for ever: the wait's own looks and the clock are fair, and
  suffice.
* `MirrorPath` promises no pause while the picture moves: `recv_timeout` is only
  certain to run out (`Idle`) when it does not, and while it does the next frame
  is certain to come.
* The window is given events (`WindowEvent` of `Input`): an open window is
  redrawn, and every event passes the handler that pays what is owed to the grab.
* The pump, the renderer's receive, the panel's pending, limit and watch timers
  and FlexDisplay's poll are weakly fair only while the event loop is free and
  the timer is held: their guards say both.
* The host takes or drops the audio stream in the event that mounts the
  session, and a card that is there calls back.

Nothing is assumed of the user, the device, the control socket, other programs,
or of a wake-up nobody caused. `PanelDevices` and `PanelForm` state safety
only and assume no fairness.

## 4. The proofs

| module | theorems | for every |
|---|---|---|
| `SessionProofs` | `Invariance`, `PictureIsSafe` (`PictureIsNotOverwritten`) | size of the pool, the channels and the delay line |
| | `DelayInvariance`, `TypeCorrect`, `SleepersAreWoken` (`NoLostWakeup`), `NoFrameIsLost` (`NothingLost`), `Refinement` (`ImplementsFifo`) | bound, channel, number of frames |
| `RecordingProofs` | `Invariance`, `TimestampsRise` (`TimestampsAreInOrder`), `NothingIsLost` (`NothingAcceptedIsLost`) | pair of streams, time base |
| | `RecordingInvariance`, `NoneIsOrphaned` (`NoOrphanRecorder`), `NoneHasAHole` (`NoHoleInARecording`), `RecordingsAreAnsweredFor` (`AnswersAreTrue`, the safety half of `EveryRecordingIsAnswered`) | number of packets and recordings |
| `InputProofs` | `Invariance`, `NothingStaysDown` (`NothingIsLeftHeld`), `ReleasesAreOfPresses` (`OnlyWhatWentDownComesUp`), `PressesTakeOneRoad` (`OneRoad`) | set of keys and of options, cameras with HID devices included |
| | `ControlInvariance`, `NoneVanishes` (`NothingVanishes`) | set of pushers, queue, number of messages |
| `PanelProofs` | `NothingOfAnotherHolds` (`NothingOfAnother`), `TheTrayIsRight` (`TheTrayTellsTheTruth`), `ThePadsAreRight` (`PadsAreTheHands`), `OverStaysOver` (`OverIsOver`, the safety half of `StoppedStaysStopped`) | number of attempts and pads, slots, queue of gilrs, forms |
| | `SavesWriteTheirOwn` (`SaveWritesItsOwn`), `SessionsGoToTheTick` (`SessionGoesToTheTick`), `TicksStay` (`TicksAreKept`) | set of devices, scans and cards |
| `PanelFormProofs` | `FilesInvariance`, `StoredIsKept` (`NothingStoredIsLost`) | form, number of cards, set of texts |
| | `FormInvariance`, `TheLineRuns` (`TheLineIsWhatRuns`) | set of devices, texts typed, folders, cards; what a conversion accepts and expands; which controls are edited together |
| `StreamProofs` | `PicturesAreTheirOwn` (`PictureIsItsOwn`), `PicturesAreDecodedWhereTheyMay` (`DecodedWhereItMay`) | sizes, APIs, packets, sessions, behaviours of libav and libswscale |
| | `AudioInvariance`, `NewestAreKept` (`TheNewestAreKept`), `ChannelsStay` (`ChannelsKeepTheirPlace`), `CapLeavesACallback` (`TheCapLeavesACallback`, the safety half of `PlaybackStarts`) | target, ring, cap, chunk, callback, channel |
| `ServerConnectionProofs` | `Invariance`, `RightSockets` (`WhatIsUpIsWhatWasAsked`), `GoneServersAreNotAwaited` (`AGoneServerIsNotAwaited`, the safety half of `TheWaitIsBounded`) | set of devices, command lines, ports, number of attempts |

The only assumptions are the named ones on the constants in each module
(`BufferAssumption`, `SessionAssumption`, ...): rooms and bounds are natural
numbers, positive where the code has a buffer of at least one. `FormAssumption`
says of the conversions what their code does: an expanded bit rate stays as it is
when it is expanded again and is accepted exactly when its text is, the form's
default rates expand to the options' defaults, and the default range of ports is
left alone. It also says that the clipboard's picker offers its three words, and
that neither an empty text nor the model's words for "not given" and "no device"
are serials, nor the former a text somebody typed. Each theorem is
of the specification its run checks, in whose fairness no proof has a use
(`FairSpec` is `DelaySpec` with fairness; `MCMirrorPath` starts from some of the
initial states of `MirrorPath`). Hardly any of the properties is inductive by
itself: each proof rests on an invariant of named parts (`Inv`, or `...Inv` with
the component's name), proved to hold initially and to be preserved, one lemma or
step per action.

* **Filtering.** What is kept of a sequence, of one with an element more, of two
  joined, and which elements those are. The function is recursive, and the
  library's induction takes an operator the provers cannot instantiate; the
  lemmas go instead by the least element of the set of lengths that fail
  (`LeastOne`, `OverNaturals`, `OverSequences`), which is a set and needs none.
* **Delay buffer** (`DelayInv`). `Sleepers`: who may sleep given where each thread is; without
  it a sleeping worker and a sleeping producer could coexist in states the code
  never reaches, and a push would break `NoLostWakeup`. `DelayPlaces`: what each
  program counter implies about the hand, the flag and the queue. `DelayCounts`:
  `pushed`, `accepted` and `shown` in terms of where frames are. `Line`: the frames
  in the channel, the hand and the queue are the consecutive numbers after the
  last frame shown, which makes `Receive` a `Deliver` of `FrameFifo`.
* **Recorder.** `Absences`: a stream the device does not give has no packets, and
  nothing is written before the origin is known. `FirstPackets`: where the first
  packet of each stream is once it is, in the file or waiting for its duration and
  not before the origin; the rest rise from it (`Ordered`). That the origin is
  the least of the first timestamps needs a least element of a set of naturals,
  which is the library's well-foundedness of `<`. Nothing lost is an account of
  each stream (`LossInv`). `VideoLine`: until the config packet is found, the queue has
  what follows the first of all that was accepted, for config packets before the
  first are dropped with what precedes them; from then on file, held packet,
  packets held aside and queue, joined, are what was accepted. `AudioLine` is the
  same without the wait. `Closing`: the trailer is written with all but the file
  empty. A round moves packets along the line and a push lengthens it, which is
  filtering of joined sequences.
* **Recording session** (`RecordingInv`). `Slots`: what the event loop is in the middle of. `Seeds`:
  a seed was read before what comes next. `Runs`: how the last packet of the
  recorder in the slot stands to the next its reader will push, which is what
  turns "no hole so far" into "no hole after this step". The answers rest on an
  account beside it (`Account`): where the event loop is says whose thread it holds
  (`AtTheCaller`), and that thread's recording is the only one without an answer.
  What is said once of a recorder, or has to be, stays so (`Told`).
* **Session.** `Apart`: each buffer is in one place. `Hands`: which thread holds one
  where. `Bounded`: the bound, whose use is inside the induction too: the decoder
  allocates with the pool empty, when what circulates is what is in flight less
  the one about to be filled (`InFlightCardinality`), so there is a buffer left to
  choose and the bound still holds. That needs cardinalities of ranges of
  sequences, which are lemmas from the library's facts about finite sets.
* **Controller** (`ControlInv`). The messages not refused stand in one line: written, in the hand,
  in the queue. The sender's steps leave the line as it is and a push adds at its
  end, later than all of its pusher's (`Numbers`, `Waiters`); `Accounted`: every
  message ever pushed is in the line, refused or waiting.
* **Audio path.** A ring is `Sound` at `p` when it holds the numbers just below `p`.
  Writing moves `p` on, skipping leaves it; a push and a pull are made of the two.
  That lengths stay even (`whole_frames`) is what keeps the channels.
* **Server connection.** When the server connects, what it opened is what the
  client accepted and then what waits to be (`Reversed`). When the client connects,
  the server may have accepted a connection the client gave up. Connections are
  numbered as they are made and accepted in that order (`Rising`), so the one the
  byte came on, which is the latest, is the server's only one (`LatestIsOnly`), and
  from there the client's sockets are the server's and its backlog for as long as
  the server listens (`Forwarded`). That two selectors contradict each other is a
  cardinality (`OneSelector`).
* **Input.** `Sent`: the key codes down are those `SlintInput` sent, in a mode that
  will send their releases. `Reports`, `Buttons`: a report holds something only while
  there is a device of its kind, a button only while the pointer is captured. `Begun`:
  in a session begun with nothing held, `Uhid`'s modifiers are the modifiers held,
  which makes the two handlers see the same shortcut modifier though each looks at
  its own record. `Cable`: what is plugged in is registered, and what is registered
  belongs to a session.
* **Panel session.** `Kinds` holds what is attached to 0 or the embedded session;
  `OneAtATime`: with an answer awaited nothing is embedded and no client runs, with
  something embedded nothing is awaited, and what is awaited was not cancelled.
  That the pads are read exactly while a session holds them ties the two modules.
* **Gamepads.** A slot is where its pad's hand is and the device was told of the
  slot as it is (`GoodPads`), relative to what gilrs has been heard to say (`view`),
  not to what is plugged in. `QueueLeads`: the events that wait lead from the one to
  the other, so a move that waits is of a pad connected when its turn comes. `Poll`
  folds the handler over the queue, and `GoodPads` is carried along the fold
  (`HandledKeeps`), by the same induction as filtering.
* **Devices.** `FormFollows`: a serial nobody typed is the first tick's, which with
  the one rule for the target decides where a session goes. A scan's pruning is
  filtering, so what it drops is what the scan did not find (`FilteredElements`).
* **Files.** `FilesInv`: while the panel runs, a file whose last write went through
  is what is in memory, and a broken one was torn by a write or could not be moved.
* **The form and its lines** (`FormInv`, over `FilesInv`). The bar shows the form as it
  is (`FillInv`), and whatever fills the form, a card from the disk included, is a
  text that was typed or is a control's own (`Fillable`): a card comes out of a file
  that was written by a panel, so the files have to be known first. The rest is of
  no state: any line made of a fillable form does what the form says (`LineSound`).
  `IsLine` says what is on a line under each name, whichever of the four ways it was
  made (the bar's, a client's, either of them for one device of several); it is
  proved by the groups of controls, whose names are apart (`ApartNames`), and a
  switch two controls share is dealt with on its own (`MouseBindFlags`).
  `ParsedOnce`, `TextGiven` and their like give back the options; `ArgsInGroup`
  and `ServedOnce` what the server does by the arguments made of them; `LineAgrees`
  joins the two to what was asked, control by control. `LineRuns`: each flag is on the
  line once with a value its option takes, and the contradictions `Session::start`
  refuses are the form's own. What a proof needs of the hundred options is their four
  tables, looked up once (`StreamTable` to `WindowTable`).
* **Decoder and mirror** (`DecoderInv`). `Flow`: what a converter writes reaches the
  whole picture and nothing else, however the picture it was chosen by looked
  (`WriteFits`, a case analysis of `choose_write`), and the frame on its way out has
  the stamps of its picture. `Origins`: which session and which decoder a picture
  inside came from. `Av1Inv`: hardware AV1 holds no picture back, and a context that
  outlived its session has shown none.
* **A server that has gone.** `AttemptsAre`: only a try of a server that still runs is
  counted; `WaitsEnd`: with the server gone, only the client's own steps end the
  wait, and each names it, or the attempts were spent.

Only model-checked: liveness everywhere (fairness and leads-to are beyond the
prover), which includes the second halves of `TheWaitIsBounded`,
`StoppedStaysStopped`, `PlaybackStarts` and `EveryRecordingIsAnswered`.

## 5. Observations

What modelling met in the code that its words, or a user, might not expect. The
models contain these or pass them by as noted; no run is spent on them.

Against the source's own words:

* `RecordingOutcome::Written` is documented as "The file was finished, as far as
  the muxer is concerned" (`session/recording.rs:18`). `wait_for_the_file` gives
  up after five seconds and its `None` becomes `Written` (`GivesUp` of
  `RecordingSession`), also of a recorder that failed between the wait's last
  `is_finished` and its look at the clock, ten milliseconds' sleep apart from the
  look before (`session/recording.rs:187-193`).
* `flush_due` is "called on every tick rather than only on the ticks that carry a
  frame" (`display/v4l2_sink.rs:341`), and the sink's queue "is drained by the clock as
  well as by an arriving frame" (`main.rs:609`). Without a window, a frame of another
  size than the sink's is neither written nor makes the queue be looked at
  (`main.rs:589-608`), and the clock has its turn only when no frame came for 100 ms:
  after a rotation the delayed frames stay while the picture moves. `NoFrameIsKept`
  excepts it (`MovesAtAnotherSize`), and fails without the exception.
* `ResetVideo` "is what makes a mid-session recording start clean"
  (`session/recording.rs:72-73`). The seeded config packet ends the recorder's wait
  at once, so delta frames that arrive before the keyframe are written.
* The seeded config packets are "the first thing it reads", the audio one because
  it "will not come again" (`session/recording.rs:107-110`). The audio thread stores
  its config packet and pushes it in two steps; a recording started around both
  has neither copy.
* "While the shortcut modifier is held the keys are the window's"
  (`input/uhid/mod.rs:104-105`), and `release_everything` says what a modifier left
  on the books does: "The keyboard is dead for the rest of the session". `detach`
  leaves it there: a session ended by MOD+q is followed by one whose HID keyboard
  withholds every press. `NothingIsLeftHeld` and `OneRoad` speak of HID modifiers
  and buttons only in sessions begun with nothing held (`clean`), for this reason.
* "The client holds those back while mirroring a camera" (`README.md:1648-1652`).
  `--keyboard=uhid` and `--mouse=uhid` attach to a camera session too, send it
  `UhidCreate` and then their reports, and its server takes neither. The model has
  these sessions, and `OneRoad` is asked of them; of what a camera is sent it speaks
  of touches and keys, which are held back in them as well.
* `--require-audio` is refused when the server announces no sound. A decoder that
  does not open is found by the audio thread, which logs it and returns
  (`session/pipeline.rs:230-236`): the session is up and silent (`Heard` of
  `ServerConnection`).
* "The narrower selector wins" (`panel/command/flags.rs:332`): a form with a serial and a TCP/IP address emits
  both, and `Session::start` refuses them. So does a form with several ticks and
  a selector whose serial box was cleared, though the bar drops the switches, and
  TCP/IP with several ticks.

Input:

* A held Ctrl+V pastes once; its repeats fall through to the key code road and
  press `v` (`input/slint_input/keyboard.rs:80-87`). A release follows.
* A focus lost while a letter is held over the key code road leaves it down on
  the device until it is pressed and let go again: `missed` of `NothingIsLeftHeld`.
* In raw mode the key code of a release is worked out from the character it
  arrives as; a digit let go under Shift has none (`input/slint_input/keyboard.rs:148`).
* `attach` takes the pointer whether or not the window has the focus. `buttons` is
  kept while the pointer is not captured.
* An OTG start that opens neither device leaves `run_otg` without `detach`
  (`main.rs:253-258`). A device registered and then not described stays with the
  phone unless `AoaHid`'s drop runs as the program exits, which is up to the backend
  that holds the handler; the model leaves it there, registered.
* A refused AOA unregistration and a report lost to a pulled cable are only
  logged. gilrs may emit `Connected` for pads present at its creation; a fifth
  pad is not opened when a slot frees.

Connection and panel:

* An embedded session without a picture never notices that its server has left
  (`session/mod.rs:143-145`); the main program's run of sound alone does.
  `SessionsEnd` speaks of sessions with a picture, for this reason.
* The list queries skip the refusals of contradicting selectors. The device's
  name and the stream headers are read without a deadline. A start that fails
  after `start_audio` leaves the audio thread its socket until the server is
  killed. `adb forward` is asked for without `norebind`. `--no-cleanup` skips only
  a wait, since `ShellHandle`'s drop shuts the shell.
* Quitting the panel while a worker connects cuts the worker. `camera_session`
  stays set after a refused camera start.
* Overlapping scans applied out of order can drop the tick of a device that is
  there again (`TicksAreKept` allows what a scan did not find); a typed serial is
  lost at a rescan. File pushes keep a control handle past the session, and
  concurrent batches share one status box.
* `forward_all_clicks` with custom bindings emits `--mouse-bind` twice, which clap
  refuses. `record_format` "mp4" is never emitted, so the path's extension
  decides. The bar does not know the recording folder and quotes `~`. `key_layout`
  is read by nobody. `camera_facing` "back" is never sent: the server takes its
  first camera, which `ServerDefault` takes to be the back one.
* A second broken profiles file overwrites the first `.json.broken`; a file that
  is not text is treated as none and overwritten by the next save; `fs::write` is
  not atomic; two panels overwrite each other's profiles.

Picture and sound:

* An audio decode error, or a decoder that does not open, also ends the audio of
  the recording. A session that holds its audio stream before it mounts blocks
  the audio thread after 32 chunks. A mono FLAC stream would defeat
  `whole_frames`. The regulator clears `pending_underflow` each second, line or not.
* `FlexDisplay` marks a size as sent though the push may time out
  (`mirror_host.rs:553`). The V4L2 sink's frames not yet due are lost with the
  session (`v4l2_sink.rs:347`). An AV1 hardware decoder is not opened again for a
  session after one that gave no picture (`media/decoder/mod.rs:513`); `choose_write`'s
  split comparison says nothing on a plain first picture.
* SIGINT during `Session::start` is noticed only after it.

## 6. The plan

Done: all the modules above, in the order of the table of runs.

Left, with what each is for:

1. A refinement of `Session` by `MirrorPath`'s loop, or of an abstract recorder by
   `Recorder` and `RecordingSession` together.
2. The device's side of the control channel: clipboard answers, acknowledgements
   and UHID output reports (`control/device_msg.rs`, `control/clipboard.rs`).
3. File pushes and their status box; the interactive pause; OTG's window.

## 7. Not modelled

* The wire formats (`media/demuxer.rs`, `control/control_msg.rs` `serialize`,
  `control/device_msg.rs`), adb's sync protocol and the HID reports' layout: bytes
  without a protocol of their own.
* Of the input path: the rollover past six keys, coordinates, the bindings'
  parser, digits, the key tables and the clipboard's answers.
* libavcodec, libavformat, libswscale, cpal, V4L2, the GPU, the USB bus: external,
  seen as calls that may fail or choose.
* The clock's estimate of the device's time: covered by nondeterminism.
* Window placement, the log tab, translations, shaders, logging.
* The time limit's stop from within its own timer callback: whether a dropped
  timer lets go of the frame receiver at once is up to Slint's timer list, outside
  this repository. `Session` has the corresponding case of the stop from within
  the pump's own callback.
* `try_clone` of the video socket failing at start, after which there is nothing
  to shut and the demuxer is only joined when the device closes the stream.

## Running it

```
tlc -workers 2 -config Session.cfg Session
tlc -workers 2 -config PanelForm.cfg MCPanelForm    # likewise Recorder, Input, PanelSession,
                                                    # PanelDevices, ServerConnection, MirrorPath
tlapm SessionProofs.tla
```
