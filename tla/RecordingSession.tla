---------------------------- MODULE RecordingSession ----------------------------
(***************************************************************************)
(* Recording a session that is running (session/recording.rs), with the    *)
(* two threads that feed it (session/pipeline.rs).  The session keeps a    *)
(* slot for the recorder, one for the recorder's thread, and the last      *)
(* config packet each stream sent.  The demuxer and the audio pipeline     *)
(* read a packet, remember it when it is a config packet, then push it to  *)
(* whatever recorder is in the slot at that moment; the caller installs    *)
(* and removes recorders meanwhile, in several steps.                      *)
(*                                                                         *)
(* A recorder is seen from outside: module Recorder shows that what it was *)
(* given is what the file holds.  Packets are numbered per stream.         *)
(***************************************************************************)
EXTENDS Naturals, Sequences

CONSTANTS
  MaxVideo, MaxAudio,   \* bounds: packets read of each stream
  MaxRecordings         \* bound: recordings started

ASSUME SessionAssumption ==
  MaxVideo \in Nat /\ MaxAudio \in Nat /\ MaxRecordings \in Nat \ {0}

Streams == {"video", "audio"}
MaxRead == [s \in Streams |-> IF s = "video" THEN MaxVideo ELSE MaxAudio]
Recordings == 1..MaxRecordings
None == 0

VARIABLES
  slot,                 \* Session::recorder: the recording in it, or None
  threadSlot,           \* Session::recorder_thread
  configSeen,           \* Session::video_config, audio_config: a packet number, or None
  demux,                \* where each reader is: "read", "push" or "ended"
  read,                 \* how many packets each has read
  kind,                 \* the kind of the packet each is holding
  videoNext,            \* what the encoder sends next, unless it was reset
  resetPending,         \* a ResetVideo is on its way to the device
  caller,               \* what the event loop is doing with the session
  late,                 \* wait_for_the_file: its deadline has passed
  started,              \* how many recordings were started
  got,                  \* what each recorder was given, per stream
  refusing,              \* RecorderState::stopped of each
  thread,               \* each recorder's thread: "none", "running", "written" or "failed"
  reported              \* what stop_recording told the user of each

readers == <<configSeen, demux, read, kind, videoNext>>
recorders == <<got, refusing, thread>>
recordingVars == <<slot, threadSlot, configSeen, demux, read, kind, videoNext, resetPending,
          caller, late, started, got, refusing, thread, reported>>

P(k, n) == [kind |-> k, n |-> n]

RecordingInit ==
  /\ slot = None /\ threadSlot = None
  /\ configSeen = [s \in Streams |-> None]
  /\ demux = [s \in Streams |-> "read"]
  /\ read = [s \in Streams |-> 0]
  /\ kind = [s \in Streams |-> "config"]
  /\ videoNext = "config" /\ resetPending = FALSE
  /\ caller = "idle" /\ late = FALSE /\ started = 0
  /\ got = [r \in Recordings |-> [s \in Streams |-> <<>>]]
  /\ refusing = [r \in Recordings |-> FALSE]
  /\ thread = [r \in Recordings |-> "none"]
  /\ reported = [r \in Recordings |-> "nothing"]

--------------------------------------------------------------------------------
(* The readers: run_demuxer and run_audio_pipeline *)

(* The encoder opens with a config packet and a keyframe, and sends them   *)
(* again when it is reset; the audio stream opens with one config packet   *)
(* and never sends another.                                                *)
ReadPacket(s, k) ==
  /\ demux[s] = "read" /\ read[s] < MaxRead[s]
  /\ read' = [read EXCEPT ![s] = @ + 1]
  /\ kind' = [kind EXCEPT ![s] = k]
  /\ configSeen' = IF k = "config" THEN [configSeen EXCEPT ![s] = read[s] + 1] ELSE configSeen
  /\ demux' = [demux EXCEPT ![s] = "push"]
  /\ UNCHANGED <<slot, threadSlot, caller, late, started, recorders, reported>>

ReadVideo ==
  \/ /\ ReadPacket("video", videoNext)
     /\ videoNext' = IF videoNext = "config" THEN "key" ELSE "delta"
     /\ UNCHANGED resetPending
  \/ /\ resetPending /\ videoNext = "delta"
     /\ ReadPacket("video", "config")
     /\ videoNext' = "key"
     /\ resetPending' = FALSE

ReadAudio ==
  /\ ReadPacket("audio", IF read["audio"] = 0 THEN "config" ELSE "audio")
  /\ UNCHANGED <<videoNext, resetPending>>

Give_UnlessContended(r, s, p) ==
  got' \in {got, IF refusing[r] THEN got ELSE [got EXCEPT ![r][s] = Append(@, p)]}
Give(r, s, p) == got' = IF refusing[r] THEN got ELSE [got EXCEPT ![r][s] = Append(@, p)]

(* push_video or push_audio on the recorder in the slot, under its read    *)
(* lock, if there is one.                                                  *)
PushPacket(s) ==
  /\ demux[s] = "push"
  /\ demux' = [demux EXCEPT ![s] = "read"]
  /\ IF slot = None THEN UNCHANGED got ELSE Give(slot, s, P(kind[s], read[s]))
  /\ UNCHANGED <<slot, threadSlot, configSeen, read, kind, videoNext, resetPending, caller,
                 late, started, refusing, thread, reported>>

(* The video stream ends, or nobody takes its packets: the demuxer stops   *)
(* what is in the slot and leaves it there.  The end of the audio stops    *)
(* nothing: it is a stream of which no more is read.                       *)
VideoEnds ==
  /\ demux["video"] = "read"
  /\ demux' = [demux EXCEPT !["video"] = "ended"]
  /\ refusing' = IF slot = None THEN refusing ELSE [refusing EXCEPT ![slot] = TRUE]
  /\ UNCHANGED <<slot, threadSlot, configSeen, read, kind, videoNext, resetPending, caller,
                 late, started, got, thread, reported>>

--------------------------------------------------------------------------------
(* start_recording, in the order of its effects *)

(* One recording at a time: the thread is spawned and kept. *)
Start_AnyTime ==
  /\ caller = "idle" /\ started < MaxRecordings
  /\ started' = started + 1
  /\ thread' = [thread EXCEPT ![started + 1] = "running"]
  /\ threadSlot' = started + 1
  /\ caller' = "seeding"
  /\ UNCHANGED <<slot, readers, resetPending, late, got, refusing, reported>>
Start ==
  /\ caller = "idle" /\ slot = None /\ started < MaxRecordings
  /\ started' = started + 1
  /\ thread' = [thread EXCEPT ![started + 1] = "running"]
  /\ threadSlot' = started + 1
  /\ caller' = "seeding"
  /\ UNCHANGED <<slot, readers, resetPending, late, got, refusing, reported>>

(* The config packets from the top of each stream go in first. *)
Seed ==
  /\ caller = "seeding"
  /\ caller' = "installing"
  /\ got' = [got EXCEPT ![started] =
       [s \in Streams |-> IF configSeen[s] = None \/ refusing[started]
                            THEN <<>> ELSE <<P("config", configSeen[s])>>]]
  /\ UNCHANGED <<slot, threadSlot, readers, resetPending, late, started, refusing, thread,
                 reported>>

(* The recorder becomes visible to the readers, and the device is asked    *)
(* for a keyframe.  The request may find its queue full and be lost.       *)
Install ==
  /\ caller = "installing"
  /\ caller' = "idle"
  /\ slot' = started
  /\ resetPending' \in {resetPending, TRUE}
  /\ UNCHANGED <<threadSlot, readers, late, started, recorders, reported>>

--------------------------------------------------------------------------------
(* stop_recording and wait_for_the_file *)

(* The recorder leaves the slot before the wait begins, and the thread is  *)
(* the wait's from then on: nobody else looks at the slot it was in.       *)
StopRecording ==
  /\ caller = "idle" /\ slot # None
  /\ slot' = None
  /\ refusing' = [refusing EXCEPT ![slot] = TRUE]
  /\ caller' = "waiting" /\ late' = FALSE
  /\ UNCHANGED <<threadSlot, readers, resetPending, started, got, thread, reported>>

(* Joining a thread that is over says what it returned. *)
JoinAnswer(r) == IF thread[r] = "failed" THEN "failed" ELSE "written"

Answer(what) ==
  /\ reported' = [reported EXCEPT ![threadSlot] = what]
  /\ threadSlot' = None
  /\ caller' = "idle" /\ late' = FALSE
  /\ UNCHANGED <<slot, readers, resetPending, started, recorders>>

(* One look: the thread is over and is joined, or it still runs. *)
WaitEnds ==
  /\ caller = "waiting" /\ thread[threadSlot] \in {"written", "failed"}
  /\ Answer(JoinAnswer(threadSlot))

StillRunning_Anew ==
  /\ caller = "waiting" /\ thread[threadSlot] = "running"
  /\ caller' = "unfinished" /\ late' = FALSE
  /\ UNCHANGED <<slot, threadSlot, readers, resetPending, started, recorders, reported>>
StillRunning ==
  /\ caller = "waiting" /\ thread[threadSlot] = "running"
  /\ caller' = "unfinished"
  /\ UNCHANGED <<slot, threadSlot, readers, resetPending, late, started, recorders, reported>>

(* It ran: there is time for another look, or the five seconds are over    *)
(* and it is left to finish.  No failure is what stop_recording calls      *)
(* written, whatever has become of the thread since the look.              *)
SleepsOn ==
  /\ caller = "unfinished" /\ ~late
  /\ caller' = "waiting"
  /\ UNCHANGED <<slot, threadSlot, readers, resetPending, late, started, recorders, reported>>

GivesUp == caller = "unfinished" /\ late /\ Answer("written")

TimePasses ==
  /\ caller \in {"waiting", "unfinished"} /\ ~late
  /\ late' = TRUE
  /\ UNCHANGED <<slot, threadSlot, readers, resetPending, caller, started, recorders, reported>>

Wait == WaitEnds \/ StillRunning \/ SleepsOn \/ GivesUp

--------------------------------------------------------------------------------
(* The recorder's thread, as module Recorder describes it: it ends after a *)
(* stop, or by itself when libav or the disk refuses; either way nothing   *)
(* more is accepted.                                                       *)

ThreadEnds(r) ==
  /\ thread[r] = "running" /\ refusing[r]
  /\ \E how \in {"written", "failed"} : thread' = [thread EXCEPT ![r] = how]
  /\ UNCHANGED <<slot, threadSlot, readers, resetPending, caller, late, started, got, refusing,
                 reported>>

ThreadFails(r) ==
  /\ thread[r] = "running" /\ ~refusing[r]
  /\ thread' = [thread EXCEPT ![r] = "failed"]
  /\ refusing' = [refusing EXCEPT ![r] = TRUE]
  /\ UNCHANGED <<slot, threadSlot, readers, resetPending, caller, late, started, got, reported>>

--------------------------------------------------------------------------------
(* Nothing more is read or asked for. *)
RecordingFinished ==
  /\ demux["video"] = "ended" /\ demux["audio"] = "read"
  /\ caller = "idle" /\ slot = None /\ started = MaxRecordings
  /\ \A r \in Recordings : thread[r] # "running"
  /\ UNCHANGED recordingVars

RecordingNext ==
  \/ ReadVideo \/ ReadAudio \/ VideoEnds
  \/ \E s \in Streams : PushPacket(s)
  \/ Start \/ Seed \/ Install \/ StopRecording \/ Wait \/ TimePasses
  \/ \E r \in Recordings : ThreadEnds(r) \/ ThreadFails(r)
  \/ RecordingFinished

(* The event loop goes on with its wait, and the clock with it.  Nothing   *)
(* is assumed of the recorder's thread: a disk may hang for ever.          *)
Fairness == WF_recordingVars(Wait) /\ WF_recordingVars(TimePasses)

RecordingSpec == RecordingInit /\ [][RecordingNext]_recordingVars /\ Fairness

--------------------------------------------------------------------------------
(* Properties *)

(* No recorder is orphaned: one that still takes packets is in the slot,   *)
(* where a stop or the end of the stream finds it, or on its way there.  A *)
(* recorder lost from the slot would wait for packets for ever.            *)
NoOrphanRecorder ==
  \A r \in Recordings :
    thread[r] = "running" /\ ~refusing[r] =>
      slot = r \/ (caller \in {"seeding", "installing"} /\ started = r)

(* What a recorder gets of a stream after the packets it was seeded with   *)
(* is a run of consecutive packets: from its installation to its stop none *)
(* is missed, none comes twice and none comes from before the seed.        *)
NoHoleInARecording ==
  \A r \in Recordings, s \in Streams :
    \A i \in 2..Len(got[r][s]) :
      \/ got[r][s][i].n = got[r][s][i - 1].n + 1
      \/ i = 2 /\ got[r][s][i].n >= got[r][s][1].n

(* The session loses track of no recording: of those started, the one that *)
(* nothing has been said of is the one whose thread it still holds, and    *)
(* one it has answered for takes nothing more and is in neither slot.      *)
(* Failed is said only of one that failed.                                 *)
NoneIsForgotten ==
  \A r \in 1..started :
    /\ reported[r] = "nothing" => threadSlot = r
    /\ reported[r] # "nothing" => refusing[r] /\ slot # r /\ threadSlot # r
    /\ reported[r] = "failed" => thread[r] = "failed"

(* A recorder that fails is said to be written only if it failed after the *)
(* wait's last look: one that failed while it recorded, or before another  *)
(* look was had, never is.                                                 *)
FailedInTime(r) == thread[r] = "failed" /\ reported[r] = "nothing" /\ caller # "unfinished"

AnswersAreTrue ==
  /\ []NoneIsForgotten
  /\ \A r \in Recordings : [](FailedInTime(r) => [](reported[r] # "written"))

(* Whoever stops a recording gets an answer, however long the disk takes,  *)
(* and the answers are true of what was known when they were given.        *)
EveryRecordingIsAnswered == AnswersAreTrue /\ ((caller = "waiting") ~> (caller = "idle"))
================================================================================
