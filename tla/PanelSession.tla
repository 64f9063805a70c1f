---------------------------- MODULE PanelSession ----------------------------
(***************************************************************************)
(* The life of a session in the control panel (panel/session_run.rs): how  *)
(* it is started, in this process (embedded) or as one client process per  *)
(* device (windowed), and everything that can end it.  Every callback of   *)
(* the panel runs on the one event loop and is one action; what runs       *)
(* beside it are the worker thread that connects an embedded session and   *)
(* the client processes.                                                   *)
(*                                                                         *)
(* Embedded sessions are numbered by attempt.  What the panel holds for    *)
(* the session, each in a slot of its own (Panel, panel/mod.rs), is the    *)
(* number of the session it was made for, or 0.  How a session connects is *)
(* module ServerConnection, how it runs and is torn down is module         *)
(* Session; here it is up, or it has been shut down.                       *)
(*                                                                         *)
(* Left out: the texts shown, the failure card, and a window that is gone  *)
(* while the event loop runs (run holds it until after the loop).          *)
(***************************************************************************)
EXTENDS Gamepads, FiniteSets

CONSTANTS
  Forms,        \* the options sessions are started with
  Machines,     \* what this machine may have: sound, a winit backend, gamepads to read
  Clients,      \* the devices a windowed start may name
  MaxAttempts   \* bound: embedded starts

ASSUME PanelSessionAssumption ==
  /\ Forms \subseteq [video : BOOLEAN, control : BOOLEAN, camera : BOOLEAN,
                      uhid : BOOLEAN, gamepad : BOOLEAN, limit : BOOLEAN]
  /\ Machines \subseteq SUBSET {"audio", "uhid", "gamepads"}
  /\ MaxAttempts \in Nat \ {0}

Attempts == 1..MaxAttempts
Parts == {"attachment", "audio", "controller", "uhid", "gamepads", "metrics", "limit"}

VARIABLES
  loop,       \* the event loop: "up", "over", or the process has ended ("done")
  attempts,   \* embedded starts so far
  form,       \* the options of each attempt, or Unset before it
  phase,      \* what became of each attempt
  gone,       \* attempts whose server has left
  pending,    \* Panel::pending: the attempt whose result is awaited
  timer,      \* Panel::pending_timer, which carries its attempt's options
  embedded,   \* Panel::embedded
  held,       \* the parts that belong to a session
  camera,     \* Panel::camera_session
  children,   \* Panel::process: the clients
  exited,     \* those of them that have ended
  watch,      \* Panel::session_watch
  running,    \* App.session-running
  tray,       \* what the tray was told, or "absent"
  cancelled   \* history: the attempts a stop found connecting

sessionVars == <<loop, attempts, form, phase, gone, pending, timer, embedded, held,
                 camera, children, exited, watch, running, tray, cancelled>>
vars == <<sessionVars, gamepadVars>>

Unset == NoPad
NoParts == [p \in Parts |-> 0]

Init ==
  /\ GamepadsInit
  /\ loop = "up"
  /\ attempts = 0
  /\ form = [n \in Attempts |-> Unset]
  /\ phase = [n \in Attempts |-> "unused"]
  /\ gone = {}
  /\ pending = 0 /\ timer = 0 /\ embedded = 0
  /\ held = NoParts
  /\ camera = FALSE
  /\ children = {} /\ exited = {}
  /\ watch = FALSE
  /\ running = FALSE
  /\ tray \in {"absent", "idle"}
  /\ cancelled = {}

IsRunning == children # {} \/ embedded # 0 \/ pending # 0

SyncTray(on) == IF tray = "absent" THEN tray ELSE IF on THEN "running" ELSE "idle"

-----------------------------------------------------------------------------
(* Starting.  A worker connects; its answer comes over a channel of its own. *)
TrayOfAStart_Untold == tray
TrayOfAStart == SyncTray(TRUE)

StartEmbedded == \E f \in Forms :
  LET n == attempts + 1 IN
  /\ loop = "up" /\ ~IsRunning
  /\ attempts < MaxAttempts
  /\ attempts' = n
  /\ form' = [form EXCEPT ![n] = f]
  /\ phase' = [phase EXCEPT ![n] = "connecting"]
  /\ pending' = n
  /\ timer' = n
  /\ tray' = TrayOfAStart
  /\ UNCHANGED <<cancelled, loop, gone, embedded, held, camera, children, exited, watch, running,
                 gamepadVars>>

(* One client per ticked device, or one for the device of the form; a client *)
(* that cannot be spawned is reported and the others are started anyway.     *)
StartWindowed == \E wanted \in SUBSET Clients : \E spawned \in SUBSET wanted :
  /\ loop = "up" /\ ~IsRunning
  /\ wanted # {}
  /\ children' = spawned
  /\ exited' = {}
  /\ watch' = (watch \/ spawned # {})
  /\ running' = (running \/ spawned # {})
  /\ tray' = IF spawned = {} THEN tray ELSE SyncTray(TRUE)
  /\ UNCHANGED <<cancelled, loop, attempts, form, phase, gone, pending, timer, embedded, held,
                 camera, gamepadVars>>

(* The worker of attempt n is done.  If nobody waits any more, the answer    *)
(* cannot be sent, and a session that came up is dropped, which shuts it     *)
(* down, on the worker.                                                      *)
Answer_Kept(n, up) == IF up THEN "offered" ELSE "refused"
Answer(n, up) ==
  IF pending # n THEN "over" ELSE IF up THEN "offered" ELSE "refused"

WorkerDone(n) == \E up \in BOOLEAN :
  /\ loop # "done"
  /\ phase[n] = "connecting"
  /\ phase' = [phase EXCEPT ![n] = Answer(n, up)]
  /\ UNCHANGED <<cancelled, loop, attempts, form, gone, pending, timer, embedded, held, camera,
                 children, exited, watch, running, tray, gamepadVars>>

(* The parts of session n, mounted with the options the timer carries.  The  *)
(* machine may have no sound, no gamepads to read and no winit backend.      *)
HasController(n) == form[n].video /\ form[n].control

LimitOf_Windowed(n, opts) == 0
LimitOf(n, opts) == IF opts.limit THEN n ELSE 0

Mounted(n, opts, has) ==
  [p \in Parts |->
     CASE p = "audio" -> IF "audio" \in has THEN n ELSE 0
       [] p \in {"attachment", "metrics"} -> IF form[n].video THEN n ELSE 0
       [] p = "controller" -> IF HasController(n) THEN n ELSE 0
       [] p = "uhid" -> IF HasController(n) /\ opts.uhid /\ "uhid" \in has THEN n ELSE 0
       [] p = "gamepads" ->
            IF HasController(n) /\ opts.gamepad /\ "gamepads" \in has THEN n ELSE 0
       [] p = "limit" -> LimitOf(n, opts)]

(* The timer's callback finds an answer: install_embedded.                   *)
Install ==
  LET n == pending
      opts == form[timer]
  IN
  /\ loop = "up"
  /\ timer # 0 /\ pending # 0
  /\ pending' = 0
  /\ camera' = opts.camera
  /\ \/ /\ phase[n] = "refused"
        /\ phase' = [phase EXCEPT ![n] = "over"]
        /\ running' = FALSE
        /\ tray' = SyncTray(FALSE)
        /\ UNCHANGED <<embedded, held, gamepadVars>>
     \/ /\ phase[n] = "offered"
        /\ phase' = [phase EXCEPT ![n] = "up"]
        /\ \E has \in Machines :
             held' = Mounted(n, opts, has)
        /\ IF held'["gamepads"] # 0 THEN Attach ELSE UNCHANGED gamepadVars
        /\ embedded' = n
        /\ running' = TRUE
        /\ tray' = SyncTray(TRUE)
  /\ UNCHANGED <<cancelled, loop, attempts, form, gone, timer, children, exited, watch>>

-----------------------------------------------------------------------------
(* Stopping.  An answer that was waiting in the channel is dropped with it,  *)
(* and a session in the answer is shut down by that.                         *)
StopAwaiting == pending' = 0 /\ timer' = 0

StopClients ==
  /\ children' = {}
  /\ exited' = {}
  /\ watch' = FALSE

Dropped_ButTheLimit == [NoParts EXCEPT !["limit"] = held["limit"]]
Dropped == NoParts

ShutDown(n) == n = embedded \/ (n = pending /\ phase[n] \in {"offered", "refused"})

StopSession ==
  /\ StopAwaiting
  /\ StopClients
  /\ held' = Dropped
  /\ IF held["gamepads"] # 0 THEN Detach ELSE UNCHANGED gamepadVars
  /\ camera' = FALSE
  /\ embedded' = 0
  /\ phase' = [n \in Attempts |-> IF ShutDown(n) THEN "over" ELSE phase[n]]
  /\ cancelled' = cancelled \cup ({pending} \ {0})
  /\ running' = FALSE
  /\ tray' = SyncTray(FALSE)
  /\ UNCHANGED <<attempts, form, gone>>

(* The button, and the tray's entry while something runs.                    *)
StopButton == loop = "up" /\ StopSession /\ UNCHANGED loop
TrayToggle == loop = "up" /\ tray # "absent" /\ IsRunning /\ StopSession /\ UNCHANGED loop

(* MOD+q in the mirror, which only an attachment hears.                      *)
QuitShortcut == loop = "up" /\ held["attachment"] # 0 /\ StopSession /\ UNCHANGED loop

(* The pump's channel has no more frames: the attachment's on_end.           *)
PictureEnds ==
  /\ loop = "up"
  /\ held["attachment"] \in gone
  /\ StopSession
  /\ UNCHANGED loop

(* The single shot of start_the_time_limit.                                  *)
LimitFires == loop = "up" /\ held["limit"] # 0 /\ StopSession /\ UNCHANGED loop

(* The watch over the clients.                                               *)
WatchClients ==
  /\ loop = "up"
  /\ watch
  /\ exited # {}
  /\ children' = children \ exited
  /\ exited' = {}
  /\ running' = (running /\ children' # {})
  /\ tray' = IF children' = {} THEN SyncTray(FALSE) ELSE tray
  /\ UNCHANGED <<cancelled, loop, attempts, form, phase, gone, pending, timer, embedded, held,
                 camera, watch, gamepadVars>>

(* "Close to tray" is switched on or off.                                    *)
TrayPresence ==
  /\ loop = "up"
  /\ tray' = IF tray # "absent" THEN "absent" ELSE IF IsRunning THEN "running" ELSE "idle"
  /\ UNCHANGED <<cancelled, loop, attempts, form, phase, gone, pending, timer, embedded, held,
                 camera, children, exited, watch, running, gamepadVars>>

(* The window is closed or a signal arrives: the event loop ends, run stops  *)
(* the session, and the process leaves with whatever thread it still has.    *)
LoopEnds == loop = "up" /\ loop' = "over" /\ StopSession
ProcessEnds ==
  /\ loop = "over"
  /\ loop' = "done"
  /\ phase' = [n \in Attempts |-> IF phase[n] = "connecting" THEN "cut" ELSE phase[n]]
  /\ UNCHANGED <<cancelled, attempts, form, gone, pending, timer, embedded, held, camera, children,
                 exited, watch, running, tray, gamepadVars>>

-----------------------------------------------------------------------------
(* The devices and the client processes.                                     *)
ServerLeaves(n) ==
  /\ phase[n] = "up"
  /\ gone' = gone \cup {n}
  /\ UNCHANGED <<cancelled, loop, attempts, form, phase, pending, timer, embedded, held, camera,
                 children, exited, watch, running, tray, gamepadVars>>

ClientEnds == \E c \in children \ exited :
  /\ exited' = exited \cup {c}
  /\ UNCHANGED <<cancelled, loop, attempts, form, phase, gone, pending, timer, embedded, held,
                 camera, children, watch, running, tray, gamepadVars>>

DeskMoves == loop = "up" /\ Desk /\ UNCHANGED sessionVars
PollPads == loop = "up" /\ Poll /\ UNCHANGED sessionVars

Stops == StopButton \/ TrayToggle \/ QuitShortcut \/ PictureEnds \/ LimitFires \/ LoopEnds
Workers == \E n \in Attempts : WorkerDone(n)
Servers == \E n \in Attempts : ServerLeaves(n)
Done == loop = "done" /\ UNCHANGED vars

Next ==
  \/ StartEmbedded \/ StartWindowed \/ Workers \/ Install
  \/ Stops \/ WatchClients \/ TrayPresence \/ ProcessEnds
  \/ Servers \/ ClientEnds \/ DeskMoves \/ PollPads \/ Done

(* Timers that are held fire, a worker's start comes to an end (adb's waits  *)
(* are bounded, see ServerConnection).                                       *)
Fairness ==
  /\ \A n \in Attempts : WF_vars(WorkerDone(n))
  /\ WF_vars(Install)
  /\ WF_vars(PictureEnds)
  /\ WF_vars(LimitFires)
  /\ WF_vars(WatchClients)
  /\ WF_vars(ProcessEnds)

Spec == Init /\ [][Next]_vars /\ Fairness

-----------------------------------------------------------------------------
TypeOK ==
  /\ GamepadsTypeOK
  /\ loop \in {"up", "over", "done"}
  /\ attempts \in 0..MaxAttempts
  /\ phase \in [Attempts -> {"unused", "connecting", "offered", "refused", "up", "over", "cut"}]
  /\ {pending, timer, embedded} \subseteq 0..MaxAttempts
  /\ held \in [Parts -> 0..MaxAttempts]
  /\ exited \subseteq children
  /\ tray \in {"absent", "idle", "running"}

(* Nothing of one session is left for the next: every part the panel holds,  *)
(* its time limit and the gamepads being read among them, belongs to the     *)
(* session that is embedded, no session is up that is not the embedded one,  *)
(* and the timer that awaits an answer has the options of the attempt it     *)
(* awaits (session_run.rs, install_embedded and stop_session).               *)
NothingOfAnother ==
  /\ TypeOK
  /\ \A p \in Parts : held[p] \in {0, embedded}
  /\ reading <=> held["gamepads"] # 0
  /\ \A n \in Attempts : phase[n] = "up" => n = embedded
  /\ pending # 0 => timer = pending
  /\ embedded # 0 => pending = 0 /\ children = {}

(* What the window and the tray say is so: the window says running exactly   *)
(* while a session is up or a client has not been seen to end, the tray also *)
(* while one is on its way (sync_tray; the comment at start_embedded).       *)
TheTrayTellsTheTruth ==
  /\ running <=> embedded # 0 \/ children # {}
  /\ tray # "absent" => (tray = "running" <=> IsRunning)

(* A start that was stopped while it was connecting is never mounted, and a  *)
(* session that is over stays over.                                          *)
OverIsOver ==
  [][\A n \in Attempts : /\ (embedded' = n /\ embedded # n) => n \notin cancelled
                         /\ phase[n] = "over" => phase'[n] = "over"]_vars

(* So it is; and what was stopped is undone where it was made: the worker of *)
(* a stopped start comes to an end and shuts down what it had brought up,    *)
(* unless the process has ended.                                             *)
StoppedStaysStopped ==
  /\ OverIsOver
  /\ \A n \in Attempts :
       (phase[n] = "connecting" /\ pending # n) ~> (phase[n] \in {"over", "cut"})

(* A session does not go on without its device: when the server has left, or *)
(* the time limit was set, a session with a picture ends, and so do the      *)
(* clients that have ended, for the panel.                                   *)
SessionsEnd ==
  /\ \A n \in Attempts :
       (embedded = n /\ ((n \in gone /\ form[n].video) \/ form[n].limit)) ~> (embedded # n)
  /\ (children # {} /\ exited = children) ~> (exited = {})
=============================================================================
