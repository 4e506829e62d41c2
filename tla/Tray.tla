-------------------------------- MODULE Tray --------------------------------
(***************************************************************************)
(* The tray's view of the daemon: the pump that keeps TrayState in step    *)
(* with the Recorder1 signals (pump.rs, state.rs, dbus.rs, version.rs),    *)
(* the dispatcher that turns menu commands into calls (cmd.rs, tray.rs)    *)
(* and the transcript sinks (sink/).                                       *)
(*                                                                         *)
(* The daemon is the environment: the signals and state files of a         *)
(* session in the order of the Sessions module, with the awaits that the   *)
(* tray cannot see folded together.  It may crash and be started again,    *)
(* possibly as another version; clients other than the tray use it too.    *)
(***************************************************************************)
EXTENDS Naturals, Sequences, FiniteSets

CONSTANTS
    None,          \* no session, no file, no command
    CmdCapacity,   \* COMMAND_CHANNEL_CAPACITY
    SinkCapacity,  \* SINK_CHANNEL_CAPACITY
    Bounds         \* the bounds a behaviour may have: the number of sessions,
                   \* daemon crashes and menu clicks, the commands clicked,
                   \* whether the daemon may start late or as another version

Command == {"start", "stop", "setActive"}

VARIABLES
    bound,      \* the bounds of this behaviour
    up,         \* the daemon owns its bus name
    compat,     \* its PROTOCOL_VERSION is the tray's
    phase,      \* per session: how far the daemon has taken it
    slot,       \* the active session
    activeFile, \* session named by active-session.json
    lastFile,   \* last-session.json: None or [id, full]
    signalled,  \* the last StateChanged value emitted
    pump,       \* control state of run_pump / run_inner
    queues,     \* per subscription: what arrived and was not yet handled
    status,     \* GetStatus reply held by snapshot
    tray,       \* TrayState: icon, session, timer, last, pending
    cmdQueue,   \* the menu -> dispatcher channel
    dispatcher, \* control state of run_dispatcher and of the call it awaits
    daemonReady,\* the gate of the hotkey listener
    sinkQueue,  \* the pump -> sink dispatcher channel
    sunk,       \* sessions whose transcript reached the sinks, in order
    shutdown,   \* the shutdown broadcast
    seen        \* history: crashes, clicks, missed, failed; whether a daemon
                \* came up in the gap of the present connection (replaced),
                \* and found signals of the one before queued (stale)

daemonVars == <<bound, up, compat, phase, slot, activeFile, lastFile, signalled>>
pumpVars == <<pump, status>>
sinkVars == <<sinkQueue, sunk>>
cmdVars == <<cmdQueue, dispatcher, daemonReady>>
vars == <<daemonVars, pumpVars, queues, tray, cmdVars, sinkVars, shutdown, seen>>

(* Sessions are numbered in the order in which they are admitted.          *)
Session == 1 .. bound.sessions

(* What the wire may say, and the icons.                                   *)
WireState == {"idle", "starting", "recording", "stopping", "failed"}
IconState == WireState \union {"offline"}

NoQueues == [owner |-> <<>>, state |-> <<>>, recorded |-> <<>>,
             transcribed |-> <<>>]

(* Mutant: the snapshot is taken before the signals are subscribed to.     *)
SubscribedLate(q) == pump = "loop"

(* The subscriptions, in their order; all of them precede the snapshot.    *)
Subscribed(q) ==
    \/ pump \in {"subscribed", "statusRead", "loop"}
    \/ pump \in {"hearsState", "hearsRecorded", "hearsTranscribed"} /\ q = "state"
    \/ pump \in {"hearsRecorded", "hearsTranscribed"} /\ q = "recorded"
    \/ pump = "hearsTranscribed" /\ q = "transcribed"

(* After the handshake, before the subscription that hears of a new daemon.*)
InGap == pump \in {"verified", "hearsState", "hearsRecorded", "hearsTranscribed"}

Init ==
    /\ bound \in Bounds
    /\ up \in {TRUE, ~bound.late}
    /\ compat \in {TRUE, ~bound.late}
    /\ phase = [s \in Session |-> "none"]
    /\ slot = None /\ activeFile = None /\ lastFile = None
    /\ signalled = "idle"
    /\ pump = "connecting" /\ status = "idle"
    /\ queues = NoQueues
    /\ tray = [icon |-> "offline", session |-> None, timer |-> FALSE,
               last |-> None, pending |-> None]
    /\ cmdQueue = <<>> /\ dispatcher = [pc |-> "handshake", arg |-> None]
    /\ daemonReady = FALSE
    /\ sinkQueue = <<>> /\ sunk = <<>>
    /\ shutdown = FALSE
    /\ seen = [crashes |-> 0, clicks |-> 0, missed |-> FALSE, failed |-> FALSE,
               replaced |-> FALSE, stale |-> FALSE]

-----------------------------------------------------------------------------
(* The daemon *)

Deliver(q, m) ==
    /\ queues' = IF Subscribed(q) THEN [queues EXCEPT ![q] = Append(@, m)] ELSE queues

(* emit_state_changed; a tray that is not subscribed misses it.            *)
Announce(s, v) ==
    /\ Deliver("state", [session |-> s, value |-> v])
    /\ signalled' = v
    /\ seen' = [seen EXCEPT !.missed = @ \/ ~Subscribed("state"),
                            !.failed = @ \/ v = "failed"]

(* The reply of the StartRecording or StopRecording call that the          *)
(* dispatcher awaits for session s, if it is the tray's.                   *)
Reply(s, ok) ==
    dispatcher' = IF dispatcher.pc = "serving" /\ dispatcher.arg = s
                  THEN [pc |-> IF ok THEN "replyOk" ELSE "replyErr", arg |-> None]
                  ELSE dispatcher

(* A start that finds the slot empty: the tray's own or another client's.  *)
AcceptStart(s, byTray) ==
    /\ up /\ slot = None /\ phase[s] = "none"
    /\ \A t \in 1 .. s - 1 : phase[t] # "none"
    /\ byTray => dispatcher.pc = "start"
    /\ slot' = s
    /\ phase' = [phase EXCEPT ![s] = "starting"]
    /\ Announce(s, "starting")
    /\ dispatcher' = IF byTray THEN [pc |-> "serving", arg |-> s] ELSE dispatcher
    /\ UNCHANGED <<bound, up, compat, activeFile, lastFile, pumpVars, tray, cmdQueue,
                   daemonReady, sinkVars, shutdown>>

StartSucceeds(s) ==
    /\ phase[s] = "starting"
    /\ phase' = [phase EXCEPT ![s] = "recording"]
    /\ activeFile' = s
    /\ Announce(s, "recording")
    /\ Reply(s, TRUE)
    /\ UNCHANGED <<bound, up, compat, slot, lastFile, pumpVars, tray, cmdQueue,
                   daemonReady, sinkVars, shutdown>>

StartFails(s) ==
    /\ phase[s] = "starting"
    /\ phase' = [phase EXCEPT ![s] = "ended"]
    /\ slot' = None
    /\ Announce(s, "failed")
    /\ Reply(s, FALSE)
    /\ UNCHANGED <<bound, up, compat, activeFile, lastFile, pumpVars, tray, cmdQueue,
                   daemonReady, sinkVars, shutdown>>

(* The recorder is stopped: by the tray's StopRecording, by another        *)
(* client or by an error of its own.  StopRecording is answered at once.   *)
StopBegins(s, byTray) ==
    /\ phase[s] = "recording"
    /\ byTray => dispatcher = [pc |-> "stop", arg |-> s]
    /\ phase' = [phase EXCEPT ![s] = "draining"]
    /\ dispatcher' = IF byTray THEN [pc |-> "replyOk", arg |-> None] ELSE dispatcher
    /\ UNCHANGED <<bound, up, compat, slot, activeFile, lastFile, signalled, pumpVars,
                   queues, tray, cmdQueue, daemonReady, sinkVars, shutdown, seen>>

(* The other answers: a start is refused (a slot that is taken, a profile  *)
(* that is gone); a stop finds no such session, one whose stop hook is not *)
(* installed yet, or one that is stopping already, which is answered Ok.   *)
Answer ==
    /\ \/ /\ dispatcher.pc = "start"
          /\ dispatcher' = [pc |-> "replyErr", arg |-> None]
       \/ /\ dispatcher.pc = "stop" /\ (~up \/ slot # dispatcher.arg)
          /\ dispatcher' = [pc |-> "replyErr", arg |-> None]
       \/ /\ dispatcher.pc = "stop" /\ up /\ slot = dispatcher.arg
          /\ phase[slot] # "recording"
          /\ dispatcher' = [pc |-> IF phase[slot] = "starting" THEN "replyErr"
                                   ELSE "replyOk", arg |-> None]
    /\ UNCHANGED <<daemonVars, pumpVars, queues, tray, cmdQueue, daemonReady,
                   sinkVars, shutdown, seen>>

(* await_completion returned: "stopping" is announced for a good report    *)
(* only.                                                                   *)
DrainEnds(s, ok) ==
    /\ phase[s] = "draining"
    /\ phase' = [phase EXCEPT ![s] = IF ok THEN "stopping" ELSE "broken"]
    /\ IF ok THEN Announce(s, "stopping") ELSE UNCHANGED <<queues, signalled, seen>>
    /\ UNCHANGED <<bound, up, compat, slot, activeFile, lastFile, pumpVars, tray,
                   cmdVars, sinkVars, shutdown>>

(* last-session.json before RecordingComplete, then the slot is released.  *)
RecordingCompletes(s) ==
    /\ phase[s] \in {"stopping", "broken"}
    /\ phase' = [phase EXCEPT ![s] = IF @ = "stopping" THEN "released" ELSE "failing"]
    /\ lastFile' = [id |-> s, full |-> FALSE]
    /\ Deliver("recorded", s)
    /\ slot' = None
    /\ UNCHANGED <<bound, up, compat, activeFile, signalled, pumpVars, tray, cmdVars,
                   sinkVars, shutdown, seen>>

(* The profile asks for no transcript, or the job fails.                   *)
NoTranscript(s) ==
    /\ phase[s] = "released"
    /\ \E p \in {"finishing", "failing"} : phase' = [phase EXCEPT ![s] = p]
    /\ UNCHANGED <<bound, up, compat, slot, activeFile, lastFile, signalled, pumpVars,
                   queues, tray, cmdVars, sinkVars, shutdown, seen>>

(* last-session.json before TranscriptComplete.                            *)
TranscriptCompletes(s) ==
    /\ phase[s] = "released"
    /\ phase' = [phase EXCEPT ![s] = "finishing"]
    /\ lastFile' = [id |-> s, full |-> TRUE]
    /\ Deliver("transcribed", s)
    /\ UNCHANGED <<bound, up, compat, slot, activeFile, signalled, pumpVars, tray,
                   cmdVars, sinkVars, shutdown, seen>>

(* The terminal StateChanged, then active-session.json is removed.         *)
SessionEnds(s) ==
    /\ phase[s] \in {"finishing", "failing"}
    /\ phase' = [phase EXCEPT ![s] = "ended"]
    /\ Announce(s, IF phase[s] = "finishing" THEN "idle" ELSE "failed")
    /\ activeFile' = None
    /\ UNCHANGED <<bound, up, compat, slot, lastFile, pumpVars, tray, cmdVars, sinkVars,
                   shutdown>>

(* The process dies: its sessions end without a signal, the bus announces  *)
(* that the name has no owner and fails the calls in flight.               *)
Crash ==
    /\ up /\ seen.crashes < bound.crashes
    /\ up' = FALSE
    /\ phase' = [s \in Session |-> IF phase[s] = "none" THEN "none" ELSE "ended"]
    /\ slot' = None
    /\ Deliver("owner", "lost")
    /\ dispatcher' = IF dispatcher.pc \in {"start", "stop", "serving"}
                     THEN [pc |-> "replyErr", arg |-> None] ELSE dispatcher
    /\ seen' = [seen EXCEPT !.crashes = @ + 1]
    /\ UNCHANGED <<bound, compat, activeFile, lastFile, signalled, pumpVars, tray,
                   cmdQueue, daemonReady, sinkVars, shutdown>>

(* A start of the daemon, as any version: orphan recovery files the        *)
(* interrupted session as audio-only and removes active-session.json.      *)
Restart ==
    /\ ~up
    /\ up' = TRUE
    /\ compat' \in {TRUE, ~bound.late}
    /\ lastFile' = IF activeFile = None THEN lastFile
                   ELSE [id |-> activeFile, full |-> FALSE]
    /\ activeFile' = None
    /\ signalled' = "idle"
    /\ Deliver("owner", "owned")
    /\ seen' = [seen EXCEPT !.replaced = @ \/ InGap,
                            !.stale = @ \/ (InGap /\ queues.state # <<>>)]
    /\ UNCHANGED <<bound, phase, slot, pumpVars, tray, cmdVars, sinkVars, shutdown>>

-----------------------------------------------------------------------------
(* The pump *)

(* Mutant: a lost "failed" also keeps the session that ended.              *)
ApplyStateChangedKeepsSession(t, m) ==
    [t EXCEPT !.icon = m.value,
              !.timer = (m.value = "recording") \/ @,
              !.session = IF m.value = "idle" THEN None ELSE m.session]

(* Mutant: the lock is not released.                                       *)
ApplyStateChangedKeepsLock(t, m) ==
    [t EXCEPT !.icon = m.value,
              !.timer = CASE m.value = "recording" -> TRUE
                          [] m.value \in {"idle", "failed"} -> FALSE
                          [] OTHER -> @,
              !.session = IF m.value \in {"idle", "failed"} THEN None ELSE m.session]

(* The reducer of StateChanged.  A terminal state clears the session and   *)
(* the timer whichever session it names; the lock opens for the states     *)
(* that the pending command leads to.                                      *)
apply_state_changed(t, m) ==
    [t EXCEPT !.icon = m.value,
              !.timer = CASE m.value = "recording" -> TRUE
                          [] m.value \in {"idle", "failed"} -> FALSE
                          [] OTHER -> @,
              !.session = IF m.value \in {"idle", "failed"} THEN None ELSE m.session,
              !.pending = IF \/ @ = "start" /\ m.value \in {"starting", "recording"}
                             \/ @ = "stop" /\ m.value \in {"stopping", "idle"}
                          THEN None ELSE @]

apply_recording_complete(t, s) ==
    [t EXCEPT !.last = [id |-> s, audio |-> s, text |-> FALSE]]

(* read_last_session, filtered by the session of the signal.               *)
AudioFromFile(s) == IF lastFile # None /\ lastFile.id = s THEN s ELSE None

(* Mutant: the path of whatever session is cached is taken.                *)
TranscriptOfCached(t, s, audio) ==
    [t EXCEPT !.last =
       [id |-> s,
        audio |-> IF audio # None THEN audio ELSE IF @ # None THEN @.audio ELSE None,
        text |-> TRUE]]

(* The audio of the session from the state file, else from the cache when  *)
(* that is the same session, else an empty path.                           *)
apply_transcript_complete(t, s, audio) ==
    [t EXCEPT !.last =
       [id |-> s,
        audio |-> IF audio # None THEN audio
                  ELSE IF @ # None /\ @.id = s THEN @.audio ELSE None,
        text |-> TRUE]]

pumpFrame == <<daemonVars, cmdVars>>

(* run_pump, on ConnectionExit::Reconnect: the subscriptions are dropped   *)
(* with what they still hold.                                              *)
Disconnect(t) ==
    /\ pump' = "backoff"
    /\ tray' = [t EXCEPT !.icon = "offline"]
    /\ queues' = NoQueues
    /\ seen' = [seen EXCEPT !.missed = @ \/ queues.state # <<>>,
                            !.replaced = FALSE, !.stale = FALSE]

(* Mutant: the first disconnection ends the pump.                          *)
BackoffGivesUp ==
    /\ pump = "backoff"
    /\ pump' = "ended"
    /\ UNCHANGED <<pumpFrame, status, queues, tray, sinkVars, shutdown, seen>>

(* The delay, which the shutdown cuts short.                               *)
Backoff ==
    /\ pump = "backoff"
    /\ pump' = IF shutdown THEN "ended" ELSE "connecting"
    /\ UNCHANGED <<pumpFrame, status, queues, tray, sinkVars, shutdown, seen>>

(* verify_protocol: a daemon that is down is no mismatch.                  *)
Mismatch == up /\ ~compat

(* Mutant: a mismatch ends the pump and nothing else.                      *)
ConnectHaltsAlone ==
    /\ pump = "connecting"
    /\ pump' = IF Mismatch THEN "ended" ELSE "verified"
    /\ UNCHANGED <<pumpFrame, status, queues, tray, sinkVars, shutdown, seen>>

(* Connect and shake hands.  A mismatch ends the pump and broadcasts the   *)
(* shutdown.                                                               *)
Connect ==
    /\ pump = "connecting"
    /\ IF Mismatch
       THEN /\ pump' = "ended"
            /\ shutdown' = TRUE
            /\ tray' = [tray EXCEPT !.icon = "offline"]
       ELSE pump' = "verified" /\ UNCHANGED <<shutdown, tray>>
    /\ UNCHANGED <<pumpFrame, status, queues, sinkVars, seen>>

(* One subscription after the other, each an await; the bus's own          *)
(* NameOwnerChanged comes last.                                            *)
Subscribe ==
    /\ \/ pump = "verified" /\ pump' = "hearsState"
       \/ pump = "hearsState" /\ pump' = "hearsRecorded"
       \/ pump = "hearsRecorded" /\ pump' = "hearsTranscribed"
       \/ pump = "hearsTranscribed" /\ pump' = "subscribed"
    /\ UNCHANGED <<pumpFrame, status, queues, tray, sinkVars, shutdown, seen>>

(* snapshot: GetStatus knows "idle" and "recording" only.                  *)
ReadStatus ==
    /\ pump = "subscribed"
    /\ IF up
       THEN /\ pump' = "statusRead"
            /\ status' = IF slot = None THEN "idle" ELSE "recording"
            /\ UNCHANGED <<queues, tray, seen>>
       ELSE Disconnect(tray) /\ UNCHANGED status
    /\ UNCHANGED <<pumpFrame, sinkVars, shutdown>>

(* The session a snapshot leaves in TrayState.                             *)
SeedSession ==
    IF status # "recording" THEN None
    ELSE IF activeFile # None THEN activeFile ELSE tray.session

(* snapshot: Profiles1 is asked, the files are read, TrayState is seeded.  *)
Snapshot ==
    /\ pump = "statusRead"
    /\ IF up
       THEN /\ pump' = "loop"
            /\ tray' = [tray EXCEPT
                 !.icon = status,
                 !.timer = (status = "recording") \/ @,
                 !.session = SeedSession,
                 !.last = IF lastFile = None THEN @
                          ELSE [id |-> lastFile.id, audio |-> lastFile.id,
                                text |-> lastFile.full]]
            /\ UNCHANGED <<queues, seen>>
       ELSE Disconnect(tray)
    /\ UNCHANGED <<pumpFrame, status, sinkVars, shutdown>>

Looping == pump = "loop" /\ ~shutdown

PumpShutdown ==
    /\ pump = "loop" /\ shutdown
    /\ pump' = "ended"
    /\ UNCHANGED <<pumpFrame, status, queues, tray, sinkVars, shutdown, seen>>

(* NameOwnerChanged: reconnect, and forget the session when the daemon is  *)
(* gone.                                                                   *)
OwnerChanged ==
    /\ Looping /\ queues.owner # <<>>
    /\ Disconnect(IF Head(queues.owner) = "lost"
                  THEN [tray EXCEPT !.session = None, !.timer = FALSE] ELSE tray)
    /\ UNCHANGED <<pumpFrame, status, sinkVars, shutdown>>

StateChanged ==
    /\ Looping /\ queues.owner = <<>> /\ queues.state # <<>>
    /\ tray' = apply_state_changed(tray, Head(queues.state))
    /\ queues' = [queues EXCEPT !.state = Tail(@)]
    /\ UNCHANGED <<pumpFrame, pumpVars, sinkVars, shutdown, seen>>

(* Mutant: the audio alone is offered to the sinks.                        *)
RecordingCompleteSinks ==
    /\ Looping /\ queues.owner = <<>> /\ queues.state = <<>>
    /\ queues.recorded # <<>>
    /\ tray' = apply_recording_complete(tray, Head(queues.recorded))
    /\ sinkQueue' = IF Len(sinkQueue) < SinkCapacity
                    THEN Append(sinkQueue, Head(queues.recorded)) ELSE sinkQueue
    /\ queues' = [queues EXCEPT !.recorded = Tail(@)]
    /\ UNCHANGED <<pumpFrame, pumpVars, sunk, shutdown, seen>>

(* The sinks are for transcripts: only TrayState learns of the audio.      *)
RecordingComplete ==
    /\ Looping /\ queues.owner = <<>> /\ queues.state = <<>>
    /\ queues.recorded # <<>>
    /\ tray' = apply_recording_complete(tray, Head(queues.recorded))
    /\ queues' = [queues EXCEPT !.recorded = Tail(@)]
    /\ UNCHANGED <<pumpFrame, pumpVars, sinkVars, shutdown, seen>>

(* try_send to the sinks: a full channel drops the job.                    *)
OfferToSinks(s) ==
    sinkQueue' = IF Len(sinkQueue) < SinkCapacity THEN Append(sinkQueue, s)
                 ELSE sinkQueue

(* The state file is read when the signal is handled.                      *)
TranscriptComplete ==
    /\ Looping /\ queues.owner = <<>> /\ queues.state = <<>>
    /\ queues.recorded = <<>> /\ queues.transcribed # <<>>
    /\ LET s == Head(queues.transcribed) IN
          /\ OfferToSinks(s)
          /\ tray' = apply_transcript_complete(tray, s, AudioFromFile(s))
    /\ queues' = [queues EXCEPT !.transcribed = Tail(@)]
    /\ UNCHANGED <<pumpFrame, pumpVars, sunk, shutdown, seen>>

(* The 60 s tick reads the profiles, which only fails without a daemon.    *)
ProfileTick ==
    /\ Looping /\ queues = NoQueues /\ ~up
    /\ Disconnect(tray)
    /\ UNCHANGED <<pumpFrame, status, sinkVars, shutdown>>

-----------------------------------------------------------------------------
(* The menu and the dispatcher *)

Unlocked == tray.pending = None

(* menu_flags_for *)
Enabled(c) ==
    CASE c = "start" -> Unlocked /\ tray.icon \in {"idle", "failed"}
      [] c = "stop" -> Unlocked /\ tray.icon = "recording"
      [] c = "setActive" -> Unlocked /\ tray.icon = "idle"

(* A menu callback: try_send, dropped when the channel is full.            *)
Click(c) ==
    /\ Enabled(c) /\ ~shutdown
    /\ seen.clicks < bound.clicks
    /\ cmdQueue' = IF Len(cmdQueue) < CmdCapacity THEN Append(cmdQueue, c)
                   ELSE cmdQueue
    /\ seen' = [seen EXCEPT !.clicks = @ + 1]
    /\ UNCHANGED <<daemonVars, pumpVars, queues, tray, dispatcher, daemonReady,
                   sinkVars, shutdown>>

dispatcherFrame == <<daemonVars, pumpVars, queues, sinkVars, seen>>

Goto(p) == dispatcher' = [pc |-> p, arg |-> None]

Handshake ==
    /\ dispatcher.pc = "handshake"
    /\ Goto(IF Mismatch THEN "ended" ELSE "probe")
    /\ shutdown' = (shutdown \/ Mismatch)
    /\ UNCHANGED <<dispatcherFrame, tray, cmdQueue, daemonReady>>

(* One GetStatus; its success opens the gate of the hotkey listener.       *)
Probe ==
    /\ dispatcher.pc = "probe"
    /\ daemonReady' = up
    /\ Goto("idle")
    /\ UNCHANGED <<dispatcherFrame, tray, cmdQueue, shutdown>>

Lock(c) == tray' = [tray EXCEPT !.pending = c]

(* handle_cmd: lock the menu, then call.  Stop needs a session.            *)
TakeCommand ==
    /\ dispatcher.pc = "idle" /\ ~shutdown /\ cmdQueue # <<>>
    /\ cmdQueue' = Tail(cmdQueue)
    /\ \/ /\ Head(cmdQueue) \in {"start", "setActive"}
          /\ Lock(Head(cmdQueue))
          /\ Goto(Head(cmdQueue))
       \/ /\ Head(cmdQueue) = "stop"
          /\ IF tray.session = None THEN UNCHANGED <<tray, dispatcher>>
             ELSE /\ Lock("stop")
                  /\ dispatcher' = [pc |-> "stop", arg |-> tray.session]
    /\ UNCHANGED <<dispatcherFrame, daemonReady, shutdown>>

(* The reply: an error opens the lock, success leaves it to the signals.   *)
ReplyArrives ==
    /\ dispatcher.pc \in {"replyOk", "replyErr"}
    /\ tray' = IF dispatcher.pc = "replyErr" THEN [tray EXCEPT !.pending = None]
               ELSE tray
    /\ Goto("idle")
    /\ UNCHANGED <<dispatcherFrame, cmdQueue, daemonReady, shutdown>>

(* dispatch_set_active_profile: SetActive, then the list is read again.    *)
SetActive ==
    /\ dispatcher.pc = "setActive"
    /\ IF up THEN Goto("listing") /\ UNCHANGED tray
       ELSE Goto("idle") /\ tray' = [tray EXCEPT !.pending = None]
    /\ UNCHANGED <<dispatcherFrame, cmdQueue, daemonReady, shutdown>>

(* The name is stored whether or not the list could be read.               *)
ListAfterSetActive ==
    /\ dispatcher.pc = "listing"
    /\ Goto("idle")
    /\ tray' = [tray EXCEPT !.pending = None]
    /\ UNCHANGED <<dispatcherFrame, cmdQueue, daemonReady, shutdown>>

DispatcherShutdown ==
    /\ dispatcher.pc = "idle" /\ shutdown
    /\ Goto("ended")
    /\ UNCHANGED <<dispatcherFrame, tray, cmdQueue, daemonReady, shutdown>>

-----------------------------------------------------------------------------
(* The sinks *)

(* handle_job: clipboard and notification, one job at a time.              *)
HandleJob ==
    /\ sinkQueue # <<>> /\ ~shutdown
    /\ sunk' = Append(sunk, Head(sinkQueue))
    /\ sinkQueue' = Tail(sinkQueue)
    /\ UNCHANGED <<daemonVars, pumpVars, queues, tray, cmdVars, shutdown, seen>>

-----------------------------------------------------------------------------

DaemonStep ==
    \/ \E s \in Session :
          \/ StartSucceeds(s) \/ StartFails(s) \/ RecordingCompletes(s)
          \/ \E ok \in BOOLEAN : DrainEnds(s, ok)
          \/ NoTranscript(s) \/ TranscriptCompletes(s) \/ SessionEnds(s)
          \/ AcceptStart(s, TRUE) \/ StopBegins(s, TRUE)
    \/ Answer

ClientStep == \E s \in Session : AcceptStart(s, FALSE) \/ StopBegins(s, FALSE)

PumpStep ==
    \/ Backoff \/ Connect \/ Subscribe \/ ReadStatus \/ Snapshot \/ PumpShutdown
    \/ OwnerChanged \/ StateChanged \/ RecordingComplete \/ TranscriptComplete

DispatcherStep ==
    \/ Handshake \/ Probe \/ TakeCommand \/ ReplyArrives \/ SetActive
    \/ ListAfterSetActive \/ DispatcherShutdown

UserStep == \E c \in bound.commands : Click(c)

Next ==
    \/ DaemonStep \/ ClientStep \/ Crash \/ Restart
    \/ PumpStep \/ ProfileTick \/ DispatcherStep \/ HandleJob \/ UserStep

(* The tasks of the tray are polled and the daemon works; nobody need      *)
(* click, crash or restart anything.                                       *)
Fairness ==
    /\ WF_vars(DaemonStep) /\ WF_vars(PumpStep)
    /\ WF_vars(DispatcherStep) /\ WF_vars(HandleJob)

Spec == Init /\ [][Next]_vars /\ Fairness

-----------------------------------------------------------------------------
(* Properties *)

(* Every variable stays in its type.                                       *)
TypeOK ==
    /\ bound \in Bounds /\ {up, compat, daemonReady, shutdown} \subseteq BOOLEAN
    /\ slot \in Session \union {None}
    /\ signalled \in WireState /\ status \in {"idle", "recording"}
    /\ pump \in {"connecting", "verified", "hearsState", "hearsRecorded",
                "hearsTranscribed", "subscribed", "statusRead", "loop",
                "backoff", "ended"}
    /\ tray.icon \in IconState /\ tray.pending \in Command \union {None}
    /\ tray.session \in Session \union {None}
    /\ cmdQueue \in Seq(Command) /\ Len(cmdQueue) <= CmdCapacity
    /\ sinkQueue \in Seq(Session) /\ Len(sinkQueue) <= SinkCapacity
    /\ dispatcher.pc \in {"handshake", "probe", "idle", "start", "stop", "serving",
                          "setActive", "listing", "replyOk", "replyErr", "ended"}

(* The pump is in its loop and has nothing left to handle.                 *)
CaughtUp == pump = "loop" /\ queues = NoQueues /\ ~shutdown

(* Whatever was subscribed, read and queued in which order: a tray that    *)
(* has caught up shows the last state the daemon signalled, or what        *)
(* GetStatus says now, unless a session is between the release of its slot *)
(* and its terminal signal, or a new daemon came up unheard behind queued  *)
(* signals of the old one (pump.rs: subscribe first, NameOwnerChanged      *)
(* last, then the snapshot, then the queued signals).                      *)
CaughtUpShowsDaemon ==
    /\ CaughtUp /\ up /\ ~seen.stale
    /\ \A s \in Session : phase[s] \notin {"released", "finishing", "failing"}
    => tray.icon \in {signalled, IF slot = None THEN "idle" ELSE "recording"}

(* A menu entry never pairs one session with the audio of another, though  *)
(* last-session.json and the cached entry may both belong to another one   *)
(* when TranscriptComplete is handled (state.rs, the review fix).          *)
AudioOfItsSession ==
    tray.last # None => tray.last.audio \in {tray.last.id, None}

(* A quiet system: nothing queued, no call under way, no session going on. *)
Quiet ==
    /\ CaughtUp /\ cmdQueue = <<>> /\ dispatcher.pc = "idle"
    /\ \A s \in Session : phase[s] \in {"none", "ended"}

(* The optimistic lock is released by the time everything is quiet, unless *)
(* a session failed or the tray missed a signal (cmd.rs, state.rs).        *)
LockedOnlyAfterLoss ==
    Quiet /\ tray.pending # None => seen.missed \/ seen.failed \/ seen.crashes > 0

(* M4-plan.md, item 21: the lock holds "until the next StateChanged".      *)
LockReleased == Quiet /\ ~seen.missed /\ seen.crashes = 0 => tray.pending = None

(* No Stop is offered for a session that is over: once the tray has caught *)
(* up and no session is going on, no stale session id is left for a menu   *)
(* Stop, except of a daemon that was replaced in the gap of the            *)
(* subscriptions (state.rs, pump.rs: snapshot clears a stale id).          *)
NoStaleSession ==
    /\ CaughtUp /\ up /\ ~seen.stale
    /\ \A s \in Session : phase[s] \in {"none", "ended"}
    => tray.session = None

(* A transcript reaches the sinks at most once, and only if this session   *)
(* has completed one (pump.rs, sink/dispatch.rs).                          *)
SinksOncePerTranscript ==
    /\ \A i, j \in DOMAIN sunk : sunk[i] = sunk[j] => i = j
    /\ \A i \in DOMAIN sunk : phase[sunk[i]] \in {"finishing", "ended"}

(* Once a daemon of the tray's version stays, the tray finds it however    *)
(* often it disappeared before (run_pump reconnects forever).              *)
Reconnects == <>[](up /\ compat) => <>[](pump = "loop" \/ shutdown)

(* Once a daemon of another version stays, both halves of the tray stop    *)
(* calling it: also when it replaced a compatible one, or came up between  *)
(* the dispatcher's handshake and its probe; but not when it came up       *)
(* between the pump's handshake and its subscription to NameOwnerChanged,  *)
(* and the tray stays connected (pump.rs, M8 review).                      *)
MismatchStopsCalls ==
    <>[](up /\ ~compat) =>
       <>[](pump = "ended" /\ dispatcher.pc = "ended") \/ <>[]seen.replaced
=============================================================================
