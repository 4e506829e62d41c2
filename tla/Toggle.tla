-------------------------------- MODULE Toggle --------------------------------
(***************************************************************************)
(* One press of the hotkey, or one `zwhisper toggle`: toggle_once of       *)
(* zwhisper-hotkey/toggle.rs, by the tray's listener, which keeps its      *)
(* debouncer between presses, and by CLI processes, which each start with  *)
(* a new one.  The decision is taken from a status and a file that are     *)
(* read one after the other while the daemon and the others move on.       *)
(*                                                                         *)
(* The daemon is the environment: the slot and active-session.json as the  *)
(* Sessions module has them, with one profile that may be unset.           *)
(***************************************************************************)
EXTENDS Integers, FiniteSets

CONSTANTS
    None,
    Cli,        \* processes `zwhisper toggle`, one toggle each
    Sessions,   \* number of sessions the daemon may open (bound)
    Presses,    \* number of presses of the hotkey (bound)
    MaxTime,    \* last tick of the clock (bound)
    Debounce,   \* debounce_ms, in ticks
    Cooldown    \* cooldown_ms, in ticks

Session == 1 .. Sessions
Toggler == Cli \union {"tray"}

VARIABLES
    clock,
    slot,       \* the session that holds the recorder
    phase,      \* of each session: none, starting, recording, draining,
                \* released, ended
    activeFile, \* session that active-session.json names
    lost,       \* the file lost the name of a session that is recording
    profile,    \* an active profile is set
    pc,         \* control state of each toggle_once
    arg,        \* the session it read, or whose start it awaits
    debouncer,  \* of each toggler: last_accept, last_stop
    outcome,    \* last outcome of each toggler
    calm,       \* history: since the press, only this toggle disturbed
                \* a daemon that was calm
    pressed,    \* history: presses of the hotkey so far
    stopAt,     \* history: when the daemon last accepted a stop of the tray
    restarted   \* history: the tray started a session in its own cooldown

daemonVars == <<slot, phase, activeFile, lost>>
toggleVars == <<pc, arg, debouncer, outcome>>
history == <<calm, pressed, stopAt, restarted>>
vars == <<clock, daemonVars, profile, toggleVars, history>>

Never == -1

Init ==
    /\ clock = 0
    /\ slot = None /\ phase = [s \in Session |-> "none"]
    /\ activeFile = None /\ lost = FALSE
    /\ profile \in BOOLEAN
    /\ pc = [t \in Toggler |-> "idle"]
    /\ arg = [t \in Toggler |-> None]
    /\ debouncer = [t \in Toggler |-> [accept |-> Never, stop |-> Never]]
    /\ outcome = [t \in Toggler |-> "none"]
    /\ calm = [t \in Toggler |-> FALSE] /\ pressed = 0
    /\ stopAt = Never /\ restarted = FALSE

Tick ==
    /\ clock < MaxTime
    /\ clock' = clock + 1
    /\ UNCHANGED <<daemonVars, profile, toggleVars, history>>

-----------------------------------------------------------------------------
(* The daemon *)

(* Every toggle in flight but the one that t makes is disturbed.           *)
Disturbs(t) == calm' = [u \in Toggler |-> calm[u] /\ u = t]

(* StartRecording: the slot is reserved, or the call is refused; when the  *)
(* sessions (bound) are used up it is refused in any case.                 *)
StartCall(t) ==
    /\ pc[t] = "start"
    /\ \/ /\ slot = None
          /\ \E s \in Session :
                /\ phase[s] = "none" /\ \A r \in 1 .. s - 1 : phase[r] # "none"
                /\ slot' = s
                /\ phase' = [phase EXCEPT ![s] = "starting"]
                /\ arg' = [arg EXCEPT ![t] = s]
          /\ pc' = [pc EXCEPT ![t] = "starting"]
          /\ Disturbs(t)
          /\ UNCHANGED outcome
       \/ /\ slot # None
          /\ pc' = [pc EXCEPT ![t] = "idle"]
          /\ outcome' = [outcome EXCEPT ![t] = "alreadyActive"]
          /\ UNCHANGED <<slot, phase, arg, calm>>
       \/ /\ \A s \in Session : phase[s] # "none"
          /\ pc' = [pc EXCEPT ![t] = "failed"]
          /\ calm' = [calm EXCEPT ![t] = FALSE]
          /\ UNCHANGED <<slot, phase, arg, outcome>>
    /\ UNCHANGED <<clock, activeFile, lost, profile, debouncer, pressed, stopAt, restarted>>

(* The start is over; who awaits it is answered.                           *)
StartEnds(s, ok) ==
    /\ phase[s] = "starting"
    /\ phase' = [phase EXCEPT ![s] = IF ok THEN "recording" ELSE "ended"]
    /\ slot' = IF ok THEN slot ELSE None
    /\ activeFile' = IF ok THEN s ELSE activeFile
    /\ pc' = [t \in Toggler |->
                IF pc[t] = "starting" /\ arg[t] = s
                THEN IF ok THEN "started" ELSE "failed" ELSE pc[t]]
    /\ calm' = [t \in Toggler |-> calm[t] /\ ok /\ pc[t] = "starting" /\ arg[t] = s]
    /\ UNCHANGED <<clock, lost, profile, arg, debouncer, outcome, pressed, stopAt, restarted>>

(* StopRecording is answered at once, also when the session drains already;*)
(* it fails for a session that does not hold the slot or is only starting. *)
StopCall(t) ==
    /\ pc[t] = "stop"
    /\ LET ok == slot = arg[t] /\ phase[arg[t]] # "starting" IN
          /\ pc' = [pc EXCEPT ![t] = IF ok THEN "stopped" ELSE "failed"]
          /\ phase' = [phase EXCEPT ![arg[t]] =
                         IF ok /\ @ = "recording" THEN "draining" ELSE @]
          /\ IF ok THEN Disturbs(t) ELSE UNCHANGED calm
          /\ stopAt' = IF ok /\ t = "tray" THEN clock ELSE stopAt
    /\ UNCHANGED <<clock, slot, activeFile, lost, profile, arg, debouncer, outcome,
                   pressed, restarted>>

(* The lifecycle: an error stops the recorder; the slot is released, then, *)
(* maybe a transcription later, the file is removed, whomever it names.    *)
Lifecycle(s) ==
    /\ \/ /\ phase[s] = "recording"
          /\ phase' = [phase EXCEPT ![s] = "draining"]
          /\ UNCHANGED <<slot, activeFile, lost>>
       \/ /\ phase[s] = "draining"
          /\ phase' = [phase EXCEPT ![s] = "released"]
          /\ slot' = None
          /\ UNCHANGED <<activeFile, lost>>
       \/ /\ phase[s] = "released"
          /\ phase' = [phase EXCEPT ![s] = "ended"]
          /\ activeFile' = None
          /\ lost' = (lost \/ activeFile # s)
          /\ UNCHANGED slot
    /\ Disturbs(None)
    /\ UNCHANGED <<clock, profile, toggleVars, pressed, stopAt, restarted>>

(* A calm daemon: no session is between its start and its recording, or    *)
(* between the stop and its end.                                           *)
Calm == \A s \in Session : phase[s] \in {"none", "recording", "ended"}

-----------------------------------------------------------------------------
(* toggle_once *)

Finish(t, o) ==
    /\ pc' = [pc EXCEPT ![t] = "idle"]
    /\ outcome' = [outcome EXCEPT ![t] = o]

Within(time, span) == time # Never /\ clock - time < span

(* Debouncer::try_accept.  A press that is refused leaves no trace.        *)
Press(t) ==
    /\ pc[t] = "idle"
    /\ IF t = "tray" THEN pressed < Presses /\ pressed' = pressed + 1
       ELSE outcome[t] = "none" /\ UNCHANGED pressed
    /\ \/ /\ Within(debouncer[t].stop, Cooldown)
          /\ Finish(t, "cooldown")
          /\ UNCHANGED <<debouncer, calm>>
       \/ /\ ~Within(debouncer[t].stop, Cooldown)
          /\ Within(debouncer[t].accept, Debounce)
          /\ Finish(t, "debounced")
          /\ UNCHANGED <<debouncer, calm>>
       \/ /\ ~Within(debouncer[t].stop, Cooldown)
          /\ ~Within(debouncer[t].accept, Debounce)
          /\ debouncer' = [debouncer EXCEPT ![t].accept = clock]
          /\ pc' = [pc EXCEPT ![t] = "status"]
          /\ calm' = [calm EXCEPT ![t] = Calm /\ ~lost]
          /\ UNCHANGED outcome
    /\ UNCHANGED <<clock, daemonVars, profile, arg, stopAt, restarted>>

(* GetStatus: "recording" is a slot that is taken.                         *)
GetStatus(t) ==
    /\ pc[t] = "status"
    /\ pc' = [pc EXCEPT ![t] = IF slot = None THEN "readIdle" ELSE "readBusy"]
    /\ UNCHANGED <<clock, daemonVars, profile, arg, debouncer, outcome, history>>

(* Mutant: an idle daemon is not asked whether it still drains.            *)
ReadWhenIdleSkips(t) ==
    /\ pc[t] = "readIdle"
    /\ pc' = [pc EXCEPT ![t] = "profile"]
    /\ UNCHANGED <<clock, daemonVars, profile, arg, debouncer, outcome, history>>

(* read_active_session on an idle daemon: a file means that it drains.     *)
ReadWhenIdle(t) ==
    /\ pc[t] = "readIdle"
    /\ IF activeFile # None THEN Finish(t, "draining")
       ELSE pc' = [pc EXCEPT ![t] = "profile"] /\ UNCHANGED outcome
    /\ UNCHANGED <<clock, daemonVars, profile, arg, debouncer, history>>

(* Mutant: the file alone is taken for a draining daemon.                  *)
ReadWhenBusyDrains(t) ==
    /\ pc[t] = "readBusy"
    /\ IF activeFile # None THEN Finish(t, "draining") ELSE Finish(t, "error")
    /\ UNCHANGED <<clock, daemonVars, profile, arg, debouncer, history>>

(* read_active_session on a busy one: the session to stop.                 *)
ReadWhenBusy(t) ==
    /\ pc[t] = "readBusy"
    /\ arg' = [arg EXCEPT ![t] = activeFile]
    /\ IF activeFile = None THEN Finish(t, "error")
       ELSE pc' = [pc EXCEPT ![t] = "stop"] /\ UNCHANGED outcome
    /\ UNCHANGED <<clock, daemonVars, profile, debouncer, history>>

(* Mutant: without a profile the toggle waits for one.                     *)
GetActiveWaits(t) ==
    /\ pc[t] = "profile" /\ profile
    /\ pc' = [pc EXCEPT ![t] = "start"]
    /\ UNCHANGED <<clock, daemonVars, profile, arg, debouncer, outcome, history>>

GetActive(t) ==
    /\ pc[t] = "profile"
    /\ IF profile THEN pc' = [pc EXCEPT ![t] = "start"] /\ UNCHANGED outcome
       ELSE Finish(t, "noProfile")
    /\ UNCHANGED <<clock, daemonVars, profile, arg, debouncer, history>>

(* Mutant: the cooldown counts from the press, not from the answer.        *)
StoppedAtPress(t) ==
    /\ pc[t] = "stopped"
    /\ debouncer' = [debouncer EXCEPT ![t].stop = debouncer[t].accept]
    /\ Finish(t, "stopping")
    /\ UNCHANGED <<clock, daemonVars, profile, arg, history>>

(* StopRecording answered: the cooldown begins now.                        *)
Stopped(t) ==
    /\ pc[t] = "stopped"
    /\ debouncer' = [debouncer EXCEPT ![t].stop = clock]
    /\ Finish(t, "stopping")
    /\ UNCHANGED <<clock, daemonVars, profile, arg, history>>

Started(t) ==
    /\ pc[t] = "started"
    /\ Finish(t, "started")
    /\ restarted' = \/ restarted
                    \/ /\ t = "tray" /\ stopAt # Never
                       /\ debouncer[t].accept - stopAt < Cooldown
    /\ UNCHANGED <<clock, daemonVars, profile, arg, debouncer, calm, pressed, stopAt>>

Failed(t) ==
    /\ pc[t] = "failed"
    /\ Finish(t, "error")
    /\ UNCHANGED <<clock, daemonVars, profile, arg, debouncer, history>>

-----------------------------------------------------------------------------

DaemonStep ==
    \/ \E t \in Toggler : StartCall(t) \/ StopCall(t)
    \/ \E s \in Session, ok \in BOOLEAN : StartEnds(s, ok)

ToggleStep(t) ==
    \/ GetStatus(t) \/ ReadWhenIdle(t) \/ ReadWhenBusy(t) \/ GetActive(t)
    \/ Stopped(t) \/ Started(t) \/ Failed(t)

Next ==
    \/ Tick \/ DaemonStep \/ \E s \in Session : Lifecycle(s)
    \/ \E t \in Toggler : Press(t) \/ ToggleStep(t)

Spec ==
    /\ Init /\ [][Next]_vars
    /\ WF_vars(DaemonStep) /\ \A t \in Toggler : WF_vars(ToggleStep(t))

-----------------------------------------------------------------------------
(* Properties *)

(* Every variable stays in its type.                                       *)
TypeOK ==
    /\ clock \in 0 .. MaxTime
    /\ {slot, activeFile} \subseteq Session \union {None}
    /\ phase \in [Session -> {"none", "starting", "recording", "draining", "released",
                              "ended"}]
    /\ pc \in [Toggler -> {"idle", "status", "readIdle", "readBusy", "profile", "start",
                           "starting", "started", "stop", "stopped", "failed"}]
    /\ arg \in [Toggler -> Session \union {None}]

(* A bouncing key never starts a recording in the cooldown of the stop it  *)
(* caused, however long that stop took (toggle.rs, Debouncer).             *)
NoRestartInCooldown == ~restarted

(* A toggle of a calm daemon that nothing else disturbed does what was     *)
(* asked; the races it may lose all need a start, a drain or another       *)
(* toggle at the same time (toggle.rs, toggle_once_with_reader).           *)
UndisturbedToggleWorks ==
    [][\A t \in Toggler :
         pc[t] # "idle" /\ pc'[t] = "idle" /\ calm[t]
         => outcome'[t] \in {"started", "stopping", "noProfile"}]_vars

(* A toggle goes on to start a recording only when the newest session was  *)
(* not draining at the moment the file was read; of older ones that still  *)
(* transcribe it knows nothing, and a file that an older session removed   *)
(* says nothing (toggle.rs, AlreadyDraining).                              *)
NoStartWhileDraining ==
    [][\A t \in Toggler, s \in Session :
         /\ pc[t] = "readIdle" /\ pc'[t] = "profile" /\ ~lost
         /\ phase[s] \in {"draining", "released"}
         => \E r \in Session : r > s /\ phase[r] # "none"]_vars

(* Every press is answered.                                                *)
PressAnswered == \A t \in Toggler : []<>(pc[t] = "idle")
=============================================================================
