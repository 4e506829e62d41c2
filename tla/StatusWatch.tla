----------------------------- MODULE StatusWatch -----------------------------
(***************************************************************************)
(* `zwhisper status --watch` (zwhisper-cli/commands/status.rs): one line   *)
(* per change of the daemon's state, across restarts of the daemon.  It    *)
(* subscribes to StateChanged and NameOwnerChanged, takes a snapshot, and  *)
(* then keeps WatchState from the signals; a snapshot that fails makes it  *)
(* stale, and a ticker retries.  The duration is left out.                 *)
(***************************************************************************)
EXTENDS BusSignals, Integers, FiniteSets

CONSTANTS
    Faults,     \* calls that the daemon leaves unanswered (bound)
    LateAttach  \* the watch may start while sessions are under way

VARIABLES
    pc,         \* "attach", "snapshot", "loop", "exited"
    recorder_state, current_session, stale,     \* WatchState
    last_line,  \* state of the last line printed
    failures,   \* lines that reported a failure
    due,        \* "failed" signals that deserved one
    faults,
    blind       \* history: a session that had left the slot was finishing
                \* when the watch subscribed, or signals of a daemon were
                \* taken after the news of its death or before that of
                \* its predecessor's

watchVars == <<pc, recorder_state, current_session, stale, last_line, failures,
               due, faults, blind>>
vars == <<daemonVars, watchVars>>

Init ==
    /\ DaemonInit
    /\ pc = "attach"
    /\ recorder_state = "idle" /\ current_session = None /\ stale = FALSE
    /\ last_line = "" /\ failures = 0 /\ due = 0 /\ faults = 0 /\ blind = FALSE

is_terminal_state(v) == v \in {"idle", "failed"}

(* Mutant: equal lines are never printed twice.                            *)
is_discrete_stateNever(v) == FALSE
is_discrete_state(v) == v = "failed"

(* emit_if_changed, at the end of every turn of the loop.                  *)
Emit ==
    /\ last_line' = recorder_state'
    /\ failures' = failures + IF recorder_state' = "failed"
                                 /\ (is_discrete_state("failed") \/ last_line # "failed")
                              THEN 1 ELSE 0

(* Sessions that go on although they no longer hold the slot.              *)
Finishing == {s \in Session : InFlight(s) /\ s # slot}

(* resync: the snapshot, or no answer in time; nobody answers for a daemon *)
(* that is gone.                                                           *)
Resync(ok) ==
    IF ok THEN up /\ UNCHANGED faults
    ELSE \/ ~up /\ UNCHANGED faults
         \/ up /\ faults < Faults /\ faults' = faults + 1

adopt == recorder_state' = GetStatus /\ stale' = FALSE

daemon_gone ==
    recorder_state' = "idle" /\ current_session' = None /\ stale' = FALSE

Subscribe ==
    /\ pc = "attach"
    /\ LateAttach \/ \A s \in Session : phase[s] = "none"
    /\ listening' = {"state", "owner"}
    /\ pc' = "snapshot"
    /\ blind' = (Finishing # {})
    /\ UNCHANGED <<up, phase, slot, queue, crashes, recorder_state, current_session,
                   stale, last_line, failures, due, faults>>

(* GetStatus is only asked of a daemon that owns its name.                 *)
Snapshot ==
    /\ pc = "snapshot" /\ pc' = "loop"
    /\ \/ Resync(TRUE) /\ adopt
       \/ /\ up /\ Resync(FALSE)
          /\ stale' = TRUE /\ UNCHANGED recorder_state
       \/ ~up /\ UNCHANGED <<recorder_state, stale, faults>>
    /\ Emit
    /\ UNCHANGED <<daemonVars, current_session, due, blind>>

-----------------------------------------------------------------------------
(* The arms of the loop *)

TakeFrom(k) == queue' = [queue EXCEPT ![k] = Tail(@)]

(* Mutant: whichever session ends, the end is shown.                       *)
supersededNever(e) == FALSE

(* A terminal signal of a session other than the one that is shown.        *)
superseded(e) ==
    is_terminal_state(e.value) /\ current_session \notin {None, e.session}

(* Deaths of the daemon that the watch has yet to hear of.                 *)
DeathNews == {i \in DOMAIN queue["owner"] : queue["owner"][i].value = "gone"}

(* The state is the signal's; the snapshot only adds profile and duration. *)
StateSignal ==
    /\ pc = "loop" /\ queue["state"] # <<>>
    /\ LET e == Head(queue["state"]) IN
         /\ TakeFrom("state")
         /\ blind' = (blind \/ e.life # crashes - Cardinality(DeathNews))
         /\ IF superseded(e)
            THEN UNCHANGED <<recorder_state, current_session, stale, faults, last_line,
                             failures, due>>
            ELSE /\ recorder_state' = e.value
                 /\ current_session' = IF is_terminal_state(e.value) THEN None
                                       ELSE e.session
                 /\ due' = due + IF e.value = "failed" THEN 1 ELSE 0
                 /\ \/ Resync(TRUE) /\ UNCHANGED stale
                    \/ Resync(FALSE) /\ stale' = TRUE
                 /\ Emit
    /\ UNCHANGED <<up, phase, slot, listening, crashes, pc>>

OwnerSignal ==
    /\ pc = "loop" /\ queue["owner"] # <<>>
    /\ TakeFrom("owner")
    /\ IF Head(queue["owner"]).value = "gone"
       THEN daemon_gone /\ UNCHANGED faults
       ELSE /\ UNCHANGED current_session
            /\ \/ Resync(TRUE) /\ adopt
               \/ Resync(FALSE) /\ stale' = TRUE /\ UNCHANGED recorder_state
    /\ Emit
    /\ UNCHANGED <<up, phase, slot, listening, crashes, pc, due, blind>>

(* Mutant: the ticker runs for the timer only.                             *)
wants_tickTimer == recorder_state = "recording"
wants_tick == stale \/ recorder_state = "recording"

(* A tick of a watch that is not stale only redraws the duration.          *)
Tick ==
    /\ pc = "loop" /\ wants_tick /\ stale
    /\ IF up
       THEN /\ \/ Resync(TRUE) /\ adopt
               \/ Resync(FALSE) /\ UNCHANGED <<recorder_state, stale>>
            /\ UNCHANGED current_session
       ELSE daemon_gone /\ UNCHANGED faults
    /\ Emit
    /\ UNCHANGED <<daemonVars, pc, due, blind>>

Watch == Subscribe \/ Snapshot \/ StateSignal \/ OwnerSignal \/ Tick
Environment == Daemon /\ UNCHANGED watchVars
Next == Watch \/ Environment

Spec ==
    /\ Init /\ [][Next]_vars
    /\ WF_vars(Snapshot) /\ WF_vars(StateSignal) /\ WF_vars(OwnerSignal) /\ WF_vars(Tick)

-----------------------------------------------------------------------------
(* Properties *)

(* Every variable stays in its type.                                      *)
TypeOK ==
    /\ pc \in {"attach", "snapshot", "loop"}
    /\ {recorder_state, last_line} \subseteq
          {"", "idle", "starting", "recording", "stopping", "failed"}
    /\ current_session \in 0 .. Sessions
    /\ faults \in 0 .. Faults
    /\ pc = "loop" => last_line = recorder_state

CaughtUp == pc = "loop" /\ ~stale /\ queue["state"] = <<>> /\ queue["owner"] = <<>>

(* Once it has handled what arrived, the watch shows a recording while one *)
(* is in progress, whatever older session is still transcribing, and none  *)
(* when nothing is left of any.                                            *)
ShowsRecorder ==
    /\ slot # None => recorder_state \in {"starting", "recording", "stopping"}
    /\ (\A s \in Session : ~InFlight(s)) => recorder_state \in {"idle", "failed"}

CaughtUpShowsRecorder == CaughtUp /\ ~blind => ShowsRecorder

(* A failure gets a line even if the line before was a failure too.        *)
EveryFailureHasLine == failures >= due

(* A failed call never leaves the bar with a guess for good.               *)
StaleHeals == []<>~stale
=============================================================================
