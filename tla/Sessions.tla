------------------------------ MODULE Sessions ------------------------------
(***************************************************************************)
(* The recording side of zwhisperd: SessionManager (session.rs), the       *)
(* Recorder1 handlers (recorder_service.rs), the lifecycle task that owns  *)
(* a recorder until its terminal signal (lifecycle.rs), the two state      *)
(* files (active_session.rs, last_session.rs) and the shutdown sequence    *)
(* of main.rs.                                                             *)
(*                                                                         *)
(* The daemon runs on a current-thread tokio runtime: what a handler does  *)
(* between two awaits is one step here, and every await is a point where   *)
(* another handler, another lifecycle task or the shutdown may run.  A     *)
(* session is identified with the StartRecording call that mints its id.   *)
(***************************************************************************)
EXTENDS Naturals, Sequences, FiniteSets

CONSTANTS
    Session,      \* ids that StartRecording calls may mint
    NoSession,    \* the empty slot, lock or file
    IoMayFail,    \* whether writes and removals of state files may fail
    SignalLimit   \* bound: SIGTERM comes while fewer calls than this were made,
                  \* its own aftermath included (0: it never comes)

ASSUME SessionAssumption ==
    /\ NoSession \notin Session
    /\ IoMayFail \in BOOLEAN
    /\ SignalLimit \in Nat

VARIABLES
    pc,           \* per session: handler, then lifecycle control state
    startLock,    \* holder of RecorderInterface.start_lock
    slot,         \* SessionManager.inner: id of the active session
    hook,         \* whose recorder the installed stop hook drives
    stop,         \* sessions whose stop watch has left Running
    acked,        \* sessions whose StopRecording was answered Ok
    auto,         \* sessions whose profile has transcription.auto
    outcome,      \* per session: what await_completion returned
    rx,           \* per session: the oneshot of submit_auto
    sent,         \* per session: the Recorder1 signals emitted, in order
    activeFile,   \* session named by active-session.json
    lastFile,     \* contents of last-session.json
    tasks,        \* SessionManager.lifecycle_tasks
    pending,      \* handles that shutdown took and awaits
    main,         \* control state of main.rs
    inService,    \* sessions that were under way when the signal came
    timedOut      \* one of the shutdown timeouts fired

fileVars == <<activeFile, lastFile>>
taskVars == <<tasks, pending>>
mainVars == <<main, inService, timedOut>>
slotVars == <<slot, hook>>
vars == <<pc, startLock, slotVars, stop, acked, auto, outcome, rx, sent,
          fileVars, taskVars, mainVars>>

(* Control states of a StartRecording call.                                *)
HandlerPc == {"queued", "reserved", "announced", "started", "filed", "live",
              "failing"}

(* Control states of the lifecycle task.                                   *)
LifecyclePc == {"recording", "draining", "drained", "stopping", "audioFiled",
                "completed", "released", "recorded", "awaiting", "transcribed",
                "fullFiled", "ending", "clearing"}

(* "refused": the call returned an error.                                  *)
Pc == {"new", "refused", "done"} \union HandlerPc \union LifecyclePc

(* Between try_reserve and release.                                        *)
HoldingPc == {"reserved", "announced", "started", "filed", "live", "recording",
              "draining", "drained", "stopping", "audioFiled", "completed"}

(* Between Recorder::start and the return of await_completion.             *)
RecorderPc == {"started", "filed", "live", "recording", "draining"}

Outcome == {"none", "ok", "err", "panic"}
RxState == {"none", "pending", "ok", "err", "canceled"}
Signal == {"starting", "recording", "stopping", "RecordingComplete",
           "TranscriptComplete", "idle", "failed"}
MainPc == {"serving", "waitStarts", "draining", "closing", "exited"}

NoLast == [id |-> NoSession, full |-> FALSE]

TypeOK ==
    /\ pc \in [Session -> Pc]
    /\ startLock \in Session \union {NoSession}
    /\ slot \in Session \union {NoSession}
    /\ hook \in Session \union {NoSession}
    /\ stop \subseteq Session
    /\ acked \subseteq Session
    /\ auto \subseteq Session
    /\ outcome \in [Session -> Outcome]
    /\ rx \in [Session -> RxState]
    /\ sent \in [Session -> Seq(Signal)]
    /\ activeFile \in Session \union {NoSession}
    /\ lastFile \in [id : Session \union {NoSession}, full : BOOLEAN]
    /\ tasks \subseteq Session
    /\ pending \subseteq Session
    /\ main \in MainPc
    /\ inService \subseteq Session
    /\ timedOut \in BOOLEAN

Init ==
    /\ pc = [s \in Session |-> "new"]
    /\ startLock = NoSession
    /\ slot = NoSession
    /\ hook = NoSession
    /\ stop = {}
    /\ acked = {}
    /\ auto = {}
    /\ outcome = [s \in Session |-> "none"]
    /\ rx = [s \in Session |-> "none"]
    /\ sent = [s \in Session |-> << >>]
    /\ activeFile = NoSession
    /\ lastFile = NoLast
    /\ tasks = {}
    /\ pending = {}
    /\ main = "serving"
    /\ inService = {}
    /\ timedOut = FALSE

Alive == main # "exited"

(* InflightStartGuard: the calls counted by inflight_starts.               *)
Inflight == {s \in Session : pc[s] \in HandlerPc}

-----------------------------------------------------------------------------
(* Helpers *)

Goto(s, from, to) ==
    /\ Alive
    /\ pc[s] = from
    /\ pc' = [pc EXCEPT ![s] = to]

Emit(s, sig) == sent' = [sent EXCEPT ![s] = Append(@, sig)]

(* Mutant: the stop hook outlives the session.                             *)
releaseSlotOnly == slot' = NoSession /\ UNCHANGED hook

(* SessionManager::release: empties the slot, whoever holds it.            *)
release == slot' = NoSession /\ hook' = NoSession

(* A state file gets its new value, or keeps the old one when I/O fails.   *)
Written(old, new) == {new} \union IF IoMayFail THEN {old} ELSE {}

-----------------------------------------------------------------------------
(* Recorder1.StartRecording *)

(* The calls made so far.                                                  *)
Calls == {s \in Session : pc[s] # "new"}

(* begin_start, then the wait for start_lock.                              *)
BeginStart(s) ==
    /\ Goto(s, "new", "queued")
    /\ main # "serving" => Cardinality(Calls) + 1 < SignalLimit
    /\ UNCHANGED <<startLock, slotVars, stop, acked, auto, outcome, rx, sent,
                   fileVars, taskVars, mainVars>>

(* The lock is free: take it, load and validate the profile, reserve the   *)
(* slot.  A bad profile or SessionInUse returns and drops the lock.        *)
Admit(s) ==
    /\ startLock = NoSession
    /\ \/ /\ Goto(s, "queued", "refused")
          /\ UNCHANGED <<startLock, slotVars, auto>>
       \/ /\ slot = NoSession
          /\ Goto(s, "queued", "reserved")
          /\ startLock' = s
          /\ slot' = s
          /\ hook' = NoSession
          /\ auto' \in {auto, auto \union {s}}
    /\ UNCHANGED <<stop, acked, outcome, rx, sent, fileVars, taskVars, mainVars>>

(* GStreamer initialisation and the recordings directory; a failure frees  *)
(* the slot.  Otherwise StateChanged "starting" is emitted.                *)
Announce(s) ==
    \/ /\ Goto(s, "reserved", "announced")
       /\ Emit(s, "starting")
       /\ UNCHANGED <<startLock, slotVars, stop, acked, auto, outcome, rx,
                      fileVars, taskVars, mainVars>>
    \/ /\ Goto(s, "reserved", "refused")
       /\ startLock' = NoSession
       /\ release
       /\ UNCHANGED <<stop, acked, auto, outcome, rx, sent, fileVars, taskVars,
                      mainVars>>

(* Recorder::start; a failure frees the slot before "failed" is emitted.   *)
StartRecorder(s) ==
    /\ \/ /\ Goto(s, "announced", "started")
          /\ UNCHANGED slotVars
       \/ /\ Goto(s, "announced", "failing")
          /\ release
    /\ UNCHANGED <<startLock, stop, acked, auto, outcome, rx, sent, fileVars,
                   taskVars, mainVars>>

(* Mutant: an error path that forgets the lock.                            *)
EmitStartFailedLocked(s) ==
    /\ Goto(s, "failing", "refused")
    /\ Emit(s, "failed")
    /\ UNCHANGED <<startLock, slotVars, stop, acked, auto, outcome, rx, fileVars,
                   taskVars, mainVars>>

EmitStartFailed(s) ==
    /\ Goto(s, "failing", "refused")
    /\ startLock' = NoSession
    /\ Emit(s, "failed")
    /\ UNCHANGED <<slotVars, stop, acked, auto, outcome, rx, fileVars, taskVars,
                   mainVars>>

(* active_session::write_atomic on the blocking pool.                      *)
WriteActiveSession(s) ==
    /\ Goto(s, "started", "filed")
    /\ activeFile' \in Written(activeFile, s)
    /\ UNCHANGED <<startLock, slotVars, stop, acked, auto, outcome, rx, sent,
                   lastFile, taskVars, mainVars>>

EmitRecording(s) ==
    /\ Goto(s, "filed", "live")
    /\ Emit(s, "recording")
    /\ UNCHANGED <<startLock, slotVars, stop, acked, auto, outcome, rx, fileVars,
                   taskVars, mainVars>>

(* spawn_lifecycle: install_stop_hook puts the hook into whatever session  *)
(* the slot holds, the task is spawned and registered, and the call        *)
(* returns, which drops the lock and the in-flight guard.  (The lookup of  *)
(* the Recorder1 interface just before cannot fail: this handler runs on   *)
(* that interface, and nothing unregisters it.)                            *)
SpawnLifecycle(s) ==
    /\ Goto(s, "live", "recording")
    /\ hook' = IF slot # NoSession THEN s ELSE hook
    /\ tasks' = {t \in tasks : pc[t] # "done"} \union {s}
    /\ startLock' = NoSession
    /\ UNCHANGED <<slot, stop, acked, auto, outcome, rx, sent, fileVars, pending,
                   mainVars>>

-----------------------------------------------------------------------------
(* Stop reasons *)

(* Mutant: Ok although no hook is installed yet.                           *)
hookAssumed == TRUE

hookInstalled == hook # NoSession

(* Recorder1.StopRecording answered Ok: try_stop found the id in the slot  *)
(* and fired the hook.  The replies SessionUnknown and Transient (no hook  *)
(* yet) change nothing.                                                    *)
StopRecording(s) ==
    /\ Alive
    /\ slot = s
    /\ hookInstalled
    /\ stop' = stop \union ({hook} \ {NoSession})
    /\ acked' = acked \union {s}
    /\ UNCHANGED <<pc, startLock, slotVars, auto, outcome, rx, sent, fileVars,
                   taskVars, mainVars>>

(* The bus thread publishes DeviceLost, BusError or EosObserved.           *)
BusStop(s) ==
    /\ Alive
    /\ pc[s] \in {"started", "filed", "live", "recording"}
    /\ s \notin stop
    /\ stop' = stop \union {s}
    /\ UNCHANGED <<pc, startLock, slotVars, acked, auto, outcome, rx, sent,
                   fileVars, taskVars, mainVars>>

-----------------------------------------------------------------------------
(* The lifecycle task *)

(* Mutant: the slot is freed before the recorder has drained.              *)
NoticeStopReleases(s) ==
    /\ s \in stop
    /\ Goto(s, "recording", "draining")
    /\ release
    /\ UNCHANGED <<startLock, stop, acked, auto, outcome, rx, sent, fileVars,
                   taskVars, mainVars>>

(* The wait loop sees a stop reason and offloads await_completion.         *)
NoticeStop(s) ==
    /\ s \in stop
    /\ Goto(s, "recording", "draining")
    /\ UNCHANGED <<startLock, slotVars, stop, acked, auto, outcome, rx, sent,
                   fileVars, taskVars, mainVars>>

(* await_completion returns a report or an error, or its thread panicked:  *)
(* then the slot is released at once.                                      *)
Drained(s) ==
    /\ \/ /\ Goto(s, "draining", "drained")
          /\ outcome' = [outcome EXCEPT ![s] = "ok"]
          /\ UNCHANGED slotVars
       \/ /\ Goto(s, "draining", "stopping")
          /\ outcome' = [outcome EXCEPT ![s] = "err"]
          /\ UNCHANGED slotVars
       \/ /\ Goto(s, "draining", "ending")
          /\ outcome' = [outcome EXCEPT ![s] = "panic"]
          /\ release
    /\ UNCHANGED <<startLock, stop, acked, auto, rx, sent, fileVars, taskVars,
                   mainVars>>

EmitStopping(s) ==
    /\ Goto(s, "drained", "stopping")
    /\ Emit(s, "stopping")
    /\ UNCHANGED <<startLock, slotVars, stop, acked, auto, outcome, rx, fileVars,
                   taskVars, mainVars>>

PersistAudioOnly(s) ==
    /\ Goto(s, "stopping", "audioFiled")
    /\ lastFile' \in Written(lastFile, [id |-> s, full |-> FALSE])
    /\ UNCHANGED <<startLock, slotVars, stop, acked, auto, outcome, rx, sent,
                   activeFile, taskVars, mainVars>>

EmitRecordingComplete(s) ==
    /\ Goto(s, "audioFiled", "completed")
    /\ Emit(s, "RecordingComplete")
    /\ UNCHANGED <<startLock, slotVars, stop, acked, auto, outcome, rx, fileVars,
                   taskVars, mainVars>>

(* Mutant: active-session.json is removed with the slot.                   *)
ReleaseSlotClears(s) ==
    /\ Goto(s, "completed", "released")
    /\ release
    /\ activeFile' \in Written(activeFile, NoSession)
    /\ UNCHANGED <<startLock, stop, acked, auto, outcome, rx, sent, lastFile, taskVars,
                   mainVars>>

(* The slot is free before the transcription starts (C5).                  *)
ReleaseSlot(s) ==
    /\ Goto(s, "completed", "released")
    /\ release
    /\ UNCHANGED <<startLock, stop, acked, auto, outcome, rx, sent, fileVars,
                   taskVars, mainVars>>

(* history.upsert, as Recorded or as Failed; the entry itself is the       *)
(* History module's.                                                       *)
RecordHistory(s) ==
    /\ Goto(s, "released",
            IF outcome[s] = "ok" /\ s \in auto THEN "recorded" ELSE "ending")
    /\ UNCHANGED <<startLock, slotVars, stop, acked, auto, outcome, rx, sent,
                   fileVars, taskVars, mainVars>>

(* queue.submit_auto; a queue that no longer accepts resolves the channel  *)
(* to Err at once.                                                         *)
SubmitAuto(s) ==
    /\ Goto(s, "recorded", "awaiting")
    /\ rx' = [rx EXCEPT ![s] = IF main = "closing" THEN "err" ELSE "pending"]
    /\ UNCHANGED <<startLock, slotVars, stop, acked, auto, outcome, sent,
                   fileVars, taskVars, mainVars>>

(* The job sends its result, or its sender is dropped (cancelled job).     *)
JobResolves(s, r) ==
    /\ Alive
    /\ rx[s] = "pending"
    /\ rx' = [rx EXCEPT ![s] = r]
    /\ UNCHANGED <<pc, startLock, slotVars, stop, acked, auto, outcome, sent,
                   fileVars, taskVars, mainVars>>

(* Mutants: the result is not matched; a dropped sender is not an answer.  *)
AwaitJobUnmatched(s) ==
    /\ rx[s] \notin {"none", "pending"}
    /\ Goto(s, "awaiting", "transcribed")
    /\ UNCHANGED <<startLock, slotVars, stop, acked, auto, outcome, rx, sent,
                   fileVars, taskVars, mainVars>>

AwaitJobIgnoresDrop(s) ==
    /\ rx[s] \in {"ok", "err"}
    /\ Goto(s, "awaiting", IF rx[s] = "ok" THEN "transcribed" ELSE "ending")
    /\ UNCHANGED <<startLock, slotVars, stop, acked, auto, outcome, rx, sent,
                   fileVars, taskVars, mainVars>>

(* rx.await: the job's result, or the sender was dropped.                  *)
AwaitJob(s) ==
    /\ rx[s] \notin {"none", "pending"}
    /\ Goto(s, "awaiting", IF rx[s] = "ok" THEN "transcribed" ELSE "ending")
    /\ UNCHANGED <<startLock, slotVars, stop, acked, auto, outcome, rx, sent,
                   fileVars, taskVars, mainVars>>

PersistWithTranscript(s) ==
    /\ Goto(s, "transcribed", "fullFiled")
    /\ lastFile' \in Written(lastFile, [id |-> s, full |-> TRUE])
    /\ UNCHANGED <<startLock, slotVars, stop, acked, auto, outcome, rx, sent,
                   activeFile, taskVars, mainVars>>

EmitTranscriptComplete(s) ==
    /\ Goto(s, "fullFiled", "ending")
    /\ Emit(s, "TranscriptComplete")
    /\ UNCHANGED <<startLock, slotVars, stop, acked, auto, outcome, rx, fileVars,
                   taskVars, mainVars>>

(* Mutant: a state name that is not part of the protocol.                  *)
VerdictError(s) == IF outcome[s] = "ok" THEN "idle" ELSE "error"

(* "idle" when the recording, and the transcription if there is one,       *)
(* succeeded.                                                              *)
Verdict(s) ==
    IF outcome[s] = "ok" /\ (s \in auto => rx[s] = "ok") THEN "idle" ELSE "failed"

(* Mutant: the slot is released at the end of the lifecycle as well.       *)
EmitTerminalReleases(s) ==
    /\ Goto(s, "ending", "clearing")
    /\ Emit(s, Verdict(s))
    /\ release
    /\ UNCHANGED <<startLock, stop, acked, auto, outcome, rx, fileVars, taskVars,
                   mainVars>>

(* emit_terminal_state: the signal, then active_session::clear, which does *)
(* not look whose file it removes.                                         *)
EmitTerminal(s) ==
    /\ Goto(s, "ending", "clearing")
    /\ Emit(s, Verdict(s))
    /\ UNCHANGED <<startLock, slotVars, stop, acked, auto, outcome, rx, fileVars,
                   taskVars, mainVars>>

ClearActiveSession(s) ==
    /\ Goto(s, "clearing", "done")
    /\ activeFile' \in Written(activeFile, NoSession)
    /\ UNCHANGED <<startLock, slotVars, stop, acked, auto, outcome, rx, sent,
                   lastFile, taskVars, mainVars>>

-----------------------------------------------------------------------------
(* Shutdown *)

Terminate ==
    /\ main = "serving"
    /\ Cardinality(Calls) < SignalLimit
    /\ main' = "waitStarts"
    /\ inService' = Inflight \union {s \in Session : pc[s] \in LifecyclePc}
    /\ UNCHANGED <<pc, startLock, slotVars, stop, acked, auto, outcome, rx, sent,
                   fileVars, taskVars, timedOut>>

(* Mutant: shutdown does not wait for starts that are in flight.           *)
StartsIgnored == UNCHANGED timedOut

(* The wait for inflight_starts, bounded by INFLIGHT_START_DRAIN_TIMEOUT.  *)
StartsDrained ==
    \/ Inflight = {} /\ UNCHANGED timedOut
    \/ Inflight # {} /\ timedOut' = TRUE

(* No start is in flight, or INFLIGHT_START_DRAIN_TIMEOUT has passed: stop *)
(* the active session once and take the handles registered so far.         *)
DrainStarts ==
    /\ main = "waitStarts"
    /\ StartsDrained
    /\ stop' = IF slot # NoSession /\ hook # NoSession
               THEN stop \union {hook} ELSE stop
    /\ pending' = tasks
    /\ tasks' = {}
    /\ main' = "draining"
    /\ UNCHANGED <<pc, startLock, slotVars, acked, auto, outcome, rx, sent,
                   fileVars, inService>>

(* Mutant: the handles are awaited without a timeout.                      *)
LifecyclesJoined ==
    (\A s \in pending : pc[s] = "done") /\ UNCHANGED timedOut

(* The handles taken have finished, or SHUTDOWN_DRAIN_TIMEOUT has passed.  *)
LifecyclesDrained ==
    \/ (\A s \in pending : pc[s] = "done") /\ UNCHANGED timedOut
    \/ (\E s \in pending : pc[s] # "done") /\ timedOut' = TRUE

(* The lifecycle tasks are drained or given up; then JobQueue::shutdown    *)
(* stops accepting.                                                        *)
DrainLifecycles ==
    /\ main = "draining"
    /\ LifecyclesDrained
    /\ main' = "closing"
    /\ UNCHANGED <<pc, startLock, slotVars, stop, acked, auto, outcome, rx, sent,
                   fileVars, taskVars, inService>>

(* The jobs are drained or given up, the bus name is released and the      *)
(* process ends with every task it still has.                              *)
Exit ==
    /\ main = "closing"
    /\ main' = "exited"
    /\ UNCHANGED <<pc, startLock, slotVars, stop, acked, auto, outcome, rx, sent,
                   fileVars, taskVars, inService, timedOut>>

-----------------------------------------------------------------------------

HandlerStep(s) ==
    \/ Admit(s) \/ Announce(s) \/ StartRecorder(s) \/ EmitStartFailed(s)
    \/ WriteActiveSession(s) \/ EmitRecording(s) \/ SpawnLifecycle(s)

LifecycleStep(s) ==
    \/ NoticeStop(s) \/ Drained(s) \/ EmitStopping(s) \/ PersistAudioOnly(s)
    \/ EmitRecordingComplete(s) \/ ReleaseSlot(s) \/ RecordHistory(s)
    \/ SubmitAuto(s) \/ AwaitJob(s) \/ PersistWithTranscript(s)
    \/ EmitTranscriptComplete(s) \/ EmitTerminal(s) \/ ClearActiveSession(s)

MainStep == DrainStarts \/ DrainLifecycles \/ Exit

Next ==
    \/ \E s \in Session :
         \/ BeginStart(s) \/ HandlerStep(s) \/ LifecycleStep(s)
         \/ StopRecording(s) \/ BusStop(s)
         \/ \E r \in {"ok", "err", "canceled"} : JobResolves(s, r)
    \/ Terminate
    \/ MainStep

(* The executor polls every ready task, await_completion returns (Recorder *)
(* !StopCompletes) and the shutdown timeouts elapse.  Callers and signals  *)
(* are not fair, and neither is JobResolves: the wait for whisper-cli has  *)
(* no timeout, so a job may hang for ever.                                 *)
Fairness ==
    /\ \A s \in Session : WF_vars(HandlerStep(s)) /\ WF_vars(LifecycleStep(s))
    /\ WF_vars(MainStep)

Spec == Init /\ [][Next]_vars /\ Fairness

-----------------------------------------------------------------------------
(* Properties *)

(* The slot names exactly the session between its try_reserve and its      *)
(* release: no error path leaks it, and no release, which is not keyed by  *)
(* id, frees the slot of a session that was started in the meantime.       *)
SlotOwnership == \A s \in Session : (slot = s) <=> (pc[s] \in HoldingPc)

(* The installed stop hook drives the recorder of the session in the slot, *)
(* although install_stop_hook does not check whose slot it writes to: a    *)
(* StopRecording never stops another session's recorder.                   *)
HookDrivesOwner == hook # NoSession => hook = slot

(* A StopRecording that is answered Ok has reached the recorder of the     *)
(* session it named: the hook fired was that session's.                    *)
AckedStopDelivered == acked \subseteq stop

(* The order of the signals of one session, for each way a session can     *)
(* end.  All but the third are those of lifecycle.rs's module comment and  *)
(* of C9; the third is what the code does when await_completion fails: the *)
(* comment has no RecordingComplete there (FailureAsDocumented below).     *)
SignalOrders ==
    {<<"starting", "failed">>,
     <<"starting", "recording", "failed">>,
     <<"starting", "recording", "RecordingComplete", "failed">>,
     <<"starting", "recording", "stopping", "RecordingComplete", "idle">>,
     <<"starting", "recording", "stopping", "RecordingComplete", "failed">>,
     <<"starting", "recording", "stopping", "RecordingComplete",
       "TranscriptComplete", "idle">>}

IsPrefixOf(p, q) == Len(p) <= Len(q) /\ p = SubSeq(q, 1, Len(p))

(* What a client sees of one session is always a prefix of one of the      *)
(* orders above: nothing is repeated, swapped or sent after the terminal   *)
(* signal, whatever the other sessions and the shutdown do.                *)
SignalProtocol ==
    \A s \in Session : \E order \in SignalOrders : IsPrefixOf(sent[s], order)

(* The failure order as lifecycle.rs documents it ("await_completion       *)
(* returns Err, release session slot, StateChanged failed"): a session     *)
(* whose recording failed announces no RecordingComplete.  The code sends  *)
(* one, before the release; run failure_order shows it.                    *)
FailureAsDocumented ==
    \A s \in Session : outcome[s] = "err"
        => \A i \in 1..Len(sent[s]) : sent[s][i] # "RecordingComplete"

(* A session that was under way when SIGTERM came (a start between         *)
(* try_reserve and spawn_lifecycle included) has ended when the process    *)
(* exits, unless a timeout cut the shutdown short.                         *)
ShutdownKeepsSessions ==
    (main = "exited" /\ ~timedOut)
        => \A s \in inService : pc[s] \in {"refused", "done"}

LiveRecorders == {s \in Session : pc[s] \in RecorderPc}

EndedRecorders ==
    {s \in Session : pc[s] \in (LifecyclePc \union {"done"}) \ RecorderPc}

(* The daemon implements the single-session policy.                        *)
Single == INSTANCE SingleRecorder
            WITH live <- LiveRecorders, recorded <- EndedRecorders
SingleRecorderSpec == Single!Spec

(* What a session is to the state files.                                   *)
FilePhase(s) ==
    CASE pc[s] \in {"started"}                                -> "running"
      [] pc[s] \in {"filed", "live", "recording", "draining", "drained", "stopping"} -> "recording"
      [] pc[s] \in {"audioFiled", "completed"}                -> "filed"
      [] pc[s] \in {"released", "recorded", "awaiting", "transcribed"} -> "released"
      [] pc[s] = "fullFiled"                                  -> "full"
      [] pc[s] \in {"ending", "clearing"}                     -> "ending"
      [] pc[s] \in {"done", "refused"}                        -> "ended"
      [] OTHER                                                -> "new"

(* The daemon writes and removes the two state files in the order that     *)
(* orphan recovery relies on.                                              *)
Files == INSTANCE StateFiles
            WITH phase <- [s \in Session |-> FilePhase(s)],
                 audio <- {s \in Session : outcome[s] = "ok"}
StateFilesSpec == Files!FilesSpec

(* A stopped session reaches its terminal signal, unless the process exits *)
(* first or its own transcription never answers; an answer, a dropped      *)
(* sender included, always ends the wait.                                  *)
StopLeadsToTerminal ==
    \A s \in Session :
        (s \in stop) ~> (pc[s] = "done" \/ rx[s] = "pending" \/ main = "exited")

(* A StartRecording call returns: it cannot wait for the start lock for    *)
(* ever, because every holder gives it back.                               *)
StartReturns ==
    \A s \in Session :
        (pc[s] = "queued") ~> (pc[s] \notin HandlerPc \/ main = "exited")

(* SIGTERM ends the daemon, also when a transcription never returns.       *)
TerminateLeadsToExit == (main = "waitStarts") ~> (main = "exited")
=============================================================================
