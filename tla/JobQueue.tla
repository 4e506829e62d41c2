------------------------------ MODULE JobQueue ------------------------------
(***************************************************************************)
(* The transcription queue of zwhisperd (jobs/queue.rs, jobs_service.rs):  *)
(* every job is a task that waits for a semaphore permit, transcribes,     *)
(* reports to the history writer and over D-Bus, and resolves the oneshot  *)
(* of an auto job.  Cancel aborts the task at its next await.              *)
(*                                                                         *)
(* A job is identified with the session whose audio it transcribes: the    *)
(* lifecycle task, TranscribeFile and the orphan recovery submit one job   *)
(* per session id.                                                         *)
(***************************************************************************)
EXTENDS Naturals, Sequences, FiniteSets

CONSTANTS
    Session,         \* session ids, one job each
    Concurrency,     \* permits of the semaphore
    MaxCancels,      \* Cancel calls that find their job
    ChannelDepth,    \* see History
    PersistMayFail   \* see History

VARIABLES
    jpc,         \* per job: control state of its task
    auto,        \* jobs submitted by the lifecycle task
    registry,    \* per job: state of its JobRecord, or "absent"
    permits,     \* free permits
    aborting,    \* tasks that were aborted and not yet dropped
    cancelling,  \* per job: spawned history updates of cancel
    cancels,     \* Cancel calls so far
    done,        \* per job: its oneshot
    announced,   \* jobs whose JobCompleted or JobFailed was emitted
    accepting,   \* JobQueue.accepting
    closing,     \* control state of JobQueue::shutdown
    recovered,   \* session that the orphan recovery may submit, if any
    unlisted     \* history: whether the index found at the start lacks it

VARIABLES chan, mem, disk, audio, writer

H == INSTANCE History

jobVars == <<jpc, auto, registry, permits, aborting, cancelling, cancels, done,
             announced>>
processVars == <<accepting, closing, recovered, unlisted>>
histVars == <<chan, mem, disk, audio, writer>>
vars == <<jobVars, processVars, histVars>>

(* "filed": the history entry was sent, the job is not yet submitted.      *)
TaskPc == {"queued", "acquired", "transcribing", "succeeded", "failed",
           "okRecorded", "errRecorded", "okAnnounced", "errAnnounced",
           "okProgress", "errProgress"}
JobPc == {"new", "filed", "refused", "gone", "dropped"} \union TaskPc

(* The states in which run_job owns a permit.                              *)
HoldsPermit == {"acquired", "transcribing"}

JobState == {"absent", "queued", "running", "done", "failed", "cancelled"}

TypeOK ==
    /\ jpc \in [Session -> JobPc]
    /\ auto \subseteq Session
    /\ registry \in [Session -> JobState]
    /\ permits \in 0..Concurrency
    /\ aborting \subseteq Session
    /\ cancelling \in [Session -> 0..MaxCancels]
    /\ cancels \in 0..MaxCancels
    /\ done \in [Session -> {"none", "pending", "ok", "err", "dropped"}]
    /\ announced \in [Session -> {"none", "completed", "failed"}]
    /\ accepting \in BOOLEAN
    /\ closing \in {"open", "draining", "exited"}
    /\ recovered \subseteq Session /\ unlisted \subseteq recovered
    /\ H!HistTypeOK

JobInit ==
    /\ jpc = [j \in Session |-> "new"]
    /\ auto = {}
    /\ registry = [j \in Session |-> "absent"]
    /\ permits = Concurrency
    /\ aborting = {}
    /\ cancelling = [j \in Session |-> 0]
    /\ cancels = 0
    /\ done = [j \in Session |-> "none"]
    /\ announced = [j \in Session |-> "none"]
    /\ accepting = TRUE
    /\ closing = "open"

(* What may stand in the index for a session that the previous process did *)
(* not end.                                                                *)
LeftEntry == {[status |-> st, transcript |-> st = "done",
               error |-> st \in {"interrupted", "failed"}] : st \in H!Status}

(* The previous process left at most one session to recover; it filed its  *)
(* entry, or died before (active-session.json is written at the start, the *)
(* entry after the recording).                                             *)
Init ==
    /\ JobInit
    /\ recovered \in {{}} \union {{j} : j \in Session}
    /\ unlisted \in SUBSET recovered
    /\ \E e \in LeftEntry :
         disk = [readable |-> TRUE,
                 sessions |-> [j \in Session |-> IF j \in recovered \ unlisted
                                               THEN e ELSE H!NoEntry]]
    /\ chan = << >> /\ mem = H!NoEntries /\ audio = recovered /\ writer = "loading"

Alive == closing # "exited"

-----------------------------------------------------------------------------
(* Submission *)

(* The entry is recorded before the job is enqueued: by the lifecycle task *)
(* after a recording, or by TranscribeFile once path and backend are       *)
(* validated.                                                              *)
FileEntry(j) ==
    /\ Alive
    /\ jpc[j] = "new" /\ j \notin recovered
    /\ H!Send(H!Upsert(j, "recorded"))
    /\ audio' = audio \union {j}
    /\ jpc' = [jpc EXCEPT ![j] = "filed"]
    /\ auto' \in {auto, auto \union {j}}
    /\ UNCHANGED <<registry, permits, aborting, cancelling, cancels, done,
                   announced, processVars, mem, disk, writer>>

(* submit: refused while shutting down, which resolves the channel of an   *)
(* auto job; else the task is spawned and its record inserted.             *)
submit(j) ==
    IF accepting
    THEN /\ jpc' = [jpc EXCEPT ![j] = "queued"]
         /\ registry' = [registry EXCEPT ![j] = "queued"]
         /\ done' = [done EXCEPT ![j] = IF j \in auto THEN "pending" ELSE "none"]
    ELSE /\ jpc' = [jpc EXCEPT ![j] = "refused"]
         /\ done' = [done EXCEPT ![j] = IF j \in auto THEN "err" ELSE "none"]
         /\ UNCHANGED registry

Submit(j) ==
    /\ Alive
    /\ jpc[j] = "filed"
    /\ submit(j)
    /\ UNCHANGED <<auto, permits, aborting, cancelling, cancels, announced,
                   processVars, histVars>>

(* orphan_recovery::recover submits without an upsert, and awaits nothing. *)
SubmitRecovered(j) ==
    /\ closing = "open"
    /\ jpc[j] = "new" /\ j \in recovered
    /\ submit(j)
    /\ UNCHANGED <<auto, permits, aborting, cancelling, cancels, announced,
                   processVars, histVars>>

-----------------------------------------------------------------------------
(* run_job.  An aborted task takes none of these steps.                    *)

Task(j, from, to) ==
    /\ Alive
    /\ jpc[j] = from
    /\ j \notin aborting
    /\ jpc' = [jpc EXCEPT ![j] = to]

(* A permit frees up: set_state(Running) and JobProgress "running".        *)
AcquirePermit(j) ==
    /\ permits > 0
    /\ Task(j, "queued", "acquired")
    /\ permits' = permits - 1
    /\ registry' = [registry EXCEPT ![j] = "running"]
    /\ UNCHANGED <<auto, aborting, cancelling, cancels, done, announced,
                   processVars, histVars>>

MarkTranscribing(j) ==
    /\ Task(j, "acquired", "transcribing")
    /\ H!Send(H!SetStatus(j, "transcribing"))
    /\ UNCHANGED <<auto, registry, permits, aborting, cancelling, cancels, done,
                   announced, processVars, mem, disk, audio, writer>>

(* The backend returns (external) and the permit is dropped.               *)
Transcribed(j) ==
    /\ \/ Task(j, "transcribing", "succeeded")
       \/ Task(j, "transcribing", "failed")
    /\ permits' = permits + 1
    /\ UNCHANGED <<auto, registry, aborting, cancelling, cancels, done,
                   announced, processVars, histVars>>

(* Mutant: the history is not told.                                        *)
RecordNothing(j) == UNCHANGED chan

RecordTranscript(j) == H!Send(H!SetTranscript(j))
RecordFailure(j) == H!Send(H!SetStatus(j, "failed"))

(* The result goes to the history first ...                                *)
RecordResult(j) ==
    /\ \/ Task(j, "succeeded", "okRecorded") /\ RecordTranscript(j)
       \/ Task(j, "failed", "errRecorded") /\ RecordFailure(j)
    /\ UNCHANGED <<auto, registry, permits, aborting, cancelling, cancels, done,
                   announced, processVars, mem, disk, audio, writer>>

(* ... then JobCompleted or JobFailed is emitted ...                       *)
AnnounceResult(j) ==
    /\ \/ /\ Task(j, "okRecorded", "okAnnounced")
          /\ announced' = [announced EXCEPT ![j] = "completed"]
       \/ /\ Task(j, "errRecorded", "errAnnounced")
          /\ announced' = [announced EXCEPT ![j] = "failed"]
    /\ UNCHANGED <<auto, registry, permits, aborting, cancelling, cancels, done,
                   processVars, histVars>>

(* ... then set_state and JobProgress ...                                  *)
ProgressResult(j) ==
    /\ \/ /\ Task(j, "okAnnounced", "okProgress")
          /\ registry' = [registry EXCEPT ![j] = "done"]
       \/ /\ Task(j, "errAnnounced", "errProgress")
          /\ registry' = [registry EXCEPT ![j] = "failed"]
    /\ UNCHANGED <<auto, permits, aborting, cancelling, cancels, done, announced,
                   processVars, histVars>>

(* ... then the oneshot resolves and the record is removed.                *)
FinishJob(j) ==
    /\ \/ /\ Task(j, "okProgress", "gone")
          /\ done' = [done EXCEPT ![j] = IF j \in auto THEN "ok" ELSE "none"]
       \/ /\ Task(j, "errProgress", "gone")
          /\ done' = [done EXCEPT ![j] = IF j \in auto THEN "err" ELSE "none"]
    /\ registry' = [registry EXCEPT ![j] = "absent"]
    /\ UNCHANGED <<auto, permits, aborting, cancelling, cancels, announced,
                   processVars, histVars>>

-----------------------------------------------------------------------------
(* Jobs1.Cancel *)

(* Mutant: cancel only marks the record.                                   *)
abortNothing(j) == UNCHANGED aborting

(* AbortHandle::abort has no effect on a task that has ended.              *)
abort(j) ==
    aborting' = IF jpc[j] \in TaskPc THEN aborting \union {j} ELSE aborting

(* Any job with a record can be cancelled, whatever its state.  The task   *)
(* is aborted, the record stays as "cancelled", and the history update is  *)
(* left to a task of its own.                                              *)
Cancel(j) ==
    /\ Alive
    /\ cancels < MaxCancels
    /\ registry[j] # "absent"
    /\ cancels' = cancels + 1
    /\ registry' = [registry EXCEPT ![j] = "cancelled"]
    /\ abort(j)
    /\ cancelling' = [cancelling EXCEPT ![j] = @ + 1]
    /\ UNCHANGED <<jpc, auto, permits, done, announced, processVars, histVars>>

(* Mutants: the permit is not tied to the future, and is leaked or given   *)
(* back twice; the sender is kept outside the future.                      *)
PermitLeaked(j) == 0
PermitReturnedAgain(j) == 1
SenderKept(j) == done[j]

(* What the future owns: the permit, and the oneshot sender.               *)
PermitOf(j) == IF jpc[j] \in HoldsPermit THEN 1 ELSE 0
SenderDropped(j) == IF done[j] = "pending" THEN "dropped" ELSE done[j]

(* The runtime drops the aborted future: its permit is returned and its    *)
(* oneshot sender goes away.                                               *)
DropAborted(j) ==
    /\ Alive
    /\ j \in aborting
    /\ aborting' = aborting \ {j}
    /\ jpc' = [jpc EXCEPT ![j] = "dropped"]
    /\ permits' = permits + PermitOf(j)
    /\ done' = [done EXCEPT ![j] = SenderDropped(j)]
    /\ UNCHANGED <<auto, registry, cancelling, cancels, announced, processVars,
                   histVars>>

RecordCancel(j) ==
    /\ Alive
    /\ cancelling[j] > 0
    /\ H!Send(H!SetStatus(j, "failed"))
    /\ cancelling' = [cancelling EXCEPT ![j] = @ - 1]
    /\ UNCHANGED <<jpc, auto, registry, permits, aborting, cancels, done,
                   announced, processVars, mem, disk, audio, writer>>

-----------------------------------------------------------------------------
(* JobQueue::shutdown *)

(* Stop accepting and start to await the tasks.                            *)
CloseQueue ==
    /\ closing = "open"
    /\ closing' = "draining"
    /\ accepting' = FALSE
    /\ UNCHANGED <<jobVars, recovered, unlisted, histVars>>

(* The tasks have ended, or SHUTDOWN_DRAIN_TIMEOUT has passed with some of *)
(* them still running; either way main returns and the process ends with   *)
(* whatever is left in the channel.                                        *)
ExitQueue ==
    /\ closing = "draining"
    /\ closing' = "exited"
    /\ UNCHANGED <<jobVars, accepting, recovered, unlisted, histVars>>

-----------------------------------------------------------------------------

WriterStep ==
    /\ Alive
    /\ H!LoadHistory \/ H!ServeRequest
    /\ UNCHANGED <<jobVars, processVars>>

JobStep(j) ==
    \/ AcquirePermit(j) \/ MarkTranscribing(j) \/ Transcribed(j)
    \/ RecordResult(j) \/ AnnounceResult(j) \/ ProgressResult(j) \/ FinishJob(j)
    \/ DropAborted(j) \/ RecordCancel(j)

Next ==
    \/ \E j \in Session : FileEntry(j) \/ Submit(j) \/ SubmitRecovered(j)
                          \/ JobStep(j) \/ Cancel(j)
    \/ CloseQueue \/ ExitQueue
    \/ WriterStep

(* The runtime polls every task and a backend returns.  The last is an     *)
(* assumption about external programs: deepgram.rs bounds its retries, but *)
(* the wait for whisper-cli has no timeout.  That the semaphore is fair    *)
(* (a released permit goes to the longest waiter) is not even needed: a    *)
(* job acquires once, so it can only be passed over by the other jobs.     *)
Fairness ==
    /\ \A j \in Session : WF_vars(JobStep(j) \/ Submit(j))
    /\ WF_vars(WriterStep)

Spec == Init /\ [][Next]_vars /\ Fairness

-----------------------------------------------------------------------------
(* Properties *)

(* A permit is owned by exactly one task or free: none is lost when a job  *)
(* is cancelled while it waits, while it transcribes, or after it gave the *)
(* permit back, so the lane never shrinks and never widens.                *)
PermitsConserved ==
    permits + Cardinality({j \in Session : jpc[j] \in HoldsPermit}) = Concurrency

(* A client that sees JobCompleted finds the transcript in the history     *)
(* once the requests sent so far are served: the history is told first.    *)
(* Here and below a job of the orphan recovery whose session has no entry  *)
(* is excepted: nobody upserts one, and what it reports is dropped         *)
(* (orphan_recovery.rs, writer.rs).                                        *)
CompletedIsRecorded ==
    \A j \in Session \ unlisted :
        announced[j] = "completed" =>
            \/ mem[j].transcript
            \/ \E i \in 1..Len(chan) : chan[i] = H!SetTranscript(j)

(* When a cancelled job's updates have been served its entry says failed:  *)
(* nothing the aborted task had started arrives after the cancellation.    *)
CancelledEndsFailed ==
    \A j \in Session \ unlisted :
        (registry[j] = "cancelled" /\ cancelling[j] = 0 /\ chan = << >>)
            => mem[j].status = "failed"

(* A job that ran to its end leaves its own result in the history.         *)
OutcomeReachesHistory ==
    \A j \in Session \ unlisted :
        (jpc[j] = "gone" /\ chan = << >>)
            => mem[j].status = IF announced[j] = "completed"
                               THEN "done" ELSE "failed"

(* The lifecycle task that awaits an auto job gets an answer: its channel  *)
(* resolves, or its sender is dropped, whatever Cancel and shutdown do.    *)
AutoJobResolves ==
    \A j \in Session : []<>(done[j] # "pending" \/ ~Alive)
=============================================================================
