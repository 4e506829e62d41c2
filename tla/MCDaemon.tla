------------------------------ MODULE MCDaemon ------------------------------
(***************************************************************************)
(* Model-checking instance of the daemon's durable side: Recovery (state   *)
(* files over crashes and restarts), History (the writer of the index) and *)
(* JobQueue (the lane of transcription jobs, which feeds the history). One *)
(* part runs in a behaviour. Every invariant includes the type invariants  *)
(* of the parts it speaks of.                                              *)
(***************************************************************************)
EXTENDS Naturals

CONSTANTS
    Session,          \* ids that StartRecording calls may mint
    NoSession,        \* the file is absent
    IoMayFail,        \* whether writes and removals of state files may fail
    MaxCrashes,       \* bound on crashes
    ChannelDepth,     \* CHANNEL_DEPTH of the history channel
    HistoryDepth,     \* the same, where the history runs alone
    PersistMayFail,   \* whether the history file may fail to be written
    Orphans,          \* sessions that the orphan recovery may submit
    IndexListsOrphans, \* whether the index found at the start may list them
    Concurrency,      \* permits of the transcription lane
    MaxCancels        \* bound on Cancel calls

ASSUME DaemonAssumption ==
    /\ NoSession \notin Session
    /\ {IoMayFail, PersistMayFail, IndexListsOrphans} \subseteq BOOLEAN
    /\ {MaxCrashes, ChannelDepth, HistoryDepth, Concurrency, MaxCancels}
         \subseteq Nat

VARIABLE part   \* the part of the system that runs

VARIABLES phase, activeFile, lastFile, audio, boot, orphan, submitted, crashes,
          killed, shared, early, named
R == INSTANCE Recovery
rvars == <<phase, activeFile, lastFile, audio, boot, orphan, submitted,
           crashes, killed, shared, early, named>>

VARIABLES chan, mem, disk, h_audio, writer
H == INSTANCE History WITH audio <- h_audio, ChannelDepth <- HistoryDepth
hvars == <<chan, mem, disk, h_audio, writer>>

VARIABLES jpc, auto, registry, permits, aborting, cancelling, cancels, done,
          announced, accepting, closing, recovered, unlisted, j_chan, j_mem,
          j_disk, j_audio, j_writer
J == INSTANCE JobQueue
     WITH chan <- j_chan, mem <- j_mem, disk <- j_disk, audio <- j_audio,
          writer <- j_writer
jvars == <<jpc, auto, registry, permits, aborting, cancelling, cancels, done,
           announced, accepting, closing, recovered, unlisted, j_chan, j_mem,
           j_disk, j_audio, j_writer>>

(* One part runs; the others keep one of their initial states.             *)
Init ==
    /\ part \in {"recovery", "history", "jobs"}
    /\ R!DInit
    /\ H!HistInit /\ (part # "history" => disk.readable)
    /\ J!Init /\ recovered \subseteq (IF part = "jobs" THEN Orphans ELSE {})
    /\ IndexListsOrphans \/ unlisted = recovered

Next ==
    \/ /\ part = "recovery" /\ R!DNext
       /\ UNCHANGED <<part, hvars, jvars>>
    \/ /\ part = "history" /\ H!HistNext
       /\ UNCHANGED <<part, rvars, jvars>>
    \/ /\ part = "jobs" /\ J!Next
       /\ UNCHANGED <<part, rvars, hvars>>

vars == <<part, rvars, hvars, jvars>>

(* Fairness of Recovery and of JobQueue; only one of them runs.            *)
Fair(j) ==
    \/ /\ part = "jobs" /\ (J!JobStep(j) \/ J!Submit(j))
       /\ UNCHANGED <<part, rvars, hvars>>
    \/ /\ part = "recovery" /\ R!RecoverStep
       /\ UNCHANGED <<part, hvars, jvars>>

Spec ==
    /\ Init /\ [][Next]_vars
    /\ \A j \in Session : WF_vars(Fair(j))
    /\ WF_jvars(part = "jobs" /\ J!WriterStep)

-----------------------------------------------------------------------------
(* Over crashes and restarts active-session.json never names a session that*)
(* is over, the audio a crash left is filed by the recovery, and only dead *)
(* sessions with usable audio are transcribed again; sessions that begin   *)
(* before the recovery is over are excepted where Recovery says so         *)
(* (orphan_recovery.rs, main.rs, lifecycle.rs).                            *)
OrphansEndOnce ==
    /\ part = "recovery" =>
          /\ R!DTypeOK
          /\ R!FileNamesLiving
          /\ R!OrphanFiled
          /\ R!SubmittedIsDead

(* Whatever Cancel and shutdown interrupt, no permit of the lane is lost or*)
(* doubled, a transcript is recorded before its job is announced, a        *)
(* cancelled entry ends as failed and a finished job leaves its result,    *)
(* for every session that has an entry; and the index file follows the     *)
(* entries in memory (queue.rs, writer.rs).                                *)
OutcomesRecorded ==
    /\ part = "jobs" =>
          /\ J!TypeOK
          /\ J!PermitsConserved
          /\ J!CompletedIsRecorded
          /\ J!CancelledEndsFailed
          /\ J!OutcomeReachesHistory
    /\ part = "history" =>
          /\ H!HistTypeOK
          /\ H!DiskMatchesMemory

(* A restarted daemon has no entry that claims to be in transcription, and *)
(* no other request loses a session's transcript (writer.rs).              *)
HistoryKept ==
    /\ H!NoStaleTranscribing
    /\ H!TranscriptKept

(* A killed daemon serves again, and the lifecycle task that awaits a job  *)
(* is answered (orphan_recovery.rs, main.rs, queue.rs).                    *)
DaemonServes ==
    /\ R!RestartServes
    /\ J!AutoJobResolves
=============================================================================
