------------------------------- MODULE Recovery -------------------------------
(***************************************************************************)
(* A daemon that may die at any moment, and what orphan_recovery.rs makes  *)
(* of the files at the next start.  The bus name is claimed before recover *)
(* runs, so a session may begin before it; recover itself has no await and *)
(* holds the only thread of the runtime, but what the sessions gave to the *)
(* blocking pool, and GStreamer, go on next to it.                         *)
(***************************************************************************)
EXTENDS StateFiles

CONSTANT MaxCrashes   \* bound on crashes (and clean exits)

VARIABLES
    boot,        \* "down", "serving", or how far the start has come
    orphan,      \* session that recover read from active-session.json
    submitted,   \* sessions whose audio was given to the job queue
    crashes,
    killed,      \* history, per session: the phase it was killed in, or "new"
    shared,      \* history: sessions whose use of active-session.json
                 \* overlapped that of another one
    early,       \* history: sessions that named themselves there before the
                 \* recovery of their process was over
    named        \* history: sessions that last-session.json ever named

historyVars == <<killed, shared, early, named>>
dvars == <<fvars, boot, orphan, submitted, crashes, historyVars>>

DInit ==
    /\ FilesInit
    /\ boot = "serving" /\ orphan = NoSession /\ submitted = {} /\ crashes = 0
    /\ killed = [s \in Session |-> "new"]
    /\ shared = {} /\ early = {} /\ named = {}

(* What goes on while recover holds the thread: writes and removals that   *)
(* were under way in the blocking pool, and the pipeline.                  *)
PoolStep(s) ==
    \/ Name(s) \/ Tape(s) \/ PersistAudioOnly(s) \/ PersistWithTranscript(s)
    \/ Clear(s)

(* The sessions that count on active-session.json, an orphan that still    *)
(* stands there included.                                                  *)
Users == {t \in Session : phase[t] \in Naming \/ (boot # "serving" /\ t = activeFile)}

(* A session takes a step, in a daemon that has its bus name.              *)
Serve(s) ==
    LET others == Users \ {s}
    IN  /\ boot # "down"
        /\ IF boot \in {"claimed", "serving"} THEN SessionStep(s) ELSE PoolStep(s)
        /\ shared' = IF phase'[s] \in Naming /\ others # {}
                     THEN shared \union {s} \union others ELSE shared
        /\ early' = IF phase'[s] \in Naming /\ boot # "serving"
                    THEN early \union {s} ELSE early
        /\ named' = named \union ({lastFile'.id} \ {NoSession})
        /\ UNCHANGED <<boot, orphan, submitted, crashes, killed>>

-----------------------------------------------------------------------------
(* Death and recovery *)

(* The process is gone, in a session or in the recovery of another one.    *)
Crash ==
    /\ boot # "down" /\ crashes < MaxCrashes
    /\ boot' = "down" /\ orphan' = NoSession
    /\ crashes' = crashes + 1
    /\ killed' = [s \in Session |-> IF phase[s] \in {"new", "ended"} THEN killed[s]
                                    ELSE phase[s]]
    /\ phase' = [s \in Session |-> IF phase[s] = "new" THEN "new" ELSE "ended"]
    /\ UNCHANGED <<files, audio, submitted, shared, early, named>>

recoverFrame == <<phase, audio, crashes, killed, shared, early>>

(* main claims the bus name before it calls recover.                       *)
ClaimName ==
    /\ boot = "down"
    /\ boot' = "claimed"
    /\ UNCHANGED <<recoverFrame, files, orphan, submitted, named>>

(* active_session::read: no file, nothing to recover.                      *)
ReadOrphan ==
    /\ boot = "claimed"
    /\ boot' = IF activeFile = NoSession THEN "serving" ELSE "read"
    /\ orphan' = activeFile
    /\ UNCHANGED <<recoverFrame, files, submitted, named>>

(* Mutant: the audio file is not looked at.                                *)
worth_recoveringUnread == orphan # NoSession

worth_recovering == orphan \in audio

(* Mutant: a session without usable audio keeps its file.                  *)
JudgeOrphanKeeps ==
    /\ boot = "read"
    /\ boot' = IF worth_recovering THEN "found" ELSE "serving"
    /\ UNCHANGED <<recoverFrame, files, orphan, submitted, named>>

(* Without usable audio there is nothing to do but to remove the file.     *)
JudgeOrphan ==
    /\ boot = "read"
    /\ boot' = IF worth_recovering THEN "found" ELSE "clearing"
    /\ UNCHANGED <<recoverFrame, files, orphan, submitted, named>>

(* Mutant: a last-session.json that is there is kept.                      *)
FileOrphanKeeps ==
    /\ boot = "found"
    /\ boot' = "filed"
    /\ lastFile' = IF lastFile.id = NoSession THEN [id |-> orphan, full |-> FALSE]
                                             ELSE lastFile
    /\ named' = named \union ({lastFile'.id} \ {NoSession})
    /\ UNCHANGED <<recoverFrame, activeFile, orphan, submitted>>

(* last-session.json names the orphan, without a transcript.               *)
FileOrphan ==
    /\ boot = "found"
    /\ boot' = "filed"
    /\ lastFile' \in Written(lastFile, [id |-> orphan, full |-> FALSE])
    /\ named' = named \union ({lastFile'.id} \ {NoSession})
    /\ UNCHANGED <<recoverFrame, activeFile, orphan, submitted>>

(* Mutant: a job that cannot be built aborts the start.                    *)
SubmitOrphanAborts ==
    /\ boot = "filed"
    /\ \/ boot' = "clearing" /\ submitted' = submitted \union {orphan}
       \/ boot' = "down" /\ UNCHANGED submitted
    /\ UNCHANGED <<recoverFrame, files, orphan, named>>

(* build_job_spec and submit; a profile that is gone is only logged.       *)
SubmitOrphan ==
    /\ boot = "filed"
    /\ boot' = "clearing"
    /\ submitted' \in {submitted, submitted \union {orphan}}
    /\ UNCHANGED <<recoverFrame, files, orphan, named>>

(* active_session::clear, whatever came of the rest and whomever the file  *)
(* names by now.                                                           *)
ClearOrphan ==
    /\ boot = "clearing"
    /\ boot' = "serving"
    /\ activeFile' \in Written(activeFile, NoSession)
    /\ orphan' = NoSession
    /\ UNCHANGED <<recoverFrame, lastFile, submitted, named>>

RecoverStep ==
    \/ ClaimName \/ ReadOrphan \/ JudgeOrphan \/ FileOrphan \/ SubmitOrphan
    \/ ClearOrphan

DNext == (\E s \in Session : Serve(s)) \/ Crash \/ RecoverStep

DSafeSpec == DInit /\ [][DNext]_dvars

(* A daemon that died is started again (systemd, or the next login).       *)
DSpec == DSafeSpec /\ WF_dvars(RecoverStep)

-----------------------------------------------------------------------------
(* Properties *)

(* Every variable stays in its type.                                       *)
DTypeOK ==
    /\ phase \in [Session -> Phase] /\ killed \in [Session -> Phase]
    /\ {activeFile, orphan} \subseteq Session \union {NoSession}
    /\ lastFile \in [id : Session \union {NoSession}, full : BOOLEAN]
    /\ {audio, submitted, shared, early, named} \subseteq SUBSET Session
    /\ boot \in {"down", "claimed", "read", "found", "filed", "clearing", "serving"}

(* While the daemon serves, active-session.json never names a session that *)
(* is over, whatever was killed when: such a file would make every press   *)
(* of the hotkey answer "draining" (orphan_recovery.rs; toggle.rs).        *)
FileNamesLiving ==
    boot = "serving" /\ ~IoMayFail /\ activeFile # NoSession
    => phase[activeFile] \in Naming

(* The audio of a crash is never forgotten: once the daemon serves again,  *)
(* last-session.json has named every session that was killed with audio on *)
(* disk and had active-session.json to itself, even if the recovery was    *)
(* killed as well (orphan_recovery.rs).  A session that wrote its name     *)
(* before the recovery was over is excepted: it may overwrite an orphan's  *)
(* name unread, and the recovery may take it for one and remove its name.  *)
OrphanFiled ==
    \A s \in Session :
        boot = "serving" /\ ~IoMayFail /\ killed[s] \in Naming
            /\ s \in audio \ (shared \union early)
        => s \in named

(* A session is only given to the job queue with audio on disk, and never  *)
(* while it is under way, unless it began before the recovery was over     *)
(* (orphan_recovery.rs takes every name it finds for an orphan's).         *)
SubmittedIsDead ==
    \A s \in submitted : s \in audio /\ (phase[s] = "ended" \/ s \in early)

(* A killed daemon serves again.                                           *)
RestartServes == []<>(boot = "serving")
=============================================================================
