------------------------------ MODULE StateFiles ------------------------------
(***************************************************************************)
(* What the sessions of one daemon process do to the two state files,      *)
(* active-session.json and last-session.json, and to their audio files.    *)
(* The Sessions module implements it (Sessions!StateFilesSpec); Recovery   *)
(* adds crashes and the next start.                                        *)
(***************************************************************************)
EXTENDS Naturals, FiniteSets

CONSTANTS
    Session,     \* ids that StartRecording calls may mint
    NoSession,   \* the file is absent
    IoMayFail    \* whether writes and removals of state files may fail

VARIABLES
    phase,       \* per session: how far it came
    activeFile,  \* session named by active-session.json
    lastFile,    \* contents of last-session.json
    audio        \* sessions with an audio file that is not empty

files == <<activeFile, lastFile>>
fvars == <<phase, files, audio>>

(* "running": the recorder runs; "recording": active-session.json was      *)
(* written; "filed": last-session.json was; "released": the slot is free;  *)
(* "full": last-session.json was written again; "ending": the terminal     *)
(* signal is out or about to be.                                           *)
Phase == {"new", "running", "recording", "filed", "released", "full", "ending", "ended"}

(* The phases in which a session counts on active-session.json.            *)
Naming == {"recording", "filed", "released", "full", "ending"}

(* A state file gets its new value, or keeps the old one when I/O fails.   *)
Written(old, new) == {new} \union IF IoMayFail THEN {old} ELSE {}

FilesInit ==
    /\ phase = [s \in Session |-> "new"]
    /\ activeFile = NoSession
    /\ lastFile = [id |-> NoSession, full |-> FALSE]
    /\ audio = {}

-----------------------------------------------------------------------------
(* A session *)

Goto(s, from, to) ==
    /\ phase[s] \in from
    /\ phase' = [phase EXCEPT ![s] = to]

(* Recorder::start, in the slot of which there is one.                     *)
Record(s) ==
    /\ \A t \in Session : phase[t] \notin {"running", "recording", "filed"}
    /\ Goto(s, {"new"}, "running")
    /\ UNCHANGED <<files, audio>>

(* The call is refused, or its recorder does not start.                    *)
Refuse(s) ==
    /\ Goto(s, {"new"}, "ended")
    /\ UNCHANGED <<files, audio>>

(* active_session::write_atomic.                                           *)
Name(s) ==
    /\ Goto(s, {"running"}, "recording")
    /\ activeFile' \in Written(activeFile, s)
    /\ UNCHANGED <<lastFile, audio>>

(* Samples reach the disk.                                                 *)
Tape(s) ==
    /\ phase[s] \in {"running", "recording"} /\ s \notin audio
    /\ audio' = audio \union {s}
    /\ UNCHANGED <<phase, files>>

(* last-session.json with the audio alone.                                 *)
PersistAudioOnly(s) ==
    /\ Goto(s, {"recording"}, "filed")
    /\ lastFile' \in Written(lastFile, [id |-> s, full |-> FALSE])
    /\ UNCHANGED <<activeFile, audio>>

(* await_completion panicked.                                              *)
Panic(s) ==
    /\ Goto(s, {"recording"}, "ending")
    /\ UNCHANGED <<files, audio>>

Release(s) ==
    /\ Goto(s, {"filed"}, "released")
    /\ UNCHANGED <<files, audio>>

(* last-session.json with the transcript, if there is one.                 *)
PersistWithTranscript(s) ==
    /\ Goto(s, {"released"}, "full")
    /\ lastFile' \in Written(lastFile, [id |-> s, full |-> TRUE])
    /\ UNCHANGED <<activeFile, audio>>

End(s) ==
    /\ Goto(s, {"released", "full"}, "ending")
    /\ UNCHANGED <<files, audio>>

(* active_session::clear, whomever the file names.                         *)
Clear(s) ==
    /\ Goto(s, {"ending"}, "ended")
    /\ activeFile' \in Written(activeFile, NoSession)
    /\ UNCHANGED <<lastFile, audio>>

SessionStep(s) ==
    \/ Record(s) \/ Refuse(s) \/ Name(s) \/ Tape(s) \/ PersistAudioOnly(s) \/ Panic(s)
    \/ Release(s) \/ PersistWithTranscript(s) \/ End(s) \/ Clear(s)

-----------------------------------------------------------------------------

FilesSpec == FilesInit /\ [][\E s \in Session : SessionStep(s)]_fvars
=============================================================================
