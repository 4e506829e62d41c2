------------------------------- MODULE History -------------------------------
(***************************************************************************)
(* The durable session history of zwhisperd (history/mod.rs and            *)
(* history/writer.rs): one writer task owns the entries in memory and the  *)
(* file history.json, and serves requests from one bounded channel.  The   *)
(* writer loads the file and runs the startup recovery before it serves.   *)
(***************************************************************************)
EXTENDS Naturals, Sequences

CONSTANTS
    Session,        \* session ids
    ChannelDepth,   \* CHANNEL_DEPTH of the mpsc channel
    PersistMayFail  \* whether write_atomic_to may fail

VARIABLES
    chan,      \* requests queued for the writer
    mem,       \* the writer's entries
    disk,      \* history.json
    audio,     \* sessions whose FLAC is on disk
    writer     \* control state of writer_loop

histVars == <<chan, mem, disk, audio, writer>>

Status == {"recorded", "transcribing", "interrupted", "done", "failed"}

(* The fields that the operations tell apart: the status, and whether      *)
(* transcript paths and an error text are recorded.                        *)
NoEntry == [status |-> "absent", transcript |-> FALSE, error |-> FALSE]
Entry == [status : Status, transcript : BOOLEAN, error : BOOLEAN]
Entries == [Session -> Entry \union {NoEntry}]
NoEntries == [s \in Session |-> NoEntry]

(* An unreadable file is corrupt or written by a newer schema; a missing   *)
(* one loads as the empty history.                                         *)
DiskImage == [readable : BOOLEAN, sessions : Entries]

Request ==
    [op : {"upsert"}, id : Session, status : {"recorded", "failed"}]
    \union [op : {"set_status"}, id : Session,
            status : {"transcribing", "failed"}]
    \union [op : {"set_transcript"}, id : Session]
    \union [op : {"forget"}, id : Session, delete_files : BOOLEAN]

HistTypeOK ==
    /\ chan \in Seq(Request)
    /\ Len(chan) <= ChannelDepth
    /\ mem \in Entries
    /\ disk \in DiskImage
    /\ audio \subseteq Session
    /\ writer \in {"loading", "serving", "down"}

HistInit ==
    /\ chan = << >>
    /\ mem = NoEntries
    /\ disk \in {[readable |-> r, sessions |-> NoEntries] : r \in BOOLEAN}
    /\ audio = {}
    /\ writer = "loading"

-----------------------------------------------------------------------------
(* HistoryHandle *)

(* mpsc send: waits while the channel is full.                             *)
Send(req) ==
    /\ Len(chan) < ChannelDepth
    /\ chan' = Append(chan, req)

Upsert(s, status) == [op |-> "upsert", id |-> s, status |-> status]
SetStatus(s, status) == [op |-> "set_status", id |-> s, status |-> status]
SetTranscript(s) == [op |-> "set_transcript", id |-> s]
Forget(s, del) == [op |-> "forget", id |-> s, delete_files |-> del]

-----------------------------------------------------------------------------
(* writer_loop *)

Present(es, s) == es[s] # NoEntry

(* new_entry, with the error text set on the failure path of lifecycle.rs. *)
upsert(es, r) ==
    [es EXCEPT ![r.id] = [status |-> r.status, transcript |-> FALSE,
                          error |-> r.status = "failed"]]

(* Mutant: the entry is rebuilt, so its transcript paths are lost.         *)
set_statusRebuilds(es, r) ==
    IF Present(es, r.id)
    THEN [es EXCEPT ![r.id] = [status |-> r.status, transcript |-> FALSE,
                               error |-> r.status = "failed"]]
    ELSE es

(* set_status keeps an earlier error text when it is given none.           *)
set_status(es, r) ==
    IF Present(es, r.id)
    THEN [es EXCEPT ![r.id].status = r.status,
                    ![r.id].error = @ \/ r.status = "failed"]
    ELSE es

set_transcript(es, r) ==
    IF Present(es, r.id)
    THEN [es EXCEPT ![r.id] = [status |-> "done", transcript |-> TRUE,
                               error |-> FALSE]]
    ELSE es

Apply(es, r) ==
    CASE r.op = "upsert" -> upsert(es, r)
      [] r.op = "set_status" -> set_status(es, r)
      [] r.op = "set_transcript" -> set_transcript(es, r)
      [] r.op = "forget" -> [es EXCEPT ![r.id] = NoEntry]

(* Mutant: a forget never marks the index dirty.                           *)
DirtyUnlessForget(es, r) == r.op # "forget"

(* Every mutation is dirty except a forget that found no entry.            *)
Dirty(es, r) == r.op = "forget" => Present(es, r.id)

(* persist: temp file, fsync, rename; a failure is only logged.            *)
persist(es) ==
    disk' \in {[readable |-> TRUE, sessions |-> es]}
              \union IF PersistMayFail THEN {disk} ELSE {}

(* Mutant: entries that carry an earlier error are skipped.                *)
recoverUnlessError(es) ==
    [s \in Session |->
        IF es[s].status = "transcribing" /\ ~es[s].error
        THEN [es[s] EXCEPT !.status = "interrupted", !.error = TRUE]
        ELSE es[s]]

(* recover: what the previous process left transcribing is interrupted.    *)
recover(es) ==
    [s \in Session |->
        IF es[s].status = "transcribing"
        THEN [es[s] EXCEPT !.status = "interrupted", !.error = TRUE]
        ELSE es[s]]

(* The start of writer_loop: an unreadable file counts as empty and is     *)
(* left alone; the recovered entries are persisted if any changed.         *)
LoadHistory ==
    /\ writer = "loading"
    /\ LET found == IF disk.readable THEN disk.sessions ELSE NoEntries
           es == recover(found)
       IN  /\ mem' = es
           /\ IF es # found THEN persist(es) ELSE UNCHANGED disk
    /\ writer' = "serving"
    /\ UNCHANGED <<chan, audio>>

(* One iteration of the loop.  Forget with delete_files also unlinks the   *)
(* recording of a present entry, unless the unlink fails (only logged).    *)
(* List and Get are served without effect.                                 *)
ServeRequest ==
    /\ writer = "serving"
    /\ chan # << >>
    /\ LET r == Head(chan)
           es == Apply(mem, r)
       IN  /\ mem' = es
           /\ IF Dirty(mem, r) THEN persist(es) ELSE UNCHANGED disk
           /\ audio' \in IF r.op = "forget" /\ Present(mem, r.id)
                             /\ r.delete_files
                          THEN {audio \ {r.id}, audio} ELSE {audio}
    /\ chan' = Tail(chan)
    /\ UNCHANGED writer

(* The process dies: the channel and the entries in memory are gone.       *)
CrashHistory ==
    /\ writer # "down"
    /\ writer' = "down"
    /\ chan' = << >>
    /\ mem' = NoEntries
    /\ UNCHANGED <<disk, audio>>

RestartHistory ==
    /\ writer = "down"
    /\ writer' = "loading"
    /\ UNCHANGED <<chan, mem, disk, audio>>

-----------------------------------------------------------------------------
(* The history on its own: any producer may send any request.              *)

RecordAudio(s) ==
    /\ s \notin audio
    /\ audio' = audio \union {s}
    /\ UNCHANGED <<chan, mem, disk, writer>>

Produce(req) ==
    /\ writer # "down"
    /\ Send(req)
    /\ UNCHANGED <<mem, disk, audio, writer>>

HistNext ==
    \/ \E req \in Request : Produce(req)
    \/ \E s \in Session : RecordAudio(s)
    \/ LoadHistory
    \/ ServeRequest
    \/ CrashHistory
    \/ RestartHistory

HistSpec == HistInit /\ [][HistNext]_histVars

-----------------------------------------------------------------------------
(* Properties *)

(* The file and the entries in memory agree whenever the writer serves and *)
(* the file is readable: every change, the recovery's included, is on disk *)
(* before the next request is taken (while writes succeed).                *)
DiskMatchesMemory ==
    (writer = "serving" /\ disk.readable /\ ~PersistMayFail)
        => disk.sessions = mem

(* Nothing claims to be transcribing in a freshly started daemon.          *)
NoStaleTranscribing ==
    [][(writer = "loading" /\ writer' = "serving")
          => \A s \in Session : mem'[s].status # "transcribing"]_histVars

(* The transcript of a session is not lost from the index file by a later  *)
(* status change, by the recovery of a restart or by another session's     *)
(* request: only a new upsert or a forget of that session removes it       *)
(* (while writes succeed).                                                 *)
TranscriptKept ==
    [][\A s \in Session :
          (~PersistMayFail /\ disk.sessions[s].transcript
              /\ ~disk'.sessions[s].transcript)
          => /\ writer = "serving" /\ chan # << >>
             /\ Head(chan).op \in {"upsert", "forget"}
             /\ Head(chan).id = s]_histVars
=============================================================================
