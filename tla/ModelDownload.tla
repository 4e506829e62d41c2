---------------------------- MODULE ModelDownload ----------------------------
(***************************************************************************)
(* Downloading one single-file model: the downloader of zwhisper-core      *)
(* (transcribe/model_management.rs) that `zwhisper model install` runs and *)
(* its twin in zwhisper-settings (download.rs), behind a row of the Models *)
(* tab.  A download appends to <model>.bin.part, resumes from it, verifies *)
(* the hash of the bytes it saw, and renames the file into place.          *)
(*                                                                         *)
(* A file is a sequence of blocks; the model is 1, 2, .., Size and a block *)
(* damaged on the way is 0.  Files are named by the task that created      *)
(* them, so that a handle outlives a rename or an unlink.                  *)
(***************************************************************************)
EXTENDS Integers, Sequences, FiniteSets

CONSTANTS
    Size,       \* blocks of the model
    Tasks,      \* downloads that may be started (bound)
    MaxFaults,  \* faults of network and user, crashes, overlapping starts
                \* (bound)
    MaxShared   \* downloads that run beside another one (bound)

Task == 1 .. Tasks
NoFile == 0
Model == [i \in 1 .. Size |-> i]

VARIABLES
    part,       \* file that the name .part stands for
    final,      \* file that the name of the model stands for
    data,       \* contents of the file each task created
    started,    \* downloads started so far
    owner,      \* who started each: the settings row or the CLI
    pc,         \* where each download awaits
    handle,     \* file it appends to
    hashed,     \* the bytes its hasher saw
    next,       \* next block of the body that the server sends it
    cancelled,  \* its token is cancelled
    label,      \* label of the row's button
    msgs,       \* messages to the UI thread that it has not applied
    token,      \* task whose token the row holds
    drains,     \* wakes of the UI thread run the dispatcher
    shared,     \* downloads that ran beside another one (history)
    by,         \* download that put the model in place (history)
    faults      \* faults so far

disk == <<part, final, data>>
tasks == <<started, owner, pc, handle, hashed, next, cancelled>>
row == <<label, msgs, token, drains>>
vars == <<disk, tasks, row, shared, by, faults>>

Active(t) == pc[t] \notin {"none", "ended"}
Idle == \A t \in Task : ~Active(t)
Installed == final # NoFile

InitialLabel == IF Installed THEN "Installed" ELSE "Download"

Init ==
    /\ part = NoFile /\ final = NoFile /\ data = [t \in Task |-> <<>>]
    /\ started = 0 /\ owner = [t \in Task |-> "cli"]
    /\ pc = [t \in Task |-> "none"]
    /\ handle = [t \in Task |-> NoFile]
    /\ hashed = [t \in Task |-> <<>>] /\ next = [t \in Task |-> 1]
    /\ cancelled = [t \in Task |-> FALSE]
    /\ label = InitialLabel /\ msgs = <<>> /\ token = 0
    /\ drains \in BOOLEAN
    /\ shared = {} /\ by = 0 /\ faults = 0

Fault == faults < MaxFaults /\ faults' = faults + 1

(* Hand-over at the end of a task: the row is told, the CLI prints.        *)
Finish(t, how) ==
    /\ pc' = [pc EXCEPT ![t] = "ended"]
    /\ msgs' = IF owner[t] = "row" THEN Append(msgs, how) ELSE msgs

Proceed(t, to) == pc' = [pc EXCEPT ![t] = to] /\ UNCHANGED msgs

-----------------------------------------------------------------------------
(* Starting a download *)

(* run() returns at once when the model is there. Nothing keeps a second   *)
(* process, or a second click, from a download that runs.                  *)
Start(t, who) ==
    /\ started < Tasks /\ t = started + 1
    /\ \/ Idle /\ UNCHANGED <<shared, faults>>
       \/ /\ ~Idle /\ Fault /\ Cardinality(shared) < MaxShared
          /\ shared' = shared \union {t} \union {u \in Task : Active(u)}
    /\ started' = t
    /\ owner' = [owner EXCEPT ![t] = who]
    /\ pc' = [pc EXCEPT ![t] = IF Installed THEN "ended" ELSE "head"]

CliInstalls ==
    /\ \E t \in Task : Start(t, "cli")
    /\ UNCHANGED <<disk, handle, hashed, next, cancelled, row, by>>

(* The callback of the button reads its label, which only apply_msg        *)
(* changes: until then a second click starts a second download.            *)
ClickDownload ==
    /\ label \in {"Download", "Retry", "Resume"}
    /\ \E t \in Task :
          /\ Start(t, "row")
          /\ token' = t
          /\ msgs' = IF Installed THEN msgs \o <<"Started", "Installed">>
                     ELSE Append(msgs, "Started")
    /\ UNCHANGED <<disk, handle, hashed, next, cancelled, label, drains, by>>

ClickCancel ==
    /\ label = "Cancel" /\ token # 0 /\ Fault
    /\ cancelled' = [cancelled EXCEPT ![token] = TRUE]
    /\ UNCHANGED <<disk, started, owner, pc, handle, hashed, next, row, shared, by>>

(* Mutant: a failure leaves the button as it is.                           *)
LabelForStuck ==
    [Started |-> "Cancel", Installed |-> "Installed",
     Cancelled |-> "Resume", Failed |-> "Cancel"]
LabelFor ==
    [Started |-> "Cancel", Installed |-> "Installed",
     Cancelled |-> "Resume", Failed |-> "Retry"]

(* The dispatcher is handed to FLTK once, as a wake-up handler, which FLTK *)
(* drops after one call (Fl_lock.cxx); app.rs takes it to run at each wake.*)
apply_msg ==
    /\ drains /\ msgs # <<>>
    /\ label' = LabelFor[Head(msgs)]
    /\ msgs' = Tail(msgs)
    /\ UNCHANGED <<disk, tasks, token, drains, shared, by, faults>>

-----------------------------------------------------------------------------
(* A download *)

head_validate(t) ==
    /\ pc[t] = "head"
    /\ \/ /\ ~cancelled[t]
          /\ Proceed(t, "resume") /\ UNCHANGED faults
       \/ /\ cancelled[t]
          /\ Finish(t, "Cancelled") /\ UNCHANGED faults
       \/ Fault /\ Finish(t, "Failed")
    /\ UNCHANGED <<disk, started, owner, handle, hashed, next, cancelled, label, token, drains, shared, by>>

Contents(f) == IF f = NoFile THEN <<>> ELSE data[f]

(* The whole .part is hashed again from its first byte.                    *)
prepare_resume(t) ==
    /\ pc[t] = "resume"
    /\ hashed' = [hashed EXCEPT ![t] = Contents(part)]
    /\ Proceed(t, "get")
    /\ UNCHANGED <<disk, started, owner, handle, next, cancelled, label, token, drains, shared, by, faults>>

(* GET with a Range from what is there; the file is opened for append, or  *)
(* created.  A server may ignore the range and send everything.            *)
Get(t) ==
    /\ pc[t] = "get"
    /\ \/ /\ Len(hashed[t]) >= Size
          /\ Proceed(t, "verify")
          /\ UNCHANGED <<part, handle, next, faults>>
       \/ /\ Len(hashed[t]) < Size
          /\ \/ next' = [next EXCEPT ![t] = Len(hashed[t]) + 1] /\ UNCHANGED faults
             \/ Len(hashed[t]) > 0 /\ Fault /\ next' = [next EXCEPT ![t] = 1]
          /\ part' = IF part = NoFile THEN t ELSE part
          /\ handle' = [handle EXCEPT ![t] = part']
          /\ Proceed(t, "stream")
       \/ /\ Len(hashed[t]) < Size
          /\ Fault /\ Finish(t, "Failed")
          /\ UNCHANGED <<part, handle, next>>
    /\ UNCHANGED <<final, data, started, owner, hashed, cancelled, label, token, drains, shared, by>>

(* One chunk: appended to the file, and hashed.                            *)
Chunk(t) ==
    /\ pc[t] = "stream" /\ ~cancelled[t] /\ next[t] <= Size
    /\ \E b \in {next[t], 0} :
          /\ IF b = 0 THEN Fault ELSE UNCHANGED faults
          /\ data' = [data EXCEPT ![handle[t]] = Append(@, b)]
          /\ hashed' = [hashed EXCEPT ![t] = Append(@, b)]
    /\ next' = [next EXCEPT ![t] = @ + 1]
    /\ UNCHANGED <<part, final, started, owner, pc, handle, cancelled, row, shared, by>>

(* The body ends, early or not; or the connection breaks or stalls; or the *)
(* download is cancelled between two chunks.                               *)
StreamEnds(t) ==
    /\ pc[t] = "stream"
    /\ \/ /\ ~cancelled[t] /\ Proceed(t, "verify")
          /\ IF next[t] > Size THEN UNCHANGED faults ELSE Fault
       \/ ~cancelled[t] /\ Fault /\ Finish(t, "Failed")
       \/ cancelled[t] /\ Finish(t, "Cancelled") /\ UNCHANGED faults
    /\ UNCHANGED <<disk, started, owner, handle, hashed, next, cancelled, label, token, drains, shared, by>>

(* Mutants: a wrong hash leaves the .part for the next attempt; only the   *)
(* length is compared.                                                     *)
VerifyKeeps(t) ==
    /\ pc[t] = "verify"
    /\ IF hashed[t] = Model THEN Proceed(t, "rename") ELSE Finish(t, "Failed")
    /\ UNCHANGED <<disk, started, owner, handle, hashed, next, cancelled, label, token, drains, shared, by, faults>>
VerifyLength(t) ==
    /\ pc[t] = "verify"
    /\ IF Len(hashed[t]) = Size
       THEN Proceed(t, "rename") /\ UNCHANGED part
       ELSE Finish(t, "Failed") /\ part' = NoFile
    /\ UNCHANGED <<final, data, started, owner, handle, hashed, next, cancelled, label, token, drains, shared, by, faults>>

(* A wrong hash removes the .part, whoever's it is by now.                 *)
Verify(t) ==
    /\ pc[t] = "verify"
    /\ IF hashed[t] = Model
       THEN Proceed(t, "rename") /\ UNCHANGED part
       ELSE Finish(t, "Failed") /\ part' = NoFile
    /\ UNCHANGED <<final, data, started, owner, handle, hashed, next, cancelled, label, token, drains, shared, by, faults>>

finalise_rename(t) ==
    /\ pc[t] = "rename"
    /\ IF part = NoFile
       THEN Finish(t, "Failed") /\ UNCHANGED <<part, final, by>>
       ELSE /\ final' = part /\ part' = NoFile /\ by' = t
            /\ Finish(t, "Installed")
    /\ UNCHANGED <<data, started, owner, handle, hashed, next, cancelled, label, token, drains, shared, faults>>

(* Mutant: the stream does not look at the token.                          *)
StepDeaf(t) ==
    \/ head_validate(t) \/ prepare_resume(t) \/ Get(t) \/ Chunk(t)
    \/ StreamEnds(t) /\ ~cancelled[t]
    \/ Verify(t) \/ finalise_rename(t)
Step(t) ==
    \/ head_validate(t) \/ prepare_resume(t) \/ Get(t) \/ Chunk(t)
    \/ StreamEnds(t) \/ Verify(t) \/ finalise_rename(t)

(* The request is sent and unanswered: this await has no time limit and    *)
(* does not look at the token (that of the HEAD has one, the stream both). *)
Waiting(t) == pc[t] = "get" /\ Len(hashed[t]) < Size
Proceeds(t) == Step(t) /\ ~Waiting(t)

(* The settings window is killed, or closed, and opened again.             *)
WindowRestarts ==
    /\ Fault
    /\ pc' = [t \in Task |-> IF owner[t] = "row" /\ Active(t) THEN "ended" ELSE pc[t]]
    /\ label' = InitialLabel /\ msgs' = <<>> /\ token' = 0
    /\ UNCHANGED <<disk, started, owner, handle, hashed, next, cancelled, drains, shared, by>>

(* The CLI is interrupted.                                                 *)
CliKilled(t) ==
    /\ owner[t] = "cli" /\ Active(t) /\ Fault
    /\ pc' = [pc EXCEPT ![t] = "ended"]
    /\ UNCHANGED <<disk, started, owner, handle, hashed, next, cancelled, row, shared, by>>

Next ==
    \/ CliInstalls \/ ClickDownload \/ ClickCancel \/ apply_msg
    \/ \E t \in Task : Step(t) \/ CliKilled(t)
    \/ WindowRestarts

(* The runtime polls the downloads, but nothing makes a server answer a    *)
(* GET; a dispatcher that runs drains its channel; the user tries again.   *)
Fairness ==
    /\ \A t \in Task : WF_vars(Proceeds(t))
    /\ WF_vars(apply_msg) /\ WF_vars(ClickDownload)

Spec == Init /\ [][Next]_vars /\ Fairness

-----------------------------------------------------------------------------
(* Properties *)

(* Every variable stays in its type.                                      *)
TypeOK ==
    /\ {part, final, token} \union {handle[t] : t \in Task} \subseteq 0 .. Tasks
    /\ \A t \in Task : data[t] \in Seq(0 .. Size) /\ hashed[t] \in Seq(0 .. Size)
    /\ \A t \in Task : pc[t] \in
          {"none", "head", "resume", "get", "stream", "verify", "rename", "ended"}
    /\ label \in {"Download", "Cancel", "Retry", "Resume", "Installed"}
    /\ drains \in BOOLEAN /\ faults \in 0 .. MaxFaults
    /\ shared \subseteq Task /\ by \in 0 .. Tasks

(* The file under the model's final name is the model (model_management.rs,*)
(* "SHA-256 verification before an atomic rename to the final path"),      *)
(* whatever the network did and wherever earlier downloads stopped, also   *)
(* overlapping ones: only a download that itself ran beside another one,   *)
(* on the same .part, can put something else there.                        *)
InstalledIsVerified == Installed => data[final] = Model \/ by \in shared

(* When nothing runs and the window has caught up, its button tells        *)
(* whether the model is there, and is not stuck on Cancel, unless a click  *)
(* overtook an earlier one's download.                                     *)
RowTellsTruth ==
    Idle /\ msgs = <<>> /\ shared = {} /\ (\A t \in Task : owner[t] = "cli" => pc[t] = "none")
        => /\ label = "Installed" <=> Installed
           /\ label # "Cancel"

(* A cancelled download ends, wherever it awaits, or its GET is never      *)
(* answered.                                                               *)
CancelIsHeard ==
    \A t \in Task : []<>~(cancelled[t] /\ Active(t) /\ ~Waiting(t))

(* When the server answers and the network is well again, trying again     *)
(* installs the model: a poisoned .part costs one attempt and not all.     *)
Converges == []<>(\A t \in Task : ~Waiting(t)) => <>[]Installed
=============================================================================
