---------------------------- MODULE RecordCommand ----------------------------
(***************************************************************************)
(* `zwhisper record` (zwhisper-cli/commands/record.rs): subscribes to the  *)
(* three signals, starts a recording and follows its own session until the *)
(* terminal StateChanged; Ctrl+C asks the daemon to stop.                  *)
(***************************************************************************)
EXTENDS BusSignals

VARIABLES
    pc,         \* "start", "starting", "loop", "exited"
    mine,       \* the session that StartRecording returned
    sent_stop,
    audio_path, transcript,     \* what arrived for the artifacts
    code        \* exit code

clientVars == <<pc, mine, sent_stop, audio_path, transcript, code>>
vars == <<daemonVars, clientVars>>

Streams == {"state", "recorded", "transcribed"}

Init ==
    /\ DaemonInit
    /\ pc = "start" /\ mine = None
    /\ sent_stop = FALSE /\ audio_path = FALSE /\ transcript = FALSE
    /\ code = ""

Exit(c) == pc' = "exited" /\ code' = c

(* verify_protocol, then the subscriptions.                                *)
Subscribe ==
    /\ pc = "start" /\ listening = {}
    /\ listening' = Streams
    /\ UNCHANGED <<up, phase, slot, queue, crashes, clientVars>>

(* StartRecording: admitted, or refused while another session records.     *)
Call ==
    /\ pc = "start" /\ listening # {} /\ up
    /\ \/ \E s \in Session : Admit(s) /\ mine' = s /\ pc' = "starting" /\ UNCHANGED code
       \/ slot # None /\ Exit("EXIT_PROTOCOL_ERROR") /\ UNCHANGED <<mine, daemonVars>>
    /\ UNCHANGED <<sent_stop, audio_path, transcript>>

DaemonDown ==
    /\ pc = "start" /\ ~up
    /\ Exit("EXIT_PROTOCOL_ERROR")
    /\ UNCHANGED <<daemonVars, mine, sent_stop, audio_path, transcript>>

(* What the daemon answered: a session that records may have come further  *)
(* by the time that the reply is read.                                     *)
NeverRecorded == phase[mine] = "refused"
HasRecorded == phase[mine] \notin {"starting", "refused", "cut"}

(* Mutant: the subscriptions are made once the session is known.           *)
ReplySubscribes ==
    /\ pc = "starting" /\ HasRecorded
    /\ pc' = "loop" /\ queue' = [k \in Kind |-> <<>>] /\ UNCHANGED code
    /\ UNCHANGED <<up, phase, slot, listening, crashes, mine, sent_stop, audio_path, transcript>>

(* The reply of StartRecording, or the daemon died under the call.         *)
Reply ==
    /\ pc = "starting"
    /\ \/ phase[mine] \in {"cut", "lost"} /\ Exit("EXIT_IPC_FAILURE")
       \/ NeverRecorded /\ Exit("EXIT_RECORDING_FAILED")
       \/ HasRecorded /\ pc' = "loop" /\ UNCHANGED code
    /\ UNCHANGED <<daemonVars, mine, sent_stop, audio_path, transcript>>

(* Mutant: signals are not compared with the session.                      *)
OwnAny(e) == TRUE
Own(e) == e.session = mine

(* One arm of the select: the head of any stream.  Signals of other        *)
(* sessions are dropped; "idle" and "failed" end the command.              *)
Take(k) ==
    /\ pc = "loop" /\ queue[k] # <<>>
    /\ LET e == Head(queue[k]) IN
         /\ queue' = [queue EXCEPT ![k] = Tail(@)]
         /\ audio_path' = (audio_path \/ (Own(e) /\ k = "recorded"))
         /\ transcript' = (transcript \/ (Own(e) /\ k = "transcribed"))
         /\ IF Own(e) /\ e.value = "idle" THEN Exit("EXIT_OK")
            ELSE IF Own(e) /\ e.value = "failed" THEN Exit("EXIT_RECORDING_FAILED")
            ELSE UNCHANGED <<pc, code>>
    /\ UNCHANGED <<up, phase, slot, listening, crashes, mine, sent_stop>>

(* Mutant: Ctrl+C is noted and the daemon is not called.                   *)
CtrlCQuiet ==
    /\ pc = "loop" /\ ~sent_stop
    /\ sent_stop' = TRUE
    /\ UNCHANGED <<daemonVars, pc, mine, audio_path, transcript, code>>

(* Only once; whatever StopRecording answers, the loop goes on.            *)
CtrlC ==
    /\ pc = "loop" /\ ~sent_stop
    /\ sent_stop' = TRUE
    /\ IF phase[mine] = "recording" THEN Advance(mine) ELSE UNCHANGED daemonVars
    /\ UNCHANGED <<pc, mine, audio_path, transcript, code>>

Environment == Daemon /\ UNCHANGED clientVars

Next ==
    \/ Subscribe \/ Call \/ DaemonDown \/ Reply
    \/ \E k \in Streams : Take(k)
    \/ CtrlC
    \/ Environment

Spec ==
    /\ Init /\ [][Next]_vars
    /\ DaemonFairness /\ WF_vars(Reply) /\ \A k \in Streams : WF_vars(Take(k))

-----------------------------------------------------------------------------
(* Properties *)

(* Every variable stays in its type.                                      *)
TypeOK ==
    /\ pc \in {"start", "starting", "loop", "exited"}
    /\ mine \in 0 .. Sessions
    /\ \A k \in Kind : \A i \in DOMAIN queue[k] : queue[k][i].session \in Session
    /\ (pc = "exited") <=> (code # "")
    /\ pc = "loop" => mine # None

(* The exit code is the outcome of the session that this command started,  *)
(* not of one that ended, or was admitted, at the same time.               *)
ExitTellsOutcome ==
    /\ code = "EXIT_OK" => phase[mine] = "done"
    /\ code = "EXIT_RECORDING_FAILED" => phase[mine] \in {"refused", "failed"}

(* When the session ends, the command does too: no order in which the      *)
(* streams are polled and no early signal loses the terminal one.          *)
ReturnsWithSession == []<>~(pc = "loop" /\ phase[mine] \in {"done", "failed"})

(* Ctrl+C ends the recording and with it the command, unless the daemon    *)
(* dies on the way.                                                        *)
CtrlCEnds == []<>~(pc = "loop" /\ sent_stop /\ phase[mine] # "lost")
=============================================================================
