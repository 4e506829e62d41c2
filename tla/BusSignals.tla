------------------------------ MODULE BusSignals ------------------------------
(***************************************************************************)
(* The daemon as a client on the bus sees it: the signals of Recorder1 in  *)
(* the order of the Sessions module, the slot that GetStatus reports, and  *)
(* NameOwnerChanged when the daemon dies and comes back.  One session may  *)
(* transcribe while the next one records.  RecordCommand and StatusWatch   *)
(* extend this module with one client each.                                *)
(*                                                                         *)
(* Each subscription of the client is a queue of its own, so that a client *)
(* which polls several streams may take their heads in another order than  *)
(* they were sent in.                                                      *)
(***************************************************************************)
EXTENDS Naturals, Sequences

CONSTANTS
    Sessions,   \* sessions of a behaviour (bound)
    Crashes     \* times the daemon dies (bound)

None == 0
Session == 1 .. Sessions
Kind == {"state", "recorded", "transcribed", "owner"}

VARIABLES
    up,      \* the daemon owns its name
    phase,   \* how far it has taken each session
    slot,    \* the active session
    queue,   \* per subscription: what arrived and was not yet taken
    listening,  \* what the client has subscribed to
    crashes  \* times the daemon died

daemonVars == <<up, phase, slot, queue, listening, crashes>>

DaemonInit ==
    /\ up \in BOOLEAN
    /\ phase = [s \in Session |-> "none"]
    /\ slot = None /\ crashes = 0
    /\ queue = [k \in Kind |-> <<>>] /\ listening = {}

Send(k, s, v) ==
    queue' = IF k \in listening
             THEN [queue EXCEPT ![k] = Append(@, [session |-> s, value |-> v, life |-> crashes])]
             ELSE queue

(* The steps of a session and the signal that each sends.  "broken" is a   *)
(* recording that ended in an error: it announces no "stopping".           *)
Moves ==
    { <<"starting", "recording", "state", "recording">>,
      <<"starting", "refused", "state", "failed">>,
      <<"recording", "draining", "none", "">>,
      <<"draining", "stopping", "state", "stopping">>,
      <<"draining", "broken", "none", "">>,
      <<"stopping", "released", "recorded", "audio">>,
      <<"broken", "failing", "recorded", "audio">>,
      <<"released", "finishing", "none", "">>,
      <<"released", "finishing", "transcribed", "text">>,
      <<"released", "failing", "none", "">>,
      <<"finishing", "done", "state", "idle">>,
      <<"failing", "failed", "state", "failed">> }

SlotHeldIn == {"starting", "recording", "draining", "stopping", "broken"}

Admit(s) ==
    /\ up /\ slot = None
    /\ phase[s] = "none" /\ \A t \in 1 .. s - 1 : phase[t] # "none"
    /\ phase' = [phase EXCEPT ![s] = "starting"]
    /\ slot' = s
    /\ Send("state", s, "starting")
    /\ UNCHANGED <<up, listening, crashes>>

Advance(s) ==
    \E m \in Moves :
       /\ phase[s] = m[1]
       /\ phase' = [phase EXCEPT ![s] = m[2]]
       /\ Send(m[3], s, m[4])
       /\ slot' = IF m[1] \in SlotHeldIn /\ m[2] \notin SlotHeldIn THEN None ELSE slot
       /\ UNCHANGED <<up, listening, crashes>>

InFlight(s) == phase[s] \notin {"none", "refused", "done", "failed", "cut", "lost"}

Crash ==
    /\ up /\ crashes < Crashes
    /\ up' = FALSE /\ crashes' = crashes + 1
    /\ phase' = [s \in Session |-> IF phase[s] = "starting" THEN "cut"
                                   ELSE IF InFlight(s) THEN "lost" ELSE phase[s]]
    /\ slot' = None
    /\ Send("owner", None, "gone")
    /\ UNCHANGED listening

Appear ==
    /\ ~up
    /\ up' = TRUE
    /\ Send("owner", None, "here")
    /\ UNCHANGED <<phase, slot, listening, crashes>>

Daemon ==
    \/ \E s \in Session : Admit(s) \/ Advance(s)
    \/ Crash \/ Appear

(* A recording goes on until somebody stops it; everything else that a     *)
(* session has begun is finished.                                          *)
DaemonFairness ==
    \A s \in Session : WF_daemonVars(phase[s] # "recording" /\ Advance(s))

-----------------------------------------------------------------------------

GetStatus == IF slot = None THEN "idle" ELSE "recording"
=============================================================================
