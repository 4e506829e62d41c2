------------------------------ MODULE MCClients ------------------------------
(***************************************************************************)
(* Model-checking instance of the command line: RecordCommand (`zwhisper   *)
(* record`), StatusWatch (`zwhisper status --watch`) and Delivery          *)
(* (`zwhisper deliver` and the commands that wait for a job). One part runs*)
(* in a behaviour. Every invariant includes the type invariants of the     *)
(* parts it speaks of.                                                     *)
(***************************************************************************)
EXTENDS Integers, Sequences

CONSTANTS
    Sessions, Crashes,          \* of RecordCommand and StatusWatch (bounds)
    Faults, LateAttach,         \* of StatusWatch
    Kinds, Jobs, Consumers,     \* of Delivery; Consumers counts them
    TYPE_MAX_BYTES, CLIPBOARD_MAX_BYTES, MaxFaults

VARIABLE part   \* the part of the system that runs

VARIABLES up, phase, slot, queue, listening, crashes, pc, mine, sent_stop,
          audio_path, transcript, code
R == INSTANCE RecordCommand
rvars == <<up, phase, slot, queue, listening, crashes, pc, mine, sent_stop,
           audio_path, transcript, code>>

VARIABLES w_up, w_phase, w_slot, w_queue, w_listening, w_crashes, w_pc,
          recorder_state, current_session, stale, last_line, failures, due,
          faults, blind
W == INSTANCE StatusWatch
     WITH up <- w_up, phase <- w_phase, slot <- w_slot, queue <- w_queue,
          listening <- w_listening, crashes <- w_crashes, pc <- w_pc
wvars == <<w_up, w_phase, w_slot, w_queue, w_listening, w_crashes, w_pc,
           recorder_state, current_session, stale, last_line, failures, due,
           faults, blind>>

VARIABLES kind, job, waiter, inbox, wtype, owner, d_pc, d_queue, work, typed,
          injected, told, unheard, handled, d_faults
D == INSTANCE Delivery
     WITH Consumers <- 1 .. Consumers, pc <- d_pc, queue <- d_queue,
          faults <- d_faults
dvars == <<kind, job, waiter, inbox, wtype, owner, d_pc, d_queue, work, typed,
           injected, told, unheard, handled, d_faults>>

(* The bounds are numbers; a job has a mode, a size and the outputs of its *)
(* profile in their order, which are the four kinds of OutputDest.         *)
Output == {"file", "notification", "clipboard", "type_at_cursor"}
ASSUME ClientAssumption ==
    /\ {Sessions, Crashes, Faults, Jobs, Consumers, MaxFaults} \subseteq Nat
    /\ {TYPE_MAX_BYTES, CLIPBOARD_MAX_BYTES} \subseteq Nat
    /\ LateAttach \in BOOLEAN
    /\ Kinds \subseteq [mode : {"foreground", "detached", "auto"}, bytes : Nat,
                        outputs : Seq(Output)]

(* A transcript of size 1 fits both sinks, one of size 3 none.             *)
Kind(m, b, o) == [mode |-> m, bytes |-> b, outputs |-> o]
MCKinds ==
    { Kind("foreground", 1, <<"clipboard">>),
      Kind("foreground", 1, <<"type_at_cursor">>),
      Kind("foreground", 3, <<"notification", "clipboard", "type_at_cursor">>),
      Kind("auto", 1, <<"file", "clipboard", "type_at_cursor">>) }

(* One part runs; the others keep one of their initial states.             *)
Init ==
    /\ part \in {"record", "watch", "deliver"}
    /\ R!Init /\ (part # "record" => up)
    /\ W!Init /\ (part # "watch" => w_up)
    /\ D!Init /\ (part # "deliver" => wtype /\ kind = [j \in D!Job |-> Kind("foreground", 1, <<"clipboard">>)])

Next ==
    \/ /\ part = "record" /\ R!Next
       /\ UNCHANGED <<part, wvars, dvars>>
    \/ /\ part = "watch" /\ W!Next
       /\ UNCHANGED <<part, rvars, dvars>>
    \/ /\ part = "deliver" /\ D!Next
       /\ UNCHANGED <<part, rvars, wvars>>

vars == <<part, rvars, wvars, dvars>>

(* The select of record takes every stream in turn, the select of the watch *)
(* every source; a waiting command and a consumer are polled.              *)
Stream == <<"state", "recorded", "transcribed">>
Turns == 0 .. IF Jobs + Consumers > 4 THEN Jobs + Consumers - 1 ELSE 3
Fair(i) ==
    \/ /\ part = "record"
       /\ \/ i = 0 /\ R!Reply
          \/ i \in 1 .. 3 /\ R!Take(Stream[i])
       /\ UNCHANGED <<part, wvars, dvars>>
    \/ /\ part = "watch"
       /\ \/ i = 0 /\ W!Snapshot
          \/ i = 1 /\ W!StateSignal
          \/ i = 2 /\ W!OwnerSignal
          \/ i = 3 /\ W!Tick
       /\ UNCHANGED <<part, rvars, dvars>>
    \/ /\ part = "deliver"
       /\ \/ i + 1 \in D!Job /\ (D!WaitTakes(i + 1) \/ D!WaitEnds(i + 1))
          \/ i + 1 - Jobs \in 1 .. Consumers /\ D!Consumer(i + 1 - Jobs)
       /\ UNCHANGED <<part, rvars, wvars>>

(* The daemon ends what it has begun, but a recording goes on.             *)
daemon == R!daemonVars
Ends(s) == part = "record" /\ phase[s] # "recording" /\ R!Advance(s)

Spec ==
    /\ Init /\ [][Next]_vars
    /\ \A i \in Turns : WF_vars(Fair(i))
    /\ \A s \in R!Session : WF_daemon(Ends(s))

-----------------------------------------------------------------------------
(* The exit code of record is the outcome of its own session, a watch that *)
(* has caught up shows whether a recording runs, and every failure gets a  *)
(* line (record.rs, status.rs).                                            *)
ClientsTell ==
    /\ part = "record" =>
          /\ R!TypeOK
          /\ R!ExitTellsOutcome
    /\ part = "watch" =>
          /\ W!TypeOK
          /\ W!CaughtUpShowsRecorder
          /\ W!EveryFailureHasLine

(* Only a foreground job of fitting size is typed or copied for its own    *)
(* entry, no output is typed twice, a handled job was typed, copied or     *)
(* spoken of unless that notification failed, and a waiting command reports*)
(* its own job (deliver/mod.rs, sink.rs, transcribe.rs).                   *)
DeliveryGuarded ==
    /\ part = "deliver" =>
          /\ D!TypeOK
          /\ D!IntentGuarded
          /\ D!TypedOnce
          /\ D!NothingSwallowed
          /\ D!WaiterTellsOutcome

(* record returns with its session and after Ctrl+C unless the daemon dies,*)
(* a stale watch heals, typing never wedges the consumer, and a waiting    *)
(* command returns (record.rs, status.rs, wtype in sink.rs, transcribe.rs).*)
ClientsReturn ==
    /\ R!ReturnsWithSession
    /\ R!CtrlCEnds
    /\ W!StaleHeals
    /\ D!ConsumerNeverWedges
    /\ D!WaiterReturns
=============================================================================
