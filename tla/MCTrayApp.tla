------------------------------ MODULE MCTrayApp ------------------------------
(***************************************************************************)
(* Model-checking instance of the tray: Tray (what it shows and calls while*)
(* daemons come and go) and TrayMain (its processes, their start and their *)
(* end). The two share only the shutdown channel, so each runs by itself.  *)
(* One part runs in a behaviour. Every invariant includes the type         *)
(* invariants of the parts it speaks of.                                   *)
(***************************************************************************)
EXTENDS Naturals

CONSTANTS
    None, CmdCapacity, SinkCapacity, Bounds,   \* of Tray
    Procs, Followed, Nobody, HostMoves         \* of TrayMain

VARIABLE part   \* the part of the system that runs

VARIABLES bound, up, compat, phase, slot, activeFile, lastFile, signalled,
          pump, queues, status, tray, cmdQueue, dispatcher, daemonReady,
          sinkQueue, sunk, shutdown, seen
T == INSTANCE Tray
tvars == <<bound, up, compat, phase, slot, activeFile, lastFile, signalled,
           pump, queues, status, tray, cmdQueue, dispatcher, daemonReady,
           sinkQueue, sunk, shutdown, seen>>

VARIABLES m_phase, m_up, online, sole, owner, m_signalled, icon, fresh, host,
          moves
M == INSTANCE TrayMain
     WITH phase <- m_phase, up <- m_up, signalled <- m_signalled
mvars == <<m_phase, m_up, online, sole, owner, m_signalled, icon, fresh, host,
           moves>>

(* Capacities and bounds are numbers; None is neither a session nor a      *)
(* command, and Nobody is no process.                                      *)
ASSUME TrayAssumption ==
    /\ {CmdCapacity, SinkCapacity, HostMoves} \subseteq Nat
    /\ Bounds \subseteq [sessions : Nat, crashes : Nat, clicks : Nat,
                         commands : SUBSET T!Command, late : BOOLEAN]
    /\ \A b \in Bounds : None \notin 1 .. b.sessions
    /\ None \notin T!Command
    /\ Nobody \notin Procs /\ Followed \subseteq Procs

(* Two sessions that may overlap under an undisturbed daemon, one session  *)
(* under a daemon that may start late, crash and come back as another      *)
(* version, with one click on Stop; one session and two clicks.            *)
MCBounds ==
    {[sessions |-> 2, crashes |-> 0, clicks |-> 0,
      commands |-> {}, late |-> FALSE],
     [sessions |-> 1, crashes |-> 1, clicks |-> 1,
      commands |-> {"stop"}, late |-> TRUE],
     [sessions |-> 1, crashes |-> 0, clicks |-> 2,
      commands |-> {"start", "stop", "setActive"}, late |-> FALSE]}

(* One part runs; the others keep one of their initial states.             *)
Init ==
    /\ part \in {"tray", "main"}
    /\ T!Init /\ (part # "tray" => bound.late /\ ~up /\ compat)
    /\ M!Init /\ (part # "main" => host)

Next ==
    \/ /\ part = "tray" /\ T!Next
       /\ UNCHANGED <<part, mvars>>
    \/ /\ part = "main" /\ M!Next
       /\ UNCHANGED <<part, tvars>>

vars == <<part, tvars, mvars>>

(* Each task of the running part is polled, and the daemon takes its steps. *)
Tasks == {"main", "supervisor", "pump", "sinks", "dispatcher", "hotkey"}
Fair(t) ==
    \/ /\ part = "tray"
       /\ \/ t = "main" /\ T!DaemonStep
          \/ t = "pump" /\ T!PumpStep
          \/ t = "dispatcher" /\ T!DispatcherStep
          \/ t = "sinks" /\ T!HandleJob
       /\ UNCHANGED <<part, mvars>>
    \/ /\ part = "main" /\ \E p \in Followed : M!TaskStep(p, t)
       /\ UNCHANGED <<part, tvars>>

Spec ==
    /\ Init /\ [][Next]_vars
    /\ \A t \in Tasks : WF_vars(Fair(t))

-----------------------------------------------------------------------------
(* A tray that has handled what arrived shows the daemon's state and       *)
(* offers no Stop for a session that is over (unless a new daemon came up  *)
(* in the gap of its subscriptions), no entry pairs a session with another *)
(* one's audio, and the menu stays locked only after a failure or a lost   *)
(* signal (pump.rs, state.rs, cmd.rs).                                     *)
ShowsDaemon ==
    /\ part = "tray" =>
          /\ T!TypeOK
          /\ T!CaughtUpShowsDaemon
          /\ T!AudioOfItsSession
          /\ T!LockedOnlyAfterLoss
          /\ T!NoStaleSession

(* A transcript reaches the sinks at most once, and two trays never stand  *)
(* side by side (sink/dispatch.rs, single_instance.rs, main.rs).           *)
ActsOnce ==
    /\ part = "tray" =>
          /\ T!TypeOK
          /\ T!SinksOncePerTranscript
    /\ part = "main" =>
          /\ M!TypeOK
          /\ M!OneIcon

(* Once a daemon of the tray's version stays the tray finds it; once one of*)
(* another version stays nothing calls it, unless it came up in the gap of *)
(* the subscriptions (pump.rs, cmd.rs).                                    *)
FollowsDaemon ==
    /\ T!Reconnects
    /\ T!MismatchStopsCalls

(* Ctrl+C ends a tray whatever its tasks are doing, a change after the     *)
(* icon's death ends it as failed, and however the shutdown began the icon *)
(* goes (main.rs, supervisor.rs).                                          *)
TrayEnds ==
    /\ M!CtrlCExits
    /\ M!DeadIconIsNoticed
    /\ M!ShutdownTakesIcon
=============================================================================
