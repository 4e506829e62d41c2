------------------------------ MODULE TrayMain ------------------------------
(***************************************************************************)
(* The life of zwhisper-tray as a process: the single-instance name, the   *)
(* registration of the icon with a host that may come late, the tasks main *)
(* spawns, the supervisor that forwards state to the icon and notices its  *)
(* death, and the ways down: Quit, a protocol mismatch, Ctrl+C and a fatal *)
(* error.  What the tasks do between start and end is Tray and Hotkey.     *)
(***************************************************************************)
EXTENDS Naturals

CONSTANTS
    Procs,      \* the processes the user or systemd starts
    Followed,   \* bound: those whose life after registration is explored
    Nobody,     \* the bus name is free
    HostMoves   \* bound: how often the status-notifier host comes or goes

Tasks == {"pump", "sinks", "dispatcher", "hotkey", "supervisor", "quit"}

VARIABLES
    phase,     \* where main of each process is
    up,        \* the tasks of each process that run
    online,    \* the process reached the session bus
    sole,      \* claim told the process that it is the only one
    owner,     \* the owner of TRAY_BUS_NAME
    signalled, \* the shutdown channel of the process fired
    icon,      \* "none", "shown" or "dead": the ksni service
    fresh,     \* TrayState holds a change the icon has not got yet
    host,      \* a StatusNotifierWatcher with a host is on the bus
    moves      \* host changes so far

vars == <<phase, up, online, sole, owner, signalled, icon, fresh, host, moves>>
tray == <<signalled, icon, fresh>>

Gone == {"ok", "failed", "killed"}
Running(p) == phase[p] \notin Gone \cup {"off"}

-----------------------------------------------------------------------------
Init ==
    /\ phase = [p \in Procs |-> "off"] /\ up = [p \in Procs |-> {}]
    /\ online = [p \in Procs |-> FALSE] /\ sole = [p \in Procs |-> FALSE]
    /\ owner = Nobody
    /\ signalled = [p \in Procs |-> FALSE] /\ icon = [p \in Procs |-> "none"]
    /\ fresh = [p \in Procs |-> FALSE]
    /\ host \in BOOLEAN /\ moves = 0

(* The process ends: its tasks, its icon and its connection go with it.    *)
End(p, how) ==
    /\ phase' = [phase EXCEPT ![p] = how] /\ up' = [up EXCEPT ![p] = {}]
    /\ icon' = [icon EXCEPT ![p] = "none"] /\ fresh' = [fresh EXCEPT ![p] = FALSE]
    /\ online' = [online EXCEPT ![p] = FALSE] /\ sole' = [sole EXCEPT ![p] = FALSE]
    /\ signalled' = [signalled EXCEPT ![p] = FALSE]
    /\ owner' = IF owner = p THEN Nobody ELSE owner

(* Start, with or without a Wayland session; the sink task comes first.    *)
Launch(p) ==
    /\ phase[p] = "off"
    /\ \/ phase' = [phase EXCEPT ![p] = "claim"] /\ up' = [up EXCEPT ![p] = {"sinks"}]
       \/ phase' = [phase EXCEPT ![p] = "failed"] /\ UNCHANGED up
    /\ UNCHANGED <<online, sole, owner, tray, host, moves>>

Spawned == {"sinks", "dispatcher", "hotkey", "pump"}
Registering(p) == /\ phase' = [phase EXCEPT ![p] = "register"]
                  /\ up' = [up EXCEPT ![p] = Spawned]

(* classify: only the primary owner goes on.                               *)
classifyAny(reply)  == TRUE
classify(reply) == reply = "PrimaryOwner"

(* connect_session and single_instance::claim.  Without a bus, and when    *)
(* the claim itself fails, the tray goes on.                               *)
Claim(p) ==
    /\ phase[p] = "claim"
    /\ \/ LET reply == IF owner = Nobody THEN "PrimaryOwner" ELSE "Exists" IN
          IF classify(reply)
             THEN /\ owner' = IF reply = "PrimaryOwner" THEN p ELSE owner
                  /\ sole' = [sole EXCEPT ![p] = TRUE]
                  /\ online' = [online EXCEPT ![p] = TRUE]
                  /\ Registering(p) /\ UNCHANGED tray
             ELSE End(p, "ok")
       \/ /\ online' \in {online, [online EXCEPT ![p] = TRUE]}
          /\ Registering(p) /\ UNCHANGED <<owner, sole, tray>>
    /\ UNCHANGED <<host, moves>>

(* spawn_tray_with_retry, then the supervisor and the quit watcher.  A host *)
(* that is missing is waited for; any other failure ends the process.      *)
Register(p) ==
    /\ phase[p] = "register"
    /\ \/ /\ host
          /\ icon' = [icon EXCEPT ![p] = "shown"] /\ fresh' = [fresh EXCEPT ![p] = TRUE]
          /\ phase' = [phase EXCEPT ![p] = "watch"]
          /\ up' = [up EXCEPT ![p] = @ \cup {"supervisor", "quit"}]
          /\ UNCHANGED <<online, sole, owner, signalled>>
       \/ End(p, "failed")     \* the session bus is gone
    /\ UNCHANGED <<host, moves>>

-----------------------------------------------------------------------------
(* The supervisor.                                                         *)

classify_handle_outcomeContinue(alive) == "Continue"
classify_handle_outcome(alive) == IF alive THEN "Continue" ELSE "ExitOne"

(* The shutdown arm comes first and takes the icon down.                   *)
HandleShutdownForgotten(p) == UNCHANGED icon
HandleShutdown(p) == icon' = [icon EXCEPT ![p] = "none"]

SuperviseShutdown(p) ==
    /\ "supervisor" \in up[p] /\ signalled[p]
    /\ HandleShutdown(p)
    /\ up' = [up EXCEPT ![p] = @ \ {"supervisor"}] /\ fresh' = [fresh EXCEPT ![p] = FALSE]
    /\ UNCHANGED <<phase, online, sole, owner, signalled, host, moves>>

(* A state change is handed to the icon; a dead one ends the process.      *)
SuperviseUpdate(p) ==
    /\ "supervisor" \in up[p] /\ ~signalled[p] /\ fresh[p]
    /\ IF classify_handle_outcome(icon[p] = "shown") = "Continue"
          THEN /\ fresh' = [fresh EXCEPT ![p] = FALSE]
               /\ UNCHANGED <<phase, up, online, sole, owner, signalled, icon>>
          ELSE End(p, "failed")
    /\ UNCHANGED <<host, moves>>

(* The pump, the dispatcher or the hotkey task changes TrayState.          *)
StateChanges(p) ==
    /\ up[p] \cap {"pump", "dispatcher", "hotkey"} # {} /\ online[p]
    /\ "supervisor" \in up[p]
    /\ fresh' = [fresh EXCEPT ![p] = TRUE]
    /\ UNCHANGED <<phase, up, online, sole, owner, signalled, icon, host, moves>>

-----------------------------------------------------------------------------
(* The ways down.                                                          *)

Signal(p) == signalled' = [signalled EXCEPT ![p] = TRUE]

(* The connection, and the bus name with it, lives as long as the tasks    *)
(* that hold a clone of it.                                                *)
Stops(p, t) ==
    /\ up' = [up EXCEPT ![p] = @ \ {t}]
    /\ owner' = IF owner = p /\ up[p] \cap {"dispatcher", "hotkey"} \subseteq {t}
                   THEN Nobody ELSE owner

Quit(p) ==
    /\ icon[p] = "shown" /\ "quit" \in up[p]
    /\ Signal(p) /\ Stops(p, "quit")
    /\ UNCHANGED <<phase, online, sole, icon, fresh, host, moves>>

(* The pump or the dispatcher meets a daemon of another protocol version.  *)
Mismatch(p, t) ==
    /\ t \in up[p] \cap {"pump", "dispatcher"} /\ online[p] /\ ~signalled[p]
    /\ Signal(p) /\ Stops(p, t)
    /\ UNCHANGED <<phase, online, sole, icon, fresh, host, moves>>

(* The tasks leave on the signal; without a bus the two drains do not      *)
(* listen to it and wait for their channels to close.                      *)
Listens(p) == {"pump", "sinks"} \cup IF online[p] THEN {"dispatcher", "hotkey"} ELSE {}

TaskEnds(p, t) ==
    /\ t \in up[p] \cap Listens(p) /\ signalled[p]
    /\ Stops(p, t)
    /\ UNCHANGED <<phase, online, sole, signalled, icon, fresh, host, moves>>

(* A wrong main waits for its tasks before it tells them.                  *)
CtrlCUntold(p) ==
    /\ phase[p] = "watch"
    /\ phase' = [phase EXCEPT ![p] = "supervisor"]
    /\ UNCHANGED <<up, icon, owner, signalled, online, sole, fresh, host, moves>>

(* Before the icon is registered no handler is installed.                  *)
CtrlC(p) ==
    /\ \/ /\ phase[p] = "watch"
          /\ phase' = [phase EXCEPT ![p] = "supervisor"]
          /\ Signal(p) /\ UNCHANGED <<up, online, sole, owner, icon, fresh>>
       \/ phase[p] \in {"claim", "register"} /\ End(p, "killed")
    /\ UNCHANGED <<host, moves>>

(* The joins at the end of main, in order; the drains are aborted.         *)
JoinSupervisor(p) ==
    /\ phase[p] = "supervisor" /\ "supervisor" \notin up[p]
    /\ phase' = [phase EXCEPT ![p] = "pump"]
    /\ UNCHANGED <<up, online, sole, owner, tray, host, moves>>
JoinPump(p) ==
    /\ phase[p] = "pump" /\ "pump" \notin up[p]
    /\ phase' = [phase EXCEPT ![p] = "sinks"]
    /\ up' = [up EXCEPT ![p] = @ \cap {"sinks"}]
    /\ owner' = IF owner = p THEN Nobody ELSE owner
    /\ UNCHANGED <<online, sole, tray, host, moves>>
JoinSinks(p) ==
    /\ phase[p] = "sinks" /\ "sinks" \notin up[p]
    /\ End(p, "ok")
    /\ UNCHANGED <<host, moves>>

-----------------------------------------------------------------------------
(* The desktop.                                                            *)

IconDies(p) ==
    /\ icon[p] = "shown" /\ icon' = [icon EXCEPT ![p] = "dead"]
    /\ UNCHANGED <<phase, up, online, sole, owner, signalled, fresh, host, moves>>
HostMove ==
    /\ moves < HostMoves /\ moves' = moves + 1 /\ host' = ~host
    /\ UNCHANGED <<phase, up, online, sole, owner, tray>>

(* A step of main, of the supervisor or of another task of the process.    *)
TaskStep(p, t) ==
    \/ /\ t = "main"
       /\ Claim(p) \/ Register(p) \/ JoinSupervisor(p) \/ JoinPump(p) \/ JoinSinks(p)
    \/ t = "supervisor" /\ (SuperviseShutdown(p) \/ SuperviseUpdate(p))
    \/ TaskEnds(p, t)
Events(p) == \/ Launch(p)
             \/ /\ p \in Followed
                /\ \/ StateChanges(p) \/ Quit(p) \/ CtrlC(p) \/ IconDies(p)
                   \/ \E t \in Tasks : Mismatch(p, t)
Next ==
    \/ HostMove
    \/ \E p \in Procs : Events(p) \/ \E t \in Tasks \cup {"main"} : TaskStep(p, t)

(* The runtime polls the tasks of a process that is followed.              *)
Fairness == \A p \in Followed, t \in Tasks \cup {"main"} : WF_vars(TaskStep(p, t))

Spec == Init /\ [][Next]_vars /\ Fairness

-----------------------------------------------------------------------------
(* Properties.                                                             *)

(* Every variable has its type, a task runs only while main does, and the  *)
(* last join finds no task left but the sinks.                             *)
TypeOK ==
    /\ phase \in [Procs -> Gone \cup {"off", "claim", "register", "watch", "supervisor",
                                      "pump", "sinks"}]
    /\ up \in [Procs -> SUBSET Tasks]
    /\ \A p \in Procs : ~Running(p) => up[p] = {} /\ icon[p] = "none" /\ owner # p
    /\ \A p \in Procs : phase[p] = "sinks" => up[p] \subseteq {"sinks"}
    /\ online \in [Procs -> BOOLEAN] /\ sole \in [Procs -> BOOLEAN]
    /\ owner \in Procs \cup {Nobody}
    /\ signalled \in [Procs -> BOOLEAN] /\ icon \in [Procs -> {"none", "shown", "dead"}]
    /\ fresh \in [Procs -> BOOLEAN]
    /\ host \in BOOLEAN /\ moves \in 0..HostMoves

(* Two trays never stand side by side, except where one of them is going   *)
(* down or was never told that it is the only one.                         *)
OneIcon ==
    \A p, q \in Procs :
        p # q /\ icon[p] = "shown" /\ icon[q] = "shown" =>
            \E r \in {p, q} : signalled[r] \/ ~sole[r]

(* Ctrl+C ends a tray: the joins wait for nothing that was not told to end,*)
(* in whichever state the tasks are.                                       *)
CtrlCExits ==
    \A p \in Followed : []<>(phase[p] \notin {"supervisor", "pump", "sinks"})

(* The next state change after the death of the icon service ends the      *)
(* process with a failure, so that systemd starts it again: the change     *)
(* does not stay unseen, and it is not taken as delivered.                 *)
DeadIconIsNoticed ==
    /\ \A p \in Followed : []<>~(icon[p] = "dead" /\ fresh[p] /\ ~signalled[p])
    /\ [][\A p \in Followed : icon[p] = "dead" /\ fresh[p] /\ ~fresh'[p] =>
              signalled[p] \/ ~Running(p)']_vars

(* However the shutdown began, the icon goes: no click reaches a tray      *)
(* whose tasks have left.                                                  *)
ShutdownTakesIcon ==
    \A p \in Followed : []<>~(signalled[p] /\ icon[p] = "shown")
=============================================================================
