-------------------------------- MODULE Hotkey --------------------------------
(***************************************************************************)
(* The listener task of the tray's global shortcut (tray/hotkey.rs) on the *)
(* session object of zwhisper-hotkey/portal.rs, the settings window that   *)
(* binds a new chord and tells the tray so (settings/tabs/hotkey.rs,       *)
(* hotkey_signal.rs), and `zwhisper hotkey bind`, which does not.          *)
(*                                                                         *)
(* The desktop portal is the environment: it owns the chord, which it      *)
(* remembers for the application across sessions; it may restart, fail a   *)
(* call, or have the chord removed in the system settings.  What a press   *)
(* does is the Toggle module; here it keeps the listener busy.             *)
(***************************************************************************)
EXTENDS Naturals, Sequences

CONSTANTS
    RebindCapacity,  \* REBIND_SIGNAL_CAPACITY
    ControlCapacity, \* capacity of the menu -> listener channel
    Bounds           \* the bounds a behaviour may have: key presses, menu
                     \* clicks, rebinds in the settings window, restarts of
                     \* the portal, failing calls, changes by others

VARIABLES
    bound,     \* the bounds of this behaviour
    portal,    \* [up, chord, open]: running, the chord is bound, sessions the
               \* tray has open in it
    listener,  \* [pc, goal, ready]: control state of run_hotkey
    session,   \* the listener's session: "none", "live", or "dead" when the
               \* portal restarted under it
    events,    \* the broadcast channel of that session
    buffered,  \* a press is held until the daemon is ready
    menu,      \* HotkeyMenuState
    control,   \* number of Bind requests in the channel of the menu
    rebinds,   \* number of rebind notices in the listener's channel
    settings,  \* control state of the rebind task in the settings window
    signals,   \* HotkeyRebound signals that the subscriber has not forwarded
    gate,      \* daemon_ready
    shutdown,
    toggles,   \* history: presses that became a toggle
    seen       \* history: what happened, counted

vars == <<bound, portal, listener, session, events, buffered, menu, control, rebinds,
          settings, signals, gate, shutdown, toggles, seen>>

(* What the listener leaves alone when it only waits for the portal.       *)
others == <<bound, control, rebinds, settings, signals, gate, shutdown, seen>>

Init ==
    /\ bound \in Bounds
    /\ portal \in [up : BOOLEAN, chord : BOOLEAN, open : {0}]
    /\ listener = [pc |-> "probe", goal |-> "auto", ready |-> FALSE]
    /\ session = "none" /\ events = <<>> /\ buffered = FALSE
    /\ menu = "unknown"
    /\ control = 0 /\ rebinds = 0 /\ settings = "idle" /\ signals = 0
    /\ gate = FALSE /\ shutdown = FALSE /\ toggles = 0
    /\ seen = [presses |-> 0, clicks |-> 0, rebinds |-> 0, restarts |-> 0,
               faults |-> 0, changes |-> 0]

Seen(what) == seen' = [seen EXCEPT ![what] = @ + 1]
May(what) == seen[what] < bound[what]

-----------------------------------------------------------------------------
(* The portal, the user and the daemon *)

(* Activated reaches the session whose handle it names, once subscribed.   *)
Press ==
    /\ May("presses") /\ portal.up /\ portal.chord /\ session = "live"
    /\ events' = Append(events, "activated")
    /\ Seen("presses")
    /\ UNCHANGED <<bound, portal, listener, session, buffered, menu, control, rebinds,
                   settings, signals, gate, shutdown, toggles>>

(* The chord is removed in the system settings.                            *)
ChordRemoved ==
    /\ May("changes") /\ portal.up /\ portal.chord
    /\ portal' = [portal EXCEPT !.chord = FALSE]
    /\ events' = IF session = "live" THEN Append(events, "changed") ELSE events
    /\ Seen("changes")
    /\ UNCHANGED <<bound, listener, session, buffered, menu, control, rebinds, settings,
                   signals, gate, shutdown, toggles>>

(* `zwhisper hotkey bind`: a session of its own, bound and closed.         *)
CliBind ==
    /\ May("changes") /\ portal.up /\ ~portal.chord
    /\ portal' = [portal EXCEPT !.chord = TRUE]
    /\ Seen("changes")
    /\ UNCHANGED <<bound, listener, session, events, buffered, menu, control, rebinds,
                   settings, signals, gate, shutdown, toggles>>

(* A portal that stops forgets its sessions.  The adapter keeps the sender *)
(* of the session's channel: the listener is not told.                     *)
PortalStops ==
    /\ May("restarts") /\ portal.up
    /\ portal' = [portal EXCEPT !.up = FALSE, !.open = 0]
    /\ session' = IF session = "live" THEN "dead" ELSE session
    /\ Seen("restarts")
    /\ UNCHANGED <<bound, listener, events, buffered, menu, control, rebinds, settings,
                   signals, gate, shutdown, toggles>>

PortalStarts ==
    /\ ~portal.up
    /\ portal' = [portal EXCEPT !.up = TRUE]
    /\ UNCHANGED <<bound, listener, session, events, buffered, menu, control, rebinds,
                   settings, signals, gate, shutdown, toggles, seen>>

DaemonReady ==
    /\ ~gate /\ ~shutdown
    /\ gate' = TRUE
    /\ UNCHANGED <<bound, portal, listener, session, events, buffered, menu, control,
                   rebinds, settings, signals, shutdown, toggles, seen>>

Shutdown ==
    /\ ~shutdown
    /\ shutdown' = TRUE
    /\ UNCHANGED <<bound, portal, listener, session, events, buffered, menu, control,
                   rebinds, settings, signals, gate, toggles, seen>>

(* The menu entry: only a state that is known to be bindable is clickable. *)
hotkey_menu_clickable == menu \in {"notBound", "bound"}

(* The entry sends Bind; a full channel drops it.                          *)
ClickBind ==
    /\ May("clicks") /\ hotkey_menu_clickable /\ ~shutdown
    /\ control' = IF control < ControlCapacity THEN control + 1 ELSE control
    /\ Seen("clicks")
    /\ UNCHANGED <<bound, portal, listener, session, events, buffered, menu, rebinds,
                   settings, signals, gate, shutdown, toggles>>

-----------------------------------------------------------------------------
(* The settings window *)

settingsFrame == <<bound, portal, listener, session, events, buffered, menu, control,
                   rebinds, gate, shutdown, toggles>>

Rebind ==
    /\ May("rebinds") /\ settings = "idle" /\ portal.up
    /\ settings' = "binding"
    /\ Seen("rebinds")
    /\ UNCHANGED <<settingsFrame, signals>>

(* run_rebind: the user chooses a chord, or cancels, or lets it time out.  *)
RebindEnds ==
    /\ settings = "binding"
    /\ \/ portal.up /\ portal' = [portal EXCEPT !.chord = TRUE] /\ settings' = "emitting"
       \/ settings' = "idle" /\ UNCHANGED portal
    /\ UNCHANGED <<bound, listener, session, events, buffered, menu, control, rebinds,
                   gate, shutdown, toggles, signals, seen>>

(* HotkeyRebound, after a completed rebind only.                           *)
EmitRebound ==
    /\ settings = "emitting"
    /\ settings' = "idle"
    /\ signals' = signals + 1
    /\ UNCHANGED <<settingsFrame, seen>>

(* The subscriber waits for room in the listener's channel.                *)
ForwardRebound ==
    /\ signals > 0 /\ ~shutdown
    /\ rebinds < RebindCapacity
    /\ signals' = signals - 1
    /\ rebinds' = rebinds + 1
    /\ UNCHANGED <<bound, portal, listener, session, events, buffered, menu, control,
                   settings, gate, shutdown, toggles, seen>>

-----------------------------------------------------------------------------
(* The listener *)

Goto(pc, goal) == listener' = [listener EXCEPT !.pc = pc, !.goal = goal]

(* A call fails when the portal is down; otherwise a bounded number do.    *)
CallFails ==
    \/ ~portal.up /\ UNCHANGED seen
    \/ portal.up /\ May("faults") /\ Seen("faults")

(* The initial probe; with auto_bind_on_startup a session is opened.       *)
Probe ==
    /\ listener.pc = "probe"
    /\ IF portal.up
       THEN /\ menu' = IF menu \in {"unknown", "unavailable"} THEN "notBound" ELSE menu
            /\ \E auto_bind \in BOOLEAN : Goto(IF auto_bind THEN "create" ELSE "wait", "auto")
       ELSE menu' = "unavailable" /\ Goto("wait", "auto")
    /\ UNCHANGED <<others, portal, session, events, buffered, toggles>>

(* ensure_session: CreateSession and the subscription to its signals.  A   *)
(* portal that fails the subscription keeps the session it created.        *)
Create ==
    /\ listener.pc = "create"
    /\ \/ /\ portal.up
          /\ session' = "live" /\ events' = <<>>
          /\ portal' = [portal EXCEPT !.open = @ + 1]
          /\ Goto(IF listener.goal = "bind" THEN "bind" ELSE "list", listener.goal)
          /\ UNCHANGED <<menu, seen>>
       \/ /\ CallFails
          /\ \E kept \in {0} \union {n \in {1} : portal.up} :
                portal' = [portal EXCEPT !.open = @ + kept]
          /\ menu' = "unavailable"
          /\ Goto("wait", "none")
          /\ UNCHANGED <<session, events>>
    /\ UNCHANGED <<bound, control, rebinds, settings, signals, gate, shutdown, buffered,
                   toggles>>

(* Mutant: the chord is taken to be there when the session is.             *)
ListAssumesBound ==
    /\ listener.pc = "list"
    /\ menu' = IF session = "live" /\ menu = "bound" THEN "bound"
               ELSE IF portal.chord THEN "bound" ELSE "notBound"
    /\ Goto("wait", "none")
    /\ UNCHANGED <<others, portal, session, events, buffered, toggles>>

(* refresh_bound_state; an error leaves the menu as it is.                 *)
List ==
    /\ listener.pc = "list"
    /\ \/ /\ session = "live" /\ portal.up
          /\ menu' = IF portal.chord THEN "bound" ELSE "notBound"
          /\ UNCHANGED seen
       \/ /\ IF session = "live" THEN CallFails ELSE UNCHANGED seen
          /\ UNCHANGED menu
    /\ Goto("wait", "none")
    /\ UNCHANGED <<bound, control, rebinds, settings, signals, gate, shutdown, portal,
                   session, events, buffered, toggles>>

(* Mutant: the bind dialog has no timeout.                                 *)
BindEndsUntimed ==
    /\ listener.pc = "bind"
    /\ session = "live" /\ portal.up /\ ~shutdown
    /\ portal' = [portal EXCEPT !.chord = TRUE]
    /\ menu' = "bound"
    /\ Goto("wait", "none")
    /\ UNCHANGED <<others, session, events, buffered, toggles>>

(* The bind dialog: a chord, or a refusal, a cancel, the timeout.  Every   *)
(* other event waits until it is over.                                     *)
BindEnds ==
    /\ listener.pc = "bind"
    /\ \/ /\ session = "live" /\ portal.up
          /\ portal' = [portal EXCEPT !.chord = TRUE]
          /\ menu' = "bound"
       \/ menu' = "unavailable" /\ UNCHANGED portal
    /\ Goto("wait", "none")
    /\ UNCHANGED <<others, session, events, buffered, toggles>>

(* Mutant: the old session is forgotten and not closed.                    *)
CloseForgets ==
    /\ listener.pc = "close"
    /\ session' = "none" /\ events' = <<>>
    /\ Goto("create", "recreate")
    /\ UNCHANGED <<others, portal, buffered, menu, toggles>>

(* recreate_session, after its delay: close the session there is, then     *)
(* create one.                                                             *)
Close ==
    /\ listener.pc = "close"
    /\ portal' = [portal EXCEPT !.open = IF session = "live" THEN @ - 1 ELSE @]
    /\ session' = "none" /\ events' = <<>>
    /\ Goto("create", "recreate")
    /\ UNCHANGED <<others, buffered, menu, toggles>>

(* on_activated is over; its outcome does not concern the listener.        *)
ToggleEnds ==
    /\ listener.pc = "toggle"
    /\ Goto("wait", "none")
    /\ UNCHANGED <<others, portal, session, events, buffered, menu, toggles>>

Waiting == listener.pc = "wait"

(* The biased select: shutdown, then the gate, the menu, a rebind notice   *)
(* and last the events of the session.                                     *)
TakeShutdown ==
    /\ Waiting /\ shutdown
    /\ portal' = [portal EXCEPT !.open = IF session = "live" THEN @ - 1 ELSE @]
    /\ session' = "none" /\ events' = <<>>
    /\ Goto("ended", "none")
    /\ UNCHANGED <<others, buffered, menu, toggles>>

(* Mutant: the press made while the daemon was away is thrown away.        *)
TakeGateDrops ==
    /\ Waiting /\ ~shutdown /\ gate /\ ~listener.ready
    /\ buffered' = FALSE
    /\ listener' = [pc |-> "wait", goal |-> "none", ready |-> TRUE]
    /\ UNCHANGED <<others, portal, session, events, menu, toggles>>

(* The gate opens: the buffered press is toggled now.                      *)
TakeGate ==
    /\ Waiting /\ ~shutdown /\ gate /\ ~listener.ready
    /\ buffered' = FALSE
    /\ toggles' = IF buffered THEN toggles + 1 ELSE toggles
    /\ listener' = [pc |-> IF buffered THEN "toggle" ELSE "wait", goal |-> "none",
                    ready |-> TRUE]
    /\ UNCHANGED <<others, portal, session, events, menu>>

NothingBefore == Waiting /\ ~shutdown /\ (gate => listener.ready)

(* handle_control(Bind): ensure_session, then the dialog.                  *)
TakeBind ==
    /\ NothingBefore /\ control > 0
    /\ control' = control - 1
    /\ Goto(IF session = "none" THEN "create" ELSE "bind", "bind")
    /\ UNCHANGED <<bound, portal, session, events, buffered, menu, rebinds, settings,
                   signals, gate, shutdown, toggles, seen>>

(* Mutant: a session that is there is kept.                                *)
TakeRebindKeeps ==
    /\ NothingBefore /\ control = 0 /\ rebinds > 0
    /\ rebinds' = rebinds - 1
    /\ Goto(IF session = "none" THEN "create" ELSE "list", "recreate")
    /\ UNCHANGED <<bound, portal, session, events, buffered, menu, control, settings,
                   signals, gate, shutdown, toggles, seen>>

(* handle_control(Recreate)                                                *)
TakeRebind ==
    /\ NothingBefore /\ control = 0 /\ rebinds > 0
    /\ rebinds' = rebinds - 1
    /\ Goto("close", "recreate")
    /\ UNCHANGED <<bound, portal, session, events, buffered, menu, control, settings,
                   signals, gate, shutdown, toggles, seen>>

(* An event of the session: a press is buffered before the gate is open,   *)
(* the newest one winning, and toggled after.                              *)
TakeEvent ==
    /\ NothingBefore /\ control = 0 /\ rebinds = 0 /\ events # <<>>
    /\ events' = Tail(events)
    /\ \/ /\ Head(events) = "activated" /\ listener.ready
          /\ toggles' = toggles + 1
          /\ Goto("toggle", "none")
          /\ UNCHANGED buffered
       \/ /\ Head(events) = "activated" /\ ~listener.ready
          /\ buffered' = TRUE
          /\ UNCHANGED <<listener, toggles>>
       \/ /\ Head(events) = "changed"
          /\ Goto("list", "refresh")
          /\ UNCHANGED <<buffered, toggles>>
    /\ UNCHANGED <<others, portal, session, menu>>

-----------------------------------------------------------------------------

Environment ==
    \/ Press \/ ChordRemoved \/ CliBind \/ PortalStops \/ PortalStarts \/ DaemonReady \/ Shutdown
    \/ ClickBind \/ Rebind

ListenerStep ==
    \/ Probe \/ Create \/ List \/ BindEnds \/ Close \/ ToggleEnds
    \/ TakeShutdown \/ TakeGate \/ TakeBind \/ TakeRebind \/ TakeEvent

Next == Environment \/ RebindEnds \/ EmitRebound \/ ForwardRebound \/ ListenerStep

(* The listener, the subscriber and the rebind task are tasks that run;    *)
(* the dialogs end because they have a timeout.                            *)
Fairness ==
    /\ WF_vars(ListenerStep) /\ WF_vars(ForwardRebound)
    /\ WF_vars(RebindEnds) /\ WF_vars(EmitRebound)

Spec == Init /\ [][Next]_vars /\ Fairness

-----------------------------------------------------------------------------
(* Properties *)

(* Every variable stays in its type; the channels keep their capacity.     *)
TypeOK ==
    /\ bound \in Bounds
    /\ portal \in [up : BOOLEAN, chord : BOOLEAN, open : Nat]
    /\ listener.pc \in {"probe", "create", "list", "bind", "close", "toggle", "wait",
                        "ended"}
    /\ session \in {"none", "live", "dead"}
    /\ menu \in {"unknown", "unavailable", "notBound", "bound"}
    /\ settings \in {"idle", "binding", "emitting"}
    /\ control \in 0 .. ControlCapacity /\ rebinds \in 0 .. RebindCapacity
    /\ {buffered, gate, shutdown} \subseteq BOOLEAN

(* Nothing is on its way to the listener.                                  *)
Settled ==
    /\ Waiting /\ ~shutdown /\ settings = "idle"
    /\ control = 0 /\ rebinds = 0 /\ signals = 0 /\ events = <<>>

(* Once everything is handled, a menu that names a chord is right: the     *)
(* portal has one, and the listener has a session that will hear it.  Not  *)
(* so after a restart of the portal or a failed call (hotkey.rs).          *)
BoundIsHeard ==
    Settled /\ menu = "bound" /\ seen.restarts = 0 /\ seen.faults = 0
    => portal.chord /\ session = "live"

(* The tray never has two sessions open in the portal, however binds,      *)
(* rebinds and restarts interleave, unless a failed call left one there;   *)
(* and none is left when the listener ended (portal.rs, recreate, close).  *)
OneSession ==
    portal.open <= (IF session = "live" THEN 1 ELSE 0) + seen.faults

(* A press made before the daemon was there becomes a toggle once it is    *)
(* (hotkey.rs, the pre-ready buffer).                                      *)
BufferedPressToggles ==
    (buffered /\ gate /\ toggles = 0) ~> (toggles > 0 \/ shutdown)

(* A rebind in the settings window revives a listener whose session died   *)
(* with a restarted portal (hotkey.rs, HotkeyControl::Recreate).           *)
RebindRevives ==
    (session = "dead" /\ rebinds > 0) ~> (session # "dead" \/ shutdown)

(* The listener ends after a shutdown, also out of a bind dialog nobody    *)
(* answers (hotkey.rs, bind_timeout_secs).                                 *)
ShutdownEnds == []<>(~shutdown \/ listener.pc = "ended")
=============================================================================
