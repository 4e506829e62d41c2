------------------------------ MODULE MCDesktop ------------------------------
(***************************************************************************)
(* Model-checking instance of the hotkey: Hotkey (the portal's sessions,   *)
(* the listener of the tray and the settings window) and Toggle (what a    *)
(* press does). A press that Hotkey counts is the beginning of one toggle  *)
(* of Toggle. One part runs in a behaviour. Every invariant includes the   *)
(* type invariants of the parts it speaks of.                              *)
(***************************************************************************)
EXTENDS Integers

CONSTANTS
    RebindCapacity, ControlCapacity, Bounds,                    \* of Hotkey
    None, Cli, Sessions, Presses, MaxTime, Debounce, Cooldown   \* of Toggle

VARIABLE part   \* the part of the system that runs

VARIABLES bound, portal, listener, session, events, buffered, menu, control,
          rebinds, settings, signals, gate, shutdown, toggles, seen
H == INSTANCE Hotkey
hvars == <<bound, portal, listener, session, events, buffered, menu, control,
           rebinds, settings, signals, gate, shutdown, toggles, seen>>

VARIABLES clock, slot, phase, activeFile, lost, profile, pc, arg, debouncer,
          outcome, calm, pressed, stopAt, restarted
G == INSTANCE Toggle
gvars == <<clock, slot, phase, activeFile, lost, profile, pc, arg, debouncer,
           outcome, calm, pressed, stopAt, restarted>>

(* Capacities, bounds and times are numbers; None is neither a session nor  *)
(* a process, and no command is the tray.                                  *)
ASSUME DesktopAssumption ==
    /\ {RebindCapacity, ControlCapacity} \subseteq Nat
    /\ Bounds \subseteq [presses : Nat, clicks : Nat, rebinds : Nat, restarts : Nat,
                         faults : Nat, changes : Nat]
    /\ {Sessions, Presses, MaxTime, Debounce, Cooldown} \subseteq Nat
    /\ None \notin 1 .. Sessions /\ None \notin Cli /\ None # "tray"
    /\ "tray" \notin Cli

(* Presses without a rebind, a restarted portal with one failing call, and *)
(* rebinds with a restarted portal.                                        *)
MCBounds ==
    {[presses |-> 2, clicks |-> 1, rebinds |-> 0, restarts |-> 0, faults |-> 0,
      changes |-> 1],
     [presses |-> 1, clicks |-> 2, rebinds |-> 1, restarts |-> 1, faults |-> 1,
      changes |-> 0],
     [presses |-> 0, clicks |-> 1, rebinds |-> 2, restarts |-> 1, faults |-> 0,
      changes |-> 1]}

(* One part runs; the others keep one of their initial states.             *)
Init ==
    /\ part \in {"hotkey", "toggle"}
    /\ H!Init /\ (part # "hotkey" => /\ bound = CHOOSE b \in Bounds : TRUE
                                    /\ portal.up /\ portal.chord)
    /\ G!Init /\ (part # "toggle" => profile)

Next ==
    \/ /\ part = "hotkey" /\ H!Next
       /\ UNCHANGED <<part, gvars>>
    \/ /\ part = "toggle" /\ G!Next
       /\ UNCHANGED <<part, hvars>>

vars == <<part, hvars, gvars>>

(* The listener, the subscriber and the two steps of the settings window;  *)
(* the daemon and the toggles.  Only one of the parts runs.                *)
Fair(i) ==
    \/ /\ part = "hotkey"
       /\ \/ i = 1 /\ H!ListenerStep
          \/ i = 2 /\ H!ForwardRebound
          \/ i = 3 /\ H!RebindEnds
          \/ i = 4 /\ H!EmitRebound
       /\ UNCHANGED <<part, gvars>>
    \/ /\ part = "toggle"
       /\ \/ i = 1 /\ G!DaemonStep
          \/ i = 2 /\ G!ToggleStep("tray")
          \/ i = 3 /\ \E t \in Cli : G!ToggleStep(t)
       /\ UNCHANGED <<part, hvars>>

Spec ==
    /\ Init /\ [][Next]_vars
    /\ \A i \in 1 .. 4 : WF_vars(Fair(i))

-----------------------------------------------------------------------------
(* A menu that names a chord is right as long as nothing failed, the tray  *)
(* has one portal session at a time and leaves none, and a bouncing key    *)
(* starts nothing in the cooldown of its stop (hotkey.rs, portal.rs,       *)
(* toggle.rs).                                                             *)
KeyHonest ==
    /\ part = "hotkey" =>
          /\ H!TypeOK
          /\ H!BoundIsHeard
          /\ H!OneSession
    /\ part = "toggle" =>
          /\ G!TypeOK
          /\ G!NoRestartInCooldown

(* An undisturbed toggle of a calm daemon does what was asked, and none    *)
(* starts a session while the newest one drains (toggle.rs).               *)
ToggleDoesAsked ==
    /\ G!UndisturbedToggleWorks
    /\ G!NoStartWhileDraining

(* A press before the daemon was there becomes a toggle, a rebind revives a*)
(* listener whose session died, the listener ends after a shutdown, and    *)
(* every press is answered (hotkey.rs, toggle.rs).                         *)
KeyAnswered ==
    /\ H!BufferedPressToggles
    /\ H!RebindRevives
    /\ H!ShutdownEnds
    /\ G!PressAnswered
=============================================================================
