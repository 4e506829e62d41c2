------------------------------- MODULE MCTray -------------------------------
(* Model-checking instance of Tray: two sessions that may overlap under an *)
(* undisturbed daemon, one session under a daemon that may start late,     *)
(* crash and come back as another version, one session and two clicks.     *)
EXTENDS Tray

MCBounds ==
    {[sessions |-> 2, crashes |-> 0, clicks |-> 0,
      commands |-> {}, late |-> FALSE],
     [sessions |-> 1, crashes |-> 1, clicks |-> 1,
      commands |-> {"start", "stop"}, late |-> TRUE],
     [sessions |-> 1, crashes |-> 0, clicks |-> 2,
      commands |-> Command, late |-> FALSE]}
=============================================================================
