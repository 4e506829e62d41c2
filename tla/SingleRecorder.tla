--------------------------- MODULE SingleRecorder ---------------------------
(***************************************************************************)
(* What the daemon promises of recorders: "at most one recording at a      *)
(* time" (single-session policy of session.rs), each session records at    *)
(* most once, and nothing else.  Sessions implements this.                 *)
(***************************************************************************)
CONSTANT Session

VARIABLES
    live,      \* sessions that own a running recorder
    recorded   \* sessions whose recorder has ended

vars == <<live, recorded>>

Init == live = {} /\ recorded = {}

Start(s) ==
    /\ live = {}
    /\ s \notin recorded
    /\ live' = {s}
    /\ UNCHANGED recorded

End(s) ==
    /\ live = {s}
    /\ live' = {}
    /\ recorded' = recorded \union {s}

Next == \E s \in Session : Start(s) \/ End(s)

Spec == Init /\ [][Next]_vars
=============================================================================
