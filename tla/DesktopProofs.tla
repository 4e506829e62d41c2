---------------------------- MODULE DesktopProofs ----------------------------
(***************************************************************************)
(* Proofs about the hotkey, for any number of presses, rebinds, restarts   *)
(* of the portal, sessions and processes: what the menu says of the chord, *)
(* how many portal sessions the tray has, and what a toggle decides.  The  *)
(* two parts of MCDesktop share no state; each has its invariant here, and *)
(* the theorems are about the specification of MCDesktop.                  *)
(***************************************************************************)
EXTENDS MCDesktop, Sequences, TLAPS

-----------------------------------------------------------------------------
(* The listener *)

Counters == [presses : Nat, clicks : Nat, rebinds : Nat, restarts : Nat,
             faults : Nat, changes : Nat]
Pc == {"probe", "create", "list", "bind", "close", "toggle", "wait", "ended"}
Goal == {"auto", "none", "bind", "recreate", "refresh"}

HotkeyTypes ==
    /\ bound \in Bounds /\ seen \in Counters
    /\ portal \in [up : BOOLEAN, chord : BOOLEAN, open : Nat]
    /\ listener \in [pc : Pc, goal : Goal, ready : BOOLEAN]
    /\ session \in {"none", "live", "dead"}
    /\ events \in Seq({"activated", "changed"})
    /\ menu \in {"unknown", "unavailable", "notBound", "bound"}
    /\ settings \in {"idle", "binding", "emitting"} /\ signals \in Nat
    /\ control \in 0 .. ControlCapacity /\ rebinds \in 0 .. RebindCapacity
    /\ buffered \in BOOLEAN /\ gate \in BOOLEAN /\ shutdown \in BOOLEAN

(* The session of the listener is open in a portal that runs; it dies with *)
(* a restart only, and before one is created there is none.                *)
SessionInv ==
    /\ session = "live" => portal.up /\ portal.open >= 1
    /\ session = "dead" => seen.restarts > 0
    /\ session = "none" => events = << >>
    /\ listener.pc \in {"probe", "create"} => session = "none"
    /\ listener.pc = "probe" => menu = "unknown"

Changed == \E i \in 1 .. Len(events) : events[i] = "changed"

(* Unless something failed, the listener of a menu that names a chord has  *)
(* a session, and when the chord is gone it is about to look or an event   *)
(* will make it look.                                                      *)
MenuInv ==
    seen.restarts = 0 /\ seen.faults = 0 /\ menu = "bound" =>
       /\ listener.pc \in {"wait", "toggle", "bind", "list"} => session = "live"
       /\ listener.pc = "create" => listener.goal = "recreate"
       /\ \/ portal.chord \/ Changed
          \/ listener.pc \in {"list", "close", "create", "ended"}

HotkeyInv == HotkeyTypes /\ SessionInv /\ MenuInv /\ H!OneSession

LEMMA EventsAre ==
    ASSUME NEW q \in Seq({"activated", "changed"}), NEW e \in {"activated", "changed"}
    PROVE  /\ Append(q, e) \in Seq({"activated", "changed"})
           /\ \A i \in 1 .. Len(q) : i \in 1 .. Len(Append(q, e)) /\ Append(q, e)[i] = q[i]
           /\ Len(Append(q, e)) \in 1 .. Len(Append(q, e)) /\ Append(q, e)[Len(Append(q, e))] = e
           /\ q # << >> =>
                 /\ Head(q) = q[1] /\ 1 \in 1 .. Len(q) /\ Tail(q) \in Seq({"activated", "changed"})
                 /\ \A i \in 1 .. Len(q) : i = 1 \/ /\ i - 1 \in 1 .. Len(Tail(q))
                                                    /\ Tail(q)[i - 1] = q[i]
OBVIOUS

LEMMA SeenIs ==
    ASSUME HotkeyTypes,
           NEW what \in {"presses", "clicks", "rebinds", "restarts", "faults", "changes"},
           H!Seen(what)
    PROVE  /\ seen' \in Counters
           /\ what # "restarts" => seen'.restarts = seen.restarts
           /\ what # "faults" => seen'.faults = seen.faults
           /\ what = "restarts" => seen'.restarts = seen.restarts + 1
           /\ what = "faults" => seen'.faults = seen.faults + 1
<1>1. seen \in Counters /\ seen' = [seen EXCEPT ![what] = seen[what] + 1]
  BY DEF HotkeyTypes, H!Seen
<1>2. CASE what = "presses"
  <2>1. seen' = [seen EXCEPT !.presses = seen.presses + 1]
    BY <1>1, <1>2
  <2> QED
    BY <1>1, <1>2, <2>1 DEF Counters
<1>3. CASE what = "clicks"
  <2>1. seen' = [seen EXCEPT !.clicks = seen.clicks + 1]
    BY <1>1, <1>3
  <2> QED
    BY <1>1, <1>3, <2>1 DEF Counters
<1>4. CASE what = "rebinds"
  <2>1. seen' = [seen EXCEPT !.rebinds = seen.rebinds + 1]
    BY <1>1, <1>4
  <2> QED
    BY <1>1, <1>4, <2>1 DEF Counters
<1>5. CASE what = "restarts"
  <2>1. seen' = [seen EXCEPT !.restarts = seen.restarts + 1]
    BY <1>1, <1>5
  <2> QED
    BY <1>1, <1>5, <2>1 DEF Counters
<1>6. CASE what = "faults"
  <2>1. seen' = [seen EXCEPT !.faults = seen.faults + 1]
    BY <1>1, <1>6
  <2> QED
    BY <1>1, <1>6, <2>1 DEF Counters
<1>7. CASE what = "changes"
  <2>1. seen' = [seen EXCEPT !.changes = seen.changes + 1]
    BY <1>1, <1>7
  <2> QED
    BY <1>1, <1>7, <2>1 DEF Counters
<1> QED
  BY <1>2, <1>3, <1>4, <1>5, <1>6, <1>7

(* Steps of the others, which leave the listener and its session alone.    *)
LEMMA HotkeyOthers ==
    ASSUME HotkeyInv, HotkeyTypes', UNCHANGED <<listener, session, menu>>,
           portal'.open = portal.open, portal.up => portal'.up,
           seen'.restarts = seen.restarts, seen'.faults = seen.faults,
           session = "none" => events' = << >>, Changed => Changed',
           portal.chord => portal'.chord \/ Changed' \/ session # "live"
    PROVE  HotkeyInv'
<1>1. SessionInv'
  BY DEF HotkeyInv, SessionInv
<1>2. MenuInv'
  <2> SUFFICES ASSUME seen.restarts = 0, seen.faults = 0, menu = "bound"
               PROVE  /\ listener.pc \in {"wait", "toggle", "bind", "list"} => session = "live"
                      /\ listener.pc = "create" => listener.goal = "recreate"
                      /\ \/ portal'.chord \/ Changed'
                         \/ listener.pc \in {"list", "close", "create", "ended"}
    BY DEF MenuInv
  <2>1. /\ listener.pc \in {"wait", "toggle", "bind", "list"} => session = "live"
        /\ listener.pc = "create" => listener.goal = "recreate"
        /\ \/ portal.chord \/ Changed
           \/ listener.pc \in {"list", "close", "create", "ended"}
        /\ listener.pc # "probe"
    BY DEF HotkeyInv, MenuInv, SessionInv
  <2>2. listener.pc \in Pc
    BY DEF HotkeyInv, HotkeyTypes
  <2> QED
    BY <2>1, <2>2 DEF Pc
<1>3. H!OneSession'
  BY DEF HotkeyInv, H!OneSession
<1> QED
  BY <1>1, <1>2, <1>3 DEF HotkeyInv

LEMMA HotkeyEnvironment ==
    ASSUME HotkeyInv, H!Environment
    PROVE  HotkeyInv'
<1>0. HotkeyTypes
  BY DEF HotkeyInv
<1>1. CASE H!Press
  <2>1. /\ session = "live" /\ events' = Append(events, "activated") /\ H!Seen("presses")
        /\ UNCHANGED <<bound, portal, listener, session, buffered, menu, control, rebinds,
                       settings, signals, gate, shutdown, toggles>>
    BY <1>1 DEF H!Press
  <2>2. /\ events' \in Seq({"activated", "changed"}) /\ (Changed => Changed')
    BY <1>0, <2>1, EventsAre DEF HotkeyTypes, Changed
  <2>3. /\ seen' \in Counters /\ seen'.restarts = seen.restarts /\ seen'.faults = seen.faults
    BY <1>0, <2>1, SeenIs
  <2>4. HotkeyTypes'
    BY <1>0, <2>1, <2>2, <2>3 DEF HotkeyTypes
  <2> QED
    BY <2>1, <2>2, <2>3, <2>4, HotkeyOthers
<1>2. CASE H!ChordRemoved
  <2>1. /\ portal' = [portal EXCEPT !.chord = FALSE] /\ H!Seen("changes")
        /\ events' = IF session = "live" THEN Append(events, "changed") ELSE events
        /\ UNCHANGED <<bound, listener, session, buffered, menu, control, rebinds, settings,
                       signals, gate, shutdown, toggles>>
    BY <1>2 DEF H!ChordRemoved
  <2>2. /\ events' \in Seq({"activated", "changed"}) /\ (Changed => Changed')
        /\ session = "live" => Changed'
    BY <1>0, <2>1, EventsAre DEF HotkeyTypes, Changed
  <2>3. /\ seen' \in Counters /\ seen'.restarts = seen.restarts /\ seen'.faults = seen.faults
    BY <1>0, <2>1, SeenIs
  <2>4. /\ portal' \in [up : BOOLEAN, chord : BOOLEAN, open : Nat]
        /\ portal'.open = portal.open /\ portal'.up = portal.up
    BY <1>0, <2>1 DEF HotkeyTypes
  <2>5. HotkeyTypes'
    BY <1>0, <2>1, <2>2, <2>3, <2>4 DEF HotkeyTypes
  <2>6. session = "none" => events' = << >>
    BY <2>1 DEF HotkeyInv, SessionInv
  <2> QED
    BY <2>1, <2>2, <2>3, <2>4, <2>5, <2>6, HotkeyOthers
<1>3. CASE H!CliBind
  <2>1. /\ portal' = [portal EXCEPT !.chord = TRUE] /\ H!Seen("changes")
        /\ UNCHANGED <<bound, listener, session, events, buffered, menu, control, rebinds,
                       settings, signals, gate, shutdown, toggles>>
    BY <1>3 DEF H!CliBind
  <2>2. /\ seen' \in Counters /\ seen'.restarts = seen.restarts /\ seen'.faults = seen.faults
    BY <1>0, <2>1, SeenIs
  <2>3. /\ portal' \in [up : BOOLEAN, chord : BOOLEAN, open : Nat] /\ portal'.chord
        /\ portal'.open = portal.open /\ portal'.up = portal.up
    BY <1>0, <2>1 DEF HotkeyTypes
  <2>4. HotkeyTypes'
    BY <1>0, <2>1, <2>2, <2>3 DEF HotkeyTypes
  <2>5. session = "none" => events' = << >>
    BY <2>1 DEF HotkeyInv, SessionInv
  <2> QED
    BY <2>1, <2>2, <2>3, <2>4, <2>5, HotkeyOthers DEF Changed
<1>4. CASE H!PortalStops
  <2>1. /\ portal' = [portal EXCEPT !.up = FALSE, !.open = 0] /\ H!Seen("restarts")
        /\ session' = IF session = "live" THEN "dead" ELSE session
        /\ UNCHANGED <<bound, listener, events, buffered, menu, control, rebinds, settings,
                       signals, gate, shutdown, toggles>>
    BY <1>4 DEF H!PortalStops
  <2>2. /\ seen' \in Counters /\ seen'.restarts = seen.restarts + 1
        /\ seen'.faults = seen.faults /\ seen.restarts \in Nat /\ seen.faults \in Nat
    BY <1>0, <2>1, SeenIs DEF HotkeyTypes, Counters
  <2>3. /\ portal' \in [up : BOOLEAN, chord : BOOLEAN, open : Nat] /\ portal'.open = 0
        /\ session' \in {"none", "dead"}
    BY <1>0, <2>1 DEF HotkeyTypes
  <2>4. HotkeyTypes'
    BY <1>0, <2>1, <2>2, <2>3 DEF HotkeyTypes
  <2>5. seen'.restarts > 0 /\ seen'.restarts # 0
    BY <2>2
  <2>6. SessionInv'
    BY <2>1, <2>3, <2>5 DEF HotkeyInv, SessionInv
  <2>7. MenuInv'
    BY <2>5 DEF MenuInv
  <2>8. H!OneSession'
    BY <2>2, <2>3 DEF H!OneSession
  <2> QED
    BY <2>4, <2>6, <2>7, <2>8 DEF HotkeyInv
<1>5. CASE H!PortalStarts
  <2>1. /\ portal' = [portal EXCEPT !.up = TRUE]
        /\ UNCHANGED <<bound, listener, session, events, buffered, menu, control, rebinds,
                       settings, signals, gate, shutdown, toggles, seen>>
    BY <1>5 DEF H!PortalStarts
  <2>2. /\ portal' \in [up : BOOLEAN, chord : BOOLEAN, open : Nat] /\ portal'.up
        /\ portal'.open = portal.open /\ portal'.chord = portal.chord
    BY <1>0, <2>1 DEF HotkeyTypes
  <2>3. HotkeyTypes'
    BY <1>0, <2>1, <2>2 DEF HotkeyTypes
  <2>4. session = "none" => events' = << >>
    BY <2>1 DEF HotkeyInv, SessionInv
  <2> QED
    BY <2>1, <2>2, <2>3, <2>4, HotkeyOthers DEF Changed
<1>6. ASSUME UNCHANGED <<bound, portal, listener, session, events, menu>>,
             HotkeyTypes', seen'.restarts = seen.restarts, seen'.faults = seen.faults
      PROVE  HotkeyInv'
  <2>1. session = "none" => events' = << >>
    BY <1>6 DEF HotkeyInv, SessionInv
  <2> QED
    BY <1>6, <2>1, HotkeyOthers DEF Changed
<1>7. CASE H!DaemonReady \/ H!Shutdown
  <2>1. /\ gate' \in BOOLEAN /\ shutdown' \in BOOLEAN
        /\ UNCHANGED <<bound, portal, listener, session, events, buffered, menu, control,
                       rebinds, settings, signals, toggles, seen>>
    BY <1>0, <1>7 DEF H!DaemonReady, H!Shutdown, HotkeyTypes
  <2>2. HotkeyTypes'
    BY <1>0, <2>1 DEF HotkeyTypes
  <2> QED
    BY <1>6, <2>1, <2>2
<1>8. CASE H!ClickBind
  <2>1. /\ control' = (IF control < ControlCapacity THEN control + 1 ELSE control)
        /\ H!Seen("clicks")
        /\ UNCHANGED <<bound, portal, listener, session, events, buffered, menu, rebinds,
                       settings, signals, gate, shutdown, toggles>>
    BY <1>8 DEF H!ClickBind
  <2>2. /\ seen' \in Counters /\ seen'.restarts = seen.restarts /\ seen'.faults = seen.faults
    BY <1>0, <2>1, SeenIs
  <2>3. control' \in 0 .. ControlCapacity
    BY <1>0, <2>1, DesktopAssumption DEF HotkeyTypes
  <2>4. HotkeyTypes'
    BY <1>0, <2>1, <2>2, <2>3 DEF HotkeyTypes
  <2> QED
    BY <1>6, <2>1, <2>2, <2>4
<1>9. CASE H!Rebind
  <2>1. /\ settings' = "binding" /\ H!Seen("rebinds")
        /\ UNCHANGED <<bound, portal, listener, session, events, buffered, menu, control,
                       rebinds, gate, shutdown, toggles, signals>>
    BY <1>9 DEF H!Rebind, H!settingsFrame
  <2>2. /\ seen' \in Counters /\ seen'.restarts = seen.restarts /\ seen'.faults = seen.faults
    BY <1>0, <2>1, SeenIs
  <2>3. HotkeyTypes'
    BY <1>0, <2>1, <2>2 DEF HotkeyTypes
  <2> QED
    BY <1>6, <2>1, <2>2, <2>3
<1> QED
  BY <1>1, <1>2, <1>3, <1>4, <1>5, <1>7, <1>8, <1>9 DEF H!Environment

LEMMA HotkeySettings ==
    ASSUME HotkeyInv, H!RebindEnds \/ H!EmitRebound \/ H!ForwardRebound
    PROVE  HotkeyInv'
<1>0. HotkeyTypes /\ (session = "none" => events = << >>)
  BY DEF HotkeyInv, SessionInv
<1>1. CASE H!RebindEnds
  <2>1. /\ portal' = portal \/ portal' = [portal EXCEPT !.chord = TRUE]
        /\ settings' \in {"emitting", "idle"}
        /\ UNCHANGED <<bound, listener, session, events, buffered, menu, control, rebinds,
                       gate, shutdown, toggles, signals, seen>>
    BY <1>1 DEF H!RebindEnds
  <2>2. /\ portal' \in [up : BOOLEAN, chord : BOOLEAN, open : Nat]
        /\ portal'.open = portal.open /\ portal'.up = portal.up
        /\ portal.chord => portal'.chord
    BY <1>0, <2>1 DEF HotkeyTypes
  <2>3. HotkeyTypes'
    BY <1>0, <2>1, <2>2 DEF HotkeyTypes
  <2> QED
    BY <1>0, <2>1, <2>2, <2>3, HotkeyOthers DEF Changed
<1>2. CASE H!EmitRebound \/ H!ForwardRebound
  <2>1. /\ settings' \in {"idle", settings} /\ signals' \in Nat
        /\ rebinds' \in 0 .. RebindCapacity
        /\ UNCHANGED <<bound, portal, listener, session, events, buffered, menu, control,
                       gate, shutdown, toggles, seen>>
    <3>1. CASE H!EmitRebound
      BY <1>0, <3>1 DEF H!EmitRebound, H!settingsFrame, HotkeyTypes
    <3>2. CASE H!ForwardRebound
      BY <1>0, <3>2, DesktopAssumption DEF H!ForwardRebound, HotkeyTypes
    <3> QED
      BY <1>2, <3>1, <3>2
  <2>2. HotkeyTypes'
    BY <1>0, <2>1 DEF HotkeyTypes
  <2> QED
    BY <1>0, <2>1, <2>2, HotkeyOthers DEF Changed
<1> QED
  BY <1>1, <1>2

-----------------------------------------------------------------------------
(* The steps of the listener.                                              *)

(* A call that fails with a portal that runs is counted.                   *)
LEMMA FailsIs ==
    ASSUME HotkeyTypes, H!CallFails
    PROVE  /\ seen' \in Counters /\ seen'.restarts = seen.restarts
           /\ \/ ~portal.up /\ seen' = seen
              \/ seen'.faults = seen.faults + 1
<1>1. CASE ~portal.up /\ UNCHANGED seen
  BY <1>1 DEF HotkeyTypes
<1>2. CASE H!Seen("faults")
  BY <1>2, SeenIs
<1> QED
  BY <1>1, <1>2 DEF H!CallFails

LEMMA GotoIs ==
    ASSUME HotkeyTypes, NEW p \in Pc, NEW g \in Goal, H!Goto(p, g)
    PROVE  /\ listener' \in [pc : Pc, goal : Goal, ready : BOOLEAN]
           /\ listener'.pc = p /\ listener'.goal = g /\ listener'.ready = listener.ready
BY DEF HotkeyTypes, H!Goto

LEMMA HotkeyProbe ==
    ASSUME HotkeyInv, H!Probe
    PROVE  HotkeyInv'
<1>0. HotkeyTypes /\ session = "none" /\ events = << >> /\ menu = "unknown"
  BY DEF HotkeyInv, SessionInv, H!Probe
<1>1. /\ menu' \in {"notBound", "unavailable"}
      /\ H!Goto("create", "auto") \/ H!Goto("wait", "auto")
      /\ UNCHANGED <<bound, control, rebinds, settings, signals, gate, shutdown, seen>>
      /\ UNCHANGED <<portal, session, events, buffered, toggles>>
  BY <1>0 DEF H!Probe, H!others
<1>2. /\ listener' \in [pc : Pc, goal : Goal, ready : BOOLEAN]
      /\ listener'.pc # "probe"
  <2>1. {"create", "wait"} \subseteq Pc /\ "auto" \in Goal
    BY DEF Pc, Goal
  <2> QED
    BY <1>0, <1>1, <2>1, GotoIs
<1>3. HotkeyTypes'
  BY <1>0, <1>1, <1>2 DEF HotkeyTypes
<1>4. SessionInv'
  BY <1>0, <1>1, <1>2 DEF HotkeyInv, SessionInv
<1>5. MenuInv' /\ H!OneSession'
  BY <1>1 DEF HotkeyInv, MenuInv, H!OneSession
<1> QED
  BY <1>3, <1>4, <1>5 DEF HotkeyInv

LEMMA HotkeyCreate ==
    ASSUME HotkeyInv, H!Create
    PROVE  HotkeyInv'
<1>0. HotkeyTypes /\ listener.pc = "create" /\ session = "none" /\ events = << >>
  BY DEF HotkeyInv, SessionInv, H!Create
<1>1. UNCHANGED <<bound, control, rebinds, settings, signals, gate, shutdown, buffered,
                  toggles>>
  BY DEF H!Create
<1>2. portal.open <= seen.faults /\ seen.faults \in Nat /\ seen.restarts \in Nat /\ portal.open \in Nat
  BY <1>0 DEF HotkeyInv, H!OneSession, HotkeyTypes, Counters
<1>3. {"create", "wait", "list", "bind"} \subseteq Pc /\ "none" \in Goal
      /\ listener.goal \in Goal
  BY <1>0 DEF Pc, Goal, HotkeyTypes
<1>4. CASE /\ portal.up /\ session' = "live" /\ events' = << >>
           /\ portal' = [portal EXCEPT !.open = @ + 1]
           /\ H!Goto(IF listener.goal = "bind" THEN "bind" ELSE "list", listener.goal)
           /\ UNCHANGED <<menu, seen>>
  <2>1. /\ listener' \in [pc : Pc, goal : Goal, ready : BOOLEAN]
        /\ listener'.pc = (IF listener.goal = "bind" THEN "bind" ELSE "list")
    BY <1>0, <1>3, <1>4, GotoIs
  <2>2. /\ portal' \in [up : BOOLEAN, chord : BOOLEAN, open : Nat] /\ portal'.up
        /\ portal'.open = portal.open + 1 /\ portal'.chord = portal.chord
    BY <1>0, <1>4 DEF HotkeyTypes
  <2>3. events' \in Seq({"activated", "changed"})
    BY <1>4
  <2>4. HotkeyTypes'
    BY <1>0, <1>1, <1>4, <2>1, <2>2, <2>3 DEF HotkeyTypes
  <2>5. portal'.open >= 1 /\ portal'.open <= 1 + seen.faults
    BY <1>2, <2>2
  <2>6. SessionInv' /\ H!OneSession'
    BY <1>4, <2>1, <2>2, <2>5 DEF SessionInv, H!OneSession
  <2>7. MenuInv'
    BY <1>0, <1>4, <2>1 DEF HotkeyInv, MenuInv
  <2> QED
    BY <2>4, <2>6, <2>7 DEF HotkeyInv
<1>5. CASE /\ H!CallFails
           /\ \E kept \in {0} \union {n \in {1} : portal.up} :
                 portal' = [portal EXCEPT !.open = @ + kept]
           /\ menu' = "unavailable" /\ H!Goto("wait", "none")
           /\ UNCHANGED <<session, events>>
  <2>1. /\ listener' \in [pc : Pc, goal : Goal, ready : BOOLEAN] /\ listener'.pc = "wait"
    BY <1>0, <1>3, <1>5, GotoIs
  <2>2. /\ seen' \in Counters /\ seen'.restarts = seen.restarts
        /\ \/ ~portal.up /\ seen' = seen
           \/ seen'.faults = seen.faults + 1
    BY <1>0, <1>5, FailsIs
  <2>3. PICK kept \in {0, 1} : /\ portal' = [portal EXCEPT !.open = @ + kept]
                               /\ kept = 0 \/ portal.up
    BY <1>5
  <2>4. /\ portal' \in [up : BOOLEAN, chord : BOOLEAN, open : Nat]
        /\ portal'.open = portal.open + kept
    BY <1>0, <2>3 DEF HotkeyTypes
  <2>5. HotkeyTypes'
    BY <1>0, <1>1, <1>5, <2>1, <2>2, <2>4 DEF HotkeyTypes
  <2>6. portal'.open <= seen'.faults
    <3>1. CASE ~portal.up /\ seen' = seen
      BY <1>2, <2>3, <2>4, <3>1
    <3>2. CASE seen'.faults = seen.faults + 1
      BY <1>2, <2>4, <3>2
    <3> QED
      BY <2>2, <3>1, <3>2
  <2>7. H!OneSession'
    BY <1>0, <1>2, <1>5, <2>2, <2>6 DEF H!OneSession, Counters
  <2>8. SessionInv' /\ MenuInv'
    BY <1>0, <1>5, <2>1 DEF SessionInv, MenuInv
  <2> QED
    BY <2>5, <2>7, <2>8 DEF HotkeyInv
<1> QED
  BY <1>4, <1>5 DEF H!Create

LEMMA HotkeyList ==
    ASSUME HotkeyInv, H!List
    PROVE  HotkeyInv'
<1>0. HotkeyTypes /\ listener.pc = "list"
  BY DEF HotkeyInv, H!List
<1>1. /\ H!Goto("wait", "none")
      /\ UNCHANGED <<bound, control, rebinds, settings, signals, gate, shutdown, portal,
                     session, events, buffered, toggles>>
  BY DEF H!List
<1>2. listener' \in [pc : Pc, goal : Goal, ready : BOOLEAN] /\ listener'.pc = "wait"
  <2>1. "wait" \in Pc /\ "none" \in Goal
    BY DEF Pc, Goal
  <2> QED
    BY <1>0, <1>1, <2>1, GotoIs
<1>3. seen.faults \in Nat /\ portal.open \in Nat
  BY <1>0 DEF HotkeyTypes, Counters
<1>4. CASE /\ session = "live" /\ portal.up
           /\ menu' = IF portal.chord THEN "bound" ELSE "notBound"
           /\ UNCHANGED seen
  <2>1. HotkeyTypes'
    BY <1>0, <1>1, <1>2, <1>4 DEF HotkeyTypes
  <2>2. SessionInv' /\ MenuInv' /\ H!OneSession'
    BY <1>1, <1>2, <1>4 DEF HotkeyInv, SessionInv, MenuInv, H!OneSession
  <2> QED
    BY <2>1, <2>2 DEF HotkeyInv
<1>5. CASE /\ IF session = "live" THEN H!CallFails ELSE UNCHANGED seen
           /\ UNCHANGED menu
  <2>1. /\ seen' \in Counters /\ seen'.restarts = seen.restarts
        /\ \/ session # "live" /\ seen' = seen
           \/ seen'.faults = seen.faults + 1
    <3>1. CASE session = "live"
      <4>1. portal.up
        BY <3>1 DEF HotkeyInv, SessionInv
      <4> QED
        BY <1>0, <1>5, <3>1, <4>1, FailsIs
    <3>2. CASE session # "live"
      BY <1>0, <1>5, <3>2 DEF HotkeyTypes
    <3> QED
      BY <3>1, <3>2
  <2>2. HotkeyTypes'
    BY <1>0, <1>1, <1>2, <1>5, <2>1 DEF HotkeyTypes
  <2>3. SessionInv'
    BY <1>1, <1>2, <1>5, <2>1 DEF HotkeyInv, SessionInv
  <2>4. MenuInv'
    <3>1. CASE session # "live" /\ seen' = seen
      BY <1>0, <1>5, <3>1 DEF HotkeyInv, MenuInv
    <3>2. CASE seen'.faults = seen.faults + 1
      BY <1>3, <3>2 DEF MenuInv
    <3> QED
      BY <2>1, <3>1, <3>2
  <2>5. H!OneSession'
    BY <1>1, <1>3, <2>1 DEF HotkeyInv, H!OneSession
  <2> QED
    BY <2>2, <2>3, <2>4, <2>5 DEF HotkeyInv
<1> QED
  BY <1>4, <1>5 DEF H!List

LEMMA HotkeyBindEnds ==
    ASSUME HotkeyInv, H!BindEnds
    PROVE  HotkeyInv'
<1>0. HotkeyTypes /\ listener.pc = "bind"
  BY DEF HotkeyInv, H!BindEnds
<1>1. /\ H!Goto("wait", "none")
      /\ \/ /\ session = "live" /\ portal.up /\ menu' = "bound"
            /\ portal' = [portal EXCEPT !.chord = TRUE]
         \/ menu' = "unavailable" /\ UNCHANGED portal
      /\ UNCHANGED <<bound, control, rebinds, settings, signals, gate, shutdown, seen>>
      /\ UNCHANGED <<session, events, buffered, toggles>>
  BY DEF H!BindEnds, H!others
<1>2. listener' \in [pc : Pc, goal : Goal, ready : BOOLEAN] /\ listener'.pc = "wait"
  <2>1. "wait" \in Pc /\ "none" \in Goal
    BY DEF Pc, Goal
  <2> QED
    BY <1>0, <1>1, <2>1, GotoIs
<1>3. /\ portal' \in [up : BOOLEAN, chord : BOOLEAN, open : Nat]
      /\ portal'.open = portal.open /\ portal'.up = portal.up
      /\ menu' = "bound" => portal'.chord /\ session = "live"
  BY <1>0, <1>1 DEF HotkeyTypes
<1>4. HotkeyTypes'
  BY <1>0, <1>1, <1>2, <1>3 DEF HotkeyTypes
<1>5. SessionInv' /\ MenuInv' /\ H!OneSession'
  BY <1>1, <1>2, <1>3 DEF HotkeyInv, SessionInv, MenuInv, H!OneSession
<1> QED
  BY <1>4, <1>5 DEF HotkeyInv

(* A session that is closed, for another one or for good.                  *)
LEMMA HotkeyCloses ==
    ASSUME HotkeyInv, H!Close \/ H!TakeShutdown
    PROVE  HotkeyInv'
<1>0. HotkeyTypes
  BY DEF HotkeyInv
<1>1. /\ H!Goto("create", "recreate") \/ H!Goto("ended", "none")
      /\ listener.pc # "probe"
      /\ portal' = [portal EXCEPT !.open = IF session = "live" THEN @ - 1 ELSE @]
      /\ session' = "none" /\ events' = << >>
      /\ UNCHANGED <<bound, control, rebinds, settings, signals, gate, shutdown, seen>>
      /\ UNCHANGED <<buffered, menu, toggles>>
  BY DEF H!Close, H!TakeShutdown, H!others, H!Waiting
<1>2. /\ listener' \in [pc : Pc, goal : Goal, ready : BOOLEAN]
      /\ \/ listener'.pc = "create" /\ listener'.goal = "recreate"
         \/ listener'.pc = "ended"
  <2>1. {"create", "ended"} \subseteq Pc /\ {"none", "recreate"} \subseteq Goal
    BY DEF Pc, Goal
  <2> QED
    BY <1>0, <1>1, <2>1, GotoIs
<1>3. PICK n : n = IF session = "live" THEN portal.open - 1 ELSE portal.open
  OBVIOUS
<1>4. n \in Nat /\ n <= seen.faults
  BY <1>0, <1>3 DEF HotkeyInv, HotkeyTypes, Counters, SessionInv, H!OneSession
<1>5. /\ portal' \in [up : BOOLEAN, chord : BOOLEAN, open : Nat]
      /\ portal'.open = n /\ portal'.up = portal.up
  BY <1>0, <1>1, <1>3, <1>4 DEF HotkeyTypes
<1>6. events' \in Seq({"activated", "changed"})
  BY <1>1
<1>7. HotkeyTypes'
  BY <1>0, <1>1, <1>2, <1>5, <1>6 DEF HotkeyTypes
<1>8. SessionInv' /\ MenuInv'
  BY <1>1, <1>2 DEF SessionInv, MenuInv
<1>9. H!OneSession'
  <2>1. seen.faults \in Nat
    BY <1>0 DEF HotkeyTypes, Counters
  <2> QED
    BY <1>1, <1>4, <1>5, <2>1 DEF H!OneSession
<1> QED
  BY <1>7, <1>8, <1>9 DEF HotkeyInv

(* Steps that leave the portal, the session and the menu alone, from one   *)
(* phase of the listener to another in which as much is known.             *)
LEMMA HotkeyMoves ==
    ASSUME HotkeyInv, HotkeyTypes', UNCHANGED <<portal, session, menu, seen>>,
           session = "none" => events' = << >>,
           listener.pc # "probe", listener'.pc # "probe",
           listener'.pc = "create" => session = "none",
           seen.restarts = 0 /\ seen.faults = 0 /\ menu = "bound" =>
              /\ listener'.pc \in {"wait", "toggle", "bind", "list"} => session = "live"
              /\ listener'.pc = "create" => listener'.goal = "recreate",
           listener'.pc \in {"list", "close", "create", "ended"} \/ (Changed => Changed'),
           listener.pc \notin {"list", "close", "create", "ended"}
    PROVE  HotkeyInv'
<1>1. SessionInv' /\ H!OneSession'
  BY DEF HotkeyInv, SessionInv, H!OneSession
<1>2. MenuInv'
  BY DEF HotkeyInv, MenuInv
<1> QED
  BY <1>1, <1>2 DEF HotkeyInv

LEMMA HotkeyTakes ==
    ASSUME HotkeyInv,
           H!ToggleEnds \/ H!TakeGate \/ H!TakeBind \/ H!TakeRebind \/ H!TakeEvent
    PROVE  HotkeyInv'
<1>0. /\ HotkeyTypes /\ session \in {"none", "live", "dead"}
      /\ session = "none" => events = << >>
      /\ session = "dead" => seen.restarts # 0
      /\ seen.restarts = 0 /\ seen.faults = 0 /\ menu = "bound" =>
            /\ listener.pc \in {"wait", "toggle"} => session = "live"
  BY DEF HotkeyInv, HotkeyTypes, SessionInv, MenuInv, Counters
<1>1. /\ {"wait", "toggle", "create", "bind", "close", "list"} \subseteq Pc
      /\ {"none", "bind", "recreate", "refresh"} \subseteq Goal
  BY DEF Pc, Goal
<1>2. CASE H!ToggleEnds
  <2>1. /\ listener.pc = "toggle" /\ H!Goto("wait", "none")
        /\ UNCHANGED <<bound, control, rebinds, settings, signals, gate, shutdown, seen>>
        /\ UNCHANGED <<portal, session, events, buffered, menu, toggles>>
    BY <1>2 DEF H!ToggleEnds, H!others
  <2>2. listener' \in [pc : Pc, goal : Goal, ready : BOOLEAN] /\ listener'.pc = "wait"
    BY <1>0, <1>1, <2>1, GotoIs
  <2>3. HotkeyTypes'
    BY <1>0, <2>1, <2>2 DEF HotkeyTypes
  <2> QED
    BY <1>0, <2>1, <2>2, <2>3, HotkeyMoves DEF Changed
<1>3. CASE H!TakeGate
  <2>1. /\ listener.pc = "wait" /\ buffered' = FALSE
        /\ listener' \in [pc : {"toggle", "wait"}, goal : {"none"}, ready : {TRUE}]
        /\ UNCHANGED <<bound, control, rebinds, settings, signals, gate, shutdown, seen>>
        /\ UNCHANGED <<portal, session, events, menu>>
    BY <1>3 DEF H!TakeGate, H!others, H!Waiting
  <2>2. /\ listener' \in [pc : Pc, goal : Goal, ready : BOOLEAN]
        /\ listener'.pc \in {"wait", "toggle"}
    BY <1>1, <2>1
  <2>3. HotkeyTypes'
    BY <1>0, <2>1, <2>2 DEF HotkeyTypes
  <2> QED
    BY <1>0, <2>1, <2>2, <2>3, HotkeyMoves DEF Changed
<1>4. CASE H!TakeBind
  <2>1. /\ listener.pc = "wait" /\ control > 0 /\ control' = control - 1
        /\ H!Goto(IF session = "none" THEN "create" ELSE "bind", "bind")
        /\ UNCHANGED <<bound, portal, session, events, buffered, menu, rebinds, settings,
                       signals, gate, shutdown, toggles, seen>>
    BY <1>4 DEF H!TakeBind, H!NothingBefore, H!Waiting
  <2>2. /\ listener' \in [pc : Pc, goal : Goal, ready : BOOLEAN]
        /\ listener'.pc = IF session = "none" THEN "create" ELSE "bind"
    BY <1>0, <1>1, <2>1, GotoIs
  <2>3. control' \in 0 .. ControlCapacity
    BY <1>0, <2>1, DesktopAssumption DEF HotkeyTypes
  <2>4. HotkeyTypes'
    BY <1>0, <2>1, <2>2, <2>3 DEF HotkeyTypes
  <2> QED
    BY <1>0, <2>1, <2>2, <2>4, HotkeyMoves DEF Changed
<1>5. CASE H!TakeRebind
  <2>1. /\ listener.pc = "wait" /\ rebinds > 0 /\ rebinds' = rebinds - 1
        /\ H!Goto("close", "recreate")
        /\ UNCHANGED <<bound, portal, session, events, buffered, menu, control, settings,
                       signals, gate, shutdown, toggles, seen>>
    BY <1>5 DEF H!TakeRebind, H!NothingBefore, H!Waiting
  <2>2. listener' \in [pc : Pc, goal : Goal, ready : BOOLEAN] /\ listener'.pc = "close"
    BY <1>0, <1>1, <2>1, GotoIs
  <2>3. rebinds' \in 0 .. RebindCapacity
    BY <1>0, <2>1, DesktopAssumption DEF HotkeyTypes
  <2>4. HotkeyTypes'
    BY <1>0, <2>1, <2>2, <2>3 DEF HotkeyTypes
  <2> QED
    BY <1>0, <2>1, <2>2, <2>4, HotkeyMoves DEF Changed
<1>6. CASE H!TakeEvent
  <2>1. /\ listener.pc = "wait" /\ events # << >> /\ events' = Tail(events)
        /\ \/ Head(events) = "activated" /\ H!Goto("toggle", "none") /\ UNCHANGED buffered
           \/ Head(events) = "activated" /\ buffered' = TRUE /\ UNCHANGED listener
           \/ Head(events) = "changed" /\ H!Goto("list", "refresh") /\ UNCHANGED buffered
        /\ UNCHANGED <<bound, control, rebinds, settings, signals, gate, shutdown, seen>>
        /\ UNCHANGED <<portal, session, menu>>
    BY <1>6 DEF H!TakeEvent, H!NothingBefore, H!Waiting, H!others
  <2>2. /\ listener' \in [pc : Pc, goal : Goal, ready : BOOLEAN]
        /\ \/ listener'.pc \in {"wait", "toggle"} /\ Head(events) = "activated"
           \/ listener'.pc = "list"
    BY <1>0, <1>1, <2>1, GotoIs DEF HotkeyTypes
  <2>3. /\ events' \in Seq({"activated", "changed"})
        /\ Head(events) = "activated" => (Changed => Changed')
    <3>1. PICK q \in Seq({"activated", "changed"}) : q = events
      BY <1>0 DEF HotkeyTypes
    <3>2. /\ q # << >> /\ Head(q) = q[1] /\ Tail(q) \in Seq({"activated", "changed"})
          /\ \A i \in 1 .. Len(q) : i = 1 \/ /\ i - 1 \in 1 .. Len(Tail(q))
                                             /\ Tail(q)[i - 1] = q[i]
      BY <2>1, <3>1, EventsAre
    <3>3. ASSUME Head(q) = "activated", NEW i \in 1 .. Len(q), q[i] = "changed"
          PROVE  \E j \in 1 .. Len(Tail(q)) : Tail(q)[j] = "changed"
      <4>1. i # 1
        BY <3>2, <3>3
      <4> QED
        BY <3>2, <3>3, <4>1
    <3>4. Head(q) = "activated" => (Changed => Changed')
      BY <2>1, <3>1, <3>3 DEF Changed
    <3> QED
      BY <2>1, <3>1, <3>2, <3>4
  <2>4. HotkeyTypes'
    BY <1>0, <2>1, <2>2, <2>3 DEF HotkeyTypes
  <2> QED
    BY <1>0, <2>1, <2>2, <2>3, <2>4, HotkeyMoves
<1> QED
  BY <1>2, <1>3, <1>4, <1>5, <1>6

LEMMA HotkeyStep == HotkeyInv /\ [H!Next]_(H!vars) => HotkeyInv'
<1> SUFFICES ASSUME HotkeyInv, [H!Next]_(H!vars) PROVE HotkeyInv'
  OBVIOUS
<1>1. CASE H!Environment
  BY <1>1, HotkeyEnvironment
<1>2. CASE H!RebindEnds \/ H!EmitRebound \/ H!ForwardRebound
  BY <1>2, HotkeySettings
<1>3. CASE H!ListenerStep
  BY <1>3, HotkeyProbe, HotkeyCreate, HotkeyList, HotkeyBindEnds, HotkeyCloses,
     HotkeyTakes DEF H!ListenerStep
<1>4. CASE UNCHANGED H!vars
  <2>1. /\ HotkeyTypes' /\ (session = "none" => events' = << >>)
        /\ UNCHANGED <<portal, listener, session, events, menu, seen>>
    BY <1>4 DEF H!vars, HotkeyInv, HotkeyTypes, SessionInv
  <2> QED
    BY <2>1, HotkeyOthers DEF Changed
<1> QED
  BY <1>1, <1>2, <1>3, <1>4 DEF H!Next

LEMMA HotkeyInit == H!Init => HotkeyInv
<1> SUFFICES ASSUME H!Init PROVE HotkeyInv
  OBVIOUS
<1>1. HotkeyTypes
  <2>1. << >> \in Seq({"activated", "changed"}) /\ 0 \in 0 .. ControlCapacity
        /\ 0 \in 0 .. RebindCapacity
    BY DesktopAssumption
  <2>2. seen \in Counters
    BY DEF H!Init, Counters
  <2>3. listener \in [pc : Pc, goal : Goal, ready : BOOLEAN]
    BY DEF H!Init, Pc, Goal
  <2>4. portal \in [up : BOOLEAN, chord : BOOLEAN, open : Nat]
    BY DEF H!Init
  <2> QED
    BY <2>1, <2>2, <2>3, <2>4 DEF H!Init, HotkeyTypes
<1>2. SessionInv /\ MenuInv
  BY DEF H!Init, SessionInv, MenuInv
<1>3. H!OneSession
  BY DEF H!Init, H!OneSession
<1> QED
  BY <1>1, <1>2, <1>3 DEF HotkeyInv

LEMMA HotkeyKept == HotkeyInv => H!TypeOK /\ H!BoundIsHeard /\ H!OneSession
<1> SUFFICES ASSUME HotkeyInv PROVE H!TypeOK /\ H!BoundIsHeard
  BY DEF HotkeyInv
<1>1. H!TypeOK
  BY DEF HotkeyInv, HotkeyTypes, H!TypeOK, Pc
<1>2. H!BoundIsHeard
  <2> SUFFICES ASSUME H!Settled, menu = "bound", seen.restarts = 0, seen.faults = 0
               PROVE  portal.chord /\ session = "live"
    BY DEF H!BoundIsHeard
  <2>1. listener.pc = "wait" /\ Len(events) = 0
    BY DEF H!Settled, H!Waiting
  <2>2. ~Changed
    BY <2>1 DEF Changed
  <2> QED
    BY <2>1, <2>2 DEF HotkeyInv, MenuInv
<1> QED
  BY <1>1, <1>2

-----------------------------------------------------------------------------
(* One toggle *)

Path == {"status", "readIdle", "profile", "start", "starting", "started"}
Before == {"status", "readIdle", "readBusy", "profile", "start", "stop"}
TogglePc == {"idle", "status", "readIdle", "readBusy", "profile", "start", "starting",
             "started", "stop", "stopped", "failed"}
SessionPhase == {"none", "starting", "recording", "draining", "released", "ended"}
Outcome == {"none", "alreadyActive", "cooldown", "debounced", "draining", "error",
            "noProfile", "stopping", "started"}
Time == {G!Never} \union 0 .. MaxTime

ToggleTypes ==
    /\ clock \in 0 .. MaxTime
    /\ slot \in G!Session \union {None} /\ activeFile \in G!Session \union {None}
    /\ phase \in [G!Session -> SessionPhase] /\ lost \in BOOLEAN /\ profile \in BOOLEAN
    /\ pc \in [G!Toggler -> TogglePc] /\ arg \in [G!Toggler -> G!Session \union {None}]
    /\ debouncer \in [G!Toggler -> [accept : Time, stop : Time]]
    /\ calm \in [G!Toggler -> BOOLEAN] /\ stopAt \in Time /\ restarted \in BOOLEAN
    /\ outcome \in [G!Toggler -> Outcome]
    /\ \A t \in G!Toggler : pc[t] = "stop" => arg[t] \in G!Session

(* The newest session alone can hold the slot.                             *)
Holds(s) == phase[s] \in {"starting", "recording", "draining"}

DaemonInv ==
    /\ \A s \in G!Session : Holds(s) <=> slot = s
    /\ \A s, r \in G!Session : s < r /\ (phase[s] = "none" \/ Holds(s)) => phase[r] = "none"

(* As long as no session has removed the name of another, the file names   *)
(* the session that records or drains, or the newest one that did.         *)
FileInv ==
    ~lost =>
       /\ \A s \in G!Session : phase[s] \in {"recording", "draining"} => activeFile = s
       /\ activeFile # None => phase[activeFile] \in {"recording", "draining", "released"}
       /\ \A s \in G!Session : phase[s] = "released" =>
             activeFile = s \/ \E r \in G!Session : r > s /\ phase[r] # "none"

(* The cooldown is counted from the answer of the last stop.               *)
CooldownInv ==
    /\ ~restarted /\ stopAt <= clock
    /\ pc["tray"] # "stopped" => \/ stopAt = G!Never
                                 \/ /\ debouncer["tray"].stop # G!Never
                                    /\ stopAt <= debouncer["tray"].stop
    /\ pc["tray"] \in Path => \/ stopAt = G!Never
                              \/ debouncer["tray"].accept - stopAt >= Cooldown

(* What a toggle of a calm daemon has read is so while it is undisturbed.  *)
CalmInv ==
    \A t \in G!Toggler : calm[t] =>
       /\ pc[t] # "failed"
       /\ pc[t] \in Before => G!Calm /\ ~lost
       /\ pc[t] \in {"readIdle", "profile", "start"} => slot = None
       /\ pc[t] = "readBusy" => slot # None
       /\ pc[t] = "stop" => slot = arg[t]

ToggleInv == ToggleTypes /\ DaemonInv /\ FileInv /\ CooldownInv /\ CalmInv

LEMMA Names ==
    /\ None \notin G!Session /\ None \notin G!Toggler /\ "tray" \in G!Toggler
    /\ \A s \in G!Session : s \in Int
    /\ \A s \in G!Session, r \in G!Session : r < s => r \in 1 .. s - 1
    /\ MaxTime \in Nat /\ Cooldown \in Nat
BY DesktopAssumption DEF G!Session, G!Toggler

LEMMA ToggleInit == G!Init => ToggleInv
<1> SUFFICES ASSUME G!Init PROVE ToggleInv
  OBVIOUS
<1>0. G!Never \in Time /\ 0 \in 0 .. MaxTime
  BY DesktopAssumption DEF Time
<1>1. ToggleTypes
  <2>1. /\ pc \in [G!Toggler -> TogglePc] /\ outcome \in [G!Toggler -> Outcome]
        /\ phase \in [G!Session -> SessionPhase]
    BY DEF G!Init, TogglePc, SessionPhase, Outcome
  <2>2. debouncer \in [G!Toggler -> [accept : Time, stop : Time]]
    BY <1>0 DEF G!Init
  <2> QED
    BY <1>0, <2>1, <2>2 DEF G!Init, ToggleTypes
<1>2. DaemonInv /\ FileInv
  BY Names DEF G!Init, DaemonInv, FileInv, Holds
<1>3. CooldownInv
  BY DEF G!Init, CooldownInv, G!Never, Path
<1>4. CalmInv
  BY DEF G!Init, CalmInv
<1> QED
  BY <1>1, <1>2, <1>3, <1>4 DEF ToggleInv

(* A step of one toggle that reads, decides or ends.                       *)
LEMMA ToggleMoves ==
    ASSUME ToggleInv, NEW t \in G!Toggler, NEW p \in TogglePc \ {"stop", "stopped"},
           UNCHANGED <<clock, slot, phase, activeFile, lost, profile, arg, debouncer,
                       stopAt, restarted>>,
           pc[t] # "stopped", pc' = [pc EXCEPT ![t] = p], p \in Path => pc[t] \in Path,
           outcome' \in [G!Toggler -> Outcome], calm' \in [G!Toggler -> BOOLEAN],
           \A u \in G!Toggler : calm'[u] => calm[u],
           calm'[t] => /\ p # "failed" /\ (p \in Before => pc[t] \in Before)
                       /\ p \in {"readIdle", "profile", "start"} => slot = None
                       /\ p = "readBusy" => slot # None
    PROVE  ToggleInv'
<1>0. /\ ToggleTypes /\ CooldownInv /\ CalmInv
      /\ pc'[t] = p /\ \A u \in G!Toggler \ {t} : pc'[u] = pc[u]
      /\ pc' \in [G!Toggler -> TogglePc]
  BY DEF ToggleInv, ToggleTypes
<1>1. ToggleTypes'
  BY <1>0 DEF ToggleTypes
<1>2. DaemonInv' /\ FileInv'
  BY DEF ToggleInv, DaemonInv, FileInv, Holds
<1>3. CooldownInv'
  BY <1>0, Names DEF CooldownInv
<1>4. CalmInv'
  <2>1. G!Calm' = G!Calm
    BY DEF G!Calm
  <2> QED
    BY <1>0, <2>1 DEF CalmInv
<1> QED
  BY <1>1, <1>2, <1>3, <1>4 DEF ToggleInv

LEMMA ToggleReads ==
    ASSUME ToggleInv, NEW t \in G!Toggler,
           G!GetStatus(t) \/ G!ReadWhenIdle(t) \/ G!GetActive(t) \/ G!Failed(t)
    PROVE  ToggleInv'
<1>0. /\ ToggleTypes /\ pc[t] \in TogglePc
      /\ calm[t] /\ pc[t] \in {"readIdle", "profile", "start"} => slot = None
  BY DEF ToggleInv, ToggleTypes, CalmInv
<1>1. /\ UNCHANGED <<clock, slot, phase, activeFile, lost, profile, arg, debouncer, calm,
                     stopAt, restarted>>
      /\ outcome' \in [G!Toggler -> Outcome] /\ calm' \in [G!Toggler -> BOOLEAN]
  BY <1>0 DEF G!GetStatus, G!ReadWhenIdle, G!GetActive, G!Failed, G!Finish, G!daemonVars,
     G!history, ToggleTypes, Outcome
<1>2. PICK p \in {"readIdle", "readBusy", "profile", "start", "idle"} :
         /\ pc' = [pc EXCEPT ![t] = p]
         /\ \/ pc[t] = "status" /\ p = IF slot = None THEN "readIdle" ELSE "readBusy"
            \/ pc[t] = "readIdle" /\ p \in {"idle", "profile"}
            \/ pc[t] = "profile" /\ p \in {"idle", "start"}
            \/ pc[t] = "failed" /\ p = "idle"
  BY DEF G!GetStatus, G!ReadWhenIdle, G!GetActive, G!Failed, G!Finish
<1>3. /\ pc[t] # "stopped" /\ p \in TogglePc \ {"stop", "stopped"}
      /\ p \in Path => pc[t] \in Path
      /\ p # "failed" /\ (p \in Before => pc[t] \in Before)
  BY <1>2 DEF TogglePc, Path, Before
<1>4. calm[t] => /\ p \in {"readIdle", "profile", "start"} => slot = None
                 /\ p = "readBusy" => slot # None
  BY <1>0, <1>2
<1> QED
  BY <1>1, <1>2, <1>3, <1>4, ToggleMoves

LEMMA ToggleStarted ==
    ASSUME ToggleInv, NEW t \in G!Toggler, G!Started(t)
    PROVE  ToggleInv'
<1>0. ToggleTypes /\ CooldownInv
  BY DEF ToggleInv
<1>1. /\ pc[t] = "started" /\ pc' = [pc EXCEPT ![t] = "idle"]
      /\ UNCHANGED <<clock, slot, phase, activeFile, lost, profile, arg, debouncer, calm,
                     stopAt>>
      /\ outcome' \in [G!Toggler -> Outcome] /\ calm' \in [G!Toggler -> BOOLEAN]
      /\ restarted' = \/ restarted
                      \/ /\ t = "tray" /\ stopAt # G!Never
                         /\ debouncer[t].accept - stopAt < Cooldown
  BY <1>0 DEF G!Started, G!Finish, G!daemonVars, ToggleTypes, Outcome
<1>2. debouncer["tray"].accept \in Int /\ stopAt \in Int /\ Cooldown \in Int
  <2>1. /\ debouncer["tray"] \in [accept : Time, stop : Time] /\ stopAt \in Time
    BY <1>0, Names DEF ToggleTypes
  <2> QED
    BY <2>1, Names DEF Time, G!Never
<1>3. t = "tray" => stopAt = G!Never \/ ~(debouncer[t].accept - stopAt < Cooldown)
  <2> SUFFICES ASSUME t = "tray"
               PROVE  stopAt = G!Never \/ ~(debouncer["tray"].accept - stopAt < Cooldown)
    OBVIOUS
  <2>1. "started" \in Path
    BY DEF Path
  <2>2. stopAt = G!Never \/ debouncer["tray"].accept - stopAt >= Cooldown
    BY <1>0, <1>1, <2>1 DEF CooldownInv
  <2> QED
    BY <1>2, <2>2
<1>4. restarted' = restarted
  <2>1. restarted = FALSE
    BY <1>0 DEF ToggleTypes, CooldownInv
  <2>2. restarted' = FALSE
    BY <1>1, <1>3, <2>1
  <2> QED
    BY <2>1, <2>2
<1>5. "idle" \in TogglePc \ {"stop", "stopped"} /\ "idle" \notin Path /\ "idle" \notin Before
  BY DEF TogglePc, Path, Before
<1> QED
  BY <1>1, <1>4, <1>5, ToggleMoves

(* The session that a toggle reads is the one that records, when it is     *)
(* undisturbed.                                                            *)
LEMMA CalmReadsSlot ==
    ASSUME ToggleInv, NEW t \in G!Toggler, calm[t], pc[t] = "readBusy"
    PROVE  activeFile = slot /\ slot # None
<1>1. slot \in G!Session /\ G!Calm /\ ~lost
  BY DEF ToggleInv, ToggleTypes, CalmInv, Before
<1>2. phase[slot] = "recording"
  BY <1>1 DEF ToggleInv, DaemonInv, Holds, G!Calm
<1> QED
  BY <1>1, <1>2, Names DEF ToggleInv, FileInv

LEMMA CalmReadsNone ==
    ASSUME ToggleInv, NEW t \in G!Toggler, calm[t], pc[t] = "readIdle"
    PROVE  activeFile = None
<1>1. slot = None /\ G!Calm /\ ~lost /\ activeFile \in G!Session \union {None}
  BY DEF ToggleInv, ToggleTypes, CalmInv, Before
<1> SUFFICES ASSUME activeFile # None PROVE FALSE
  OBVIOUS
<1>2. phase[activeFile] = "recording" /\ activeFile \in G!Session
  BY <1>1 DEF ToggleInv, FileInv, G!Calm
<1> QED
  BY <1>1, <1>2 DEF ToggleInv, DaemonInv, Holds

LEMMA ToggleReadsBusy ==
    ASSUME ToggleInv, NEW t \in G!Toggler, G!ReadWhenBusy(t)
    PROVE  ToggleInv'
<1>0. ToggleTypes /\ CooldownInv /\ CalmInv
  BY DEF ToggleInv
<1>1. /\ pc[t] = "readBusy" /\ arg' = [arg EXCEPT ![t] = activeFile]
      /\ UNCHANGED <<clock, slot, phase, activeFile, lost, profile, debouncer, calm,
                     stopAt, restarted>>
      /\ outcome' \in [G!Toggler -> Outcome]
  BY <1>0 DEF G!ReadWhenBusy, G!Finish, G!daemonVars, G!history, ToggleTypes, Outcome
<1>2. PICK p \in {"idle", "stop"} : /\ pc' = [pc EXCEPT ![t] = p]
                                    /\ p = "stop" => activeFile # None
  BY DEF G!ReadWhenBusy, G!Finish
<1>3. /\ pc' \in [G!Toggler -> TogglePc] /\ arg' \in [G!Toggler -> G!Session \union {None}]
      /\ pc'[t] = p /\ arg'[t] = activeFile
      /\ \A u \in G!Toggler \ {t} : pc'[u] = pc[u] /\ arg'[u] = arg[u]
  BY <1>0, <1>1, <1>2 DEF ToggleTypes, TogglePc
<1>4. ToggleTypes'
  BY <1>0, <1>1, <1>2, <1>3 DEF ToggleTypes
<1>5. DaemonInv' /\ FileInv'
  BY <1>1 DEF ToggleInv, DaemonInv, FileInv, Holds
<1>6. CooldownInv'
  <2>1. "idle" \notin Path /\ "stop" \notin Path /\ pc[t] # "stopped"
    BY <1>1 DEF Path
  <2> QED
    BY <1>0, <1>1, <1>3, <2>1, Names DEF CooldownInv
<1>7. CalmInv'
  <2>1. G!Calm' = G!Calm
    BY <1>1 DEF G!Calm
  <2>2. ASSUME NEW u \in G!Toggler \ {t}, calm[u]
        PROVE  /\ pc'[u] # "failed"
               /\ pc'[u] \in Before => G!Calm' /\ ~lost'
               /\ pc'[u] \in {"readIdle", "profile", "start"} => slot' = None
               /\ pc'[u] = "readBusy" => slot' # None
               /\ pc'[u] = "stop" => slot' = arg'[u]
    BY <1>0, <1>1, <1>3, <2>1, <2>2 DEF CalmInv
  <2>3. ASSUME calm[t]
        PROVE  G!Calm /\ ~lost /\ slot = activeFile
    <3>1. "readBusy" \in Before
      BY DEF Before
    <3> QED
      BY <1>0, <1>1, <2>3, <3>1, CalmReadsSlot DEF CalmInv
  <2> QED
    BY <1>1, <1>2, <1>3, <2>1, <2>2, <2>3 DEF CalmInv
<1> QED
  BY <1>4, <1>5, <1>6, <1>7 DEF ToggleInv

LEMMA TickKeeps ==
    ASSUME ToggleInv, G!Tick
    PROVE  ToggleInv'
<1>0. /\ clock' = clock + 1 /\ clock < MaxTime /\ ToggleTypes /\ CooldownInv
      /\ UNCHANGED <<slot, phase, activeFile, lost, profile, pc, arg, debouncer, outcome,
                     calm, stopAt, restarted>>
  BY DEF G!Tick, G!daemonVars, G!toggleVars, G!history, ToggleInv
<1>1. clock' \in 0 .. MaxTime /\ stopAt' <= clock'
  <2>1. clock \in 0 .. MaxTime /\ stopAt \in Time /\ stopAt <= clock
    BY <1>0 DEF ToggleTypes, CooldownInv
  <2> QED
    BY <1>0, <2>1, Names DEF Time, G!Never
<1>2. ToggleTypes'
  BY <1>0, <1>1 DEF ToggleTypes
<1>3. DaemonInv' /\ FileInv'
  BY <1>0 DEF ToggleInv, DaemonInv, FileInv, Holds
<1>4. CooldownInv'
  BY <1>0, <1>1 DEF CooldownInv
<1>5. CalmInv'
  BY <1>0 DEF ToggleInv, CalmInv, G!Calm
<1> QED
  BY <1>2, <1>3, <1>4, <1>5 DEF ToggleInv

(* The times of a debouncer are numbers.                                   *)
LEMMA DebouncerIs ==
    ASSUME ToggleTypes, NEW t \in G!Toggler
    PROVE  /\ debouncer[t] \in [accept : Time, stop : Time]
           /\ debouncer[t].accept \in Int /\ debouncer[t].stop \in Int
           /\ clock \in Time /\ clock \in Nat /\ clock # G!Never /\ stopAt \in Int
           /\ Cooldown \in Int
<1>1. /\ debouncer[t] \in [accept : Time, stop : Time] /\ stopAt \in Time
      /\ clock \in 0 .. MaxTime
  BY DEF ToggleTypes
<1>2. Time \subseteq Int
  BY DEF Time, G!Never
<1> QED
  BY <1>1, <1>2, Names DEF Time, G!Never

LEMMA ToggleStopped ==
    ASSUME ToggleInv, NEW t \in G!Toggler, G!Stopped(t)
    PROVE  ToggleInv'
<1>0. ToggleTypes /\ CooldownInv /\ CalmInv
  BY DEF ToggleInv
<1>1. /\ pc[t] = "stopped" /\ pc' = [pc EXCEPT ![t] = "idle"]
      /\ debouncer' = [debouncer EXCEPT ![t].stop = clock]
      /\ UNCHANGED <<clock, slot, phase, activeFile, lost, profile, arg, calm, stopAt,
                     restarted>>
      /\ outcome' \in [G!Toggler -> Outcome]
  BY <1>0 DEF G!Stopped, G!Finish, G!daemonVars, G!history, ToggleTypes, Outcome
<1>2. /\ pc' \in [G!Toggler -> TogglePc] /\ pc'[t] = "idle"
      /\ \A u \in G!Toggler \ {t} : pc'[u] = pc[u]
  BY <1>0, <1>1 DEF ToggleTypes, TogglePc
<1>3. /\ debouncer' \in [G!Toggler -> [accept : Time, stop : Time]]
      /\ debouncer'[t].stop = clock
      /\ \A u \in G!Toggler \ {t} : debouncer'[u] = debouncer[u]
  BY <1>0, <1>1, DebouncerIs DEF ToggleTypes
<1>4. ToggleTypes'
  BY <1>0, <1>1, <1>2, <1>3 DEF ToggleTypes
<1>5. DaemonInv' /\ FileInv'
  BY <1>1 DEF ToggleInv, DaemonInv, FileInv, Holds
<1>6. CooldownInv'
  <2>1. "idle" \notin Path /\ clock # G!Never
    BY <1>0, Names, DebouncerIs DEF Path
  <2> QED
    BY <1>0, <1>1, <1>2, <1>3, <2>1, Names DEF CooldownInv
<1>7. CalmInv'
  <2>1. G!Calm' = G!Calm /\ "idle" \notin Before
    BY <1>1 DEF G!Calm, Before
  <2> QED
    BY <1>0, <1>1, <1>2, <2>1 DEF CalmInv
<1> QED
  BY <1>4, <1>5, <1>6, <1>7 DEF ToggleInv

LEMMA TogglePress ==
    ASSUME ToggleInv, NEW t \in G!Toggler, G!Press(t)
    PROVE  ToggleInv'
<1>0. ToggleTypes /\ CooldownInv /\ CalmInv
  BY DEF ToggleInv
<1>1. /\ pc[t] = "idle"
      /\ UNCHANGED <<clock, slot, phase, activeFile, lost, profile, arg, stopAt, restarted>>
  BY DEF G!Press, G!daemonVars
<1>2. CASE /\ \E o \in {"cooldown", "debounced"} : G!Finish(t, o)
           /\ UNCHANGED <<debouncer, calm>>
  <2>1. /\ pc' = [pc EXCEPT ![t] = "idle"] /\ outcome' \in [G!Toggler -> Outcome]
        /\ calm' \in [G!Toggler -> BOOLEAN]
    BY <1>0, <1>2 DEF G!Finish, ToggleTypes, Outcome
  <2>2. "idle" \in TogglePc \ {"stop", "stopped"} /\ "idle" \notin Path /\ "idle" \notin Before
    BY DEF TogglePc, Path, Before
  <2> QED
    BY <1>1, <1>2, <2>1, <2>2, ToggleMoves
<1>3. CASE /\ ~G!Within(debouncer[t].stop, Cooldown)
           /\ debouncer' = [debouncer EXCEPT ![t].accept = clock]
           /\ pc' = [pc EXCEPT ![t] = "status"]
           /\ calm' = [calm EXCEPT ![t] = G!Calm /\ ~lost]
           /\ UNCHANGED outcome
  <2>1. /\ pc' \in [G!Toggler -> TogglePc] /\ pc'[t] = "status"
        /\ \A u \in G!Toggler \ {t} : pc'[u] = pc[u]
    BY <1>0, <1>3 DEF ToggleTypes, TogglePc
  <2>2. /\ debouncer' \in [G!Toggler -> [accept : Time, stop : Time]]
        /\ debouncer'[t].accept = clock /\ debouncer'[t].stop = debouncer[t].stop
        /\ \A u \in G!Toggler \ {t} : debouncer'[u] = debouncer[u]
    BY <1>0, <1>3, DebouncerIs DEF ToggleTypes
  <2>3. /\ calm' \in [G!Toggler -> BOOLEAN] /\ (calm'[t] => G!Calm /\ ~lost)
        /\ \A u \in G!Toggler \ {t} : calm'[u] = calm[u]
    <3>1. PICK c \in BOOLEAN : c = (G!Calm /\ ~lost)
      BY DEF G!Calm
    <3>2. calm' = [calm EXCEPT ![t] = c]
      BY <1>3, <3>1
    <3> QED
      BY <1>0, <3>1, <3>2 DEF ToggleTypes
  <2>4. ToggleTypes'
    BY <1>0, <1>1, <1>3, <2>1, <2>2, <2>3 DEF ToggleTypes
  <2>5. DaemonInv' /\ FileInv'
    BY <1>1 DEF ToggleInv, DaemonInv, FileInv, Holds
  <2>6. CooldownInv'
    <3>1. CASE t = "tray"
      <4>1. \/ stopAt = G!Never
            \/ debouncer[t].stop # G!Never /\ stopAt <= debouncer[t].stop
        BY <1>0, <1>1, <3>1 DEF CooldownInv
      <4>2. debouncer[t].stop = G!Never \/ ~(clock - debouncer[t].stop < Cooldown)
        BY <1>3 DEF G!Within
      <4>3. stopAt = G!Never \/ clock - stopAt >= Cooldown
        BY <1>0, <4>1, <4>2, DebouncerIs
      <4> QED
        BY <1>0, <1>1, <2>1, <2>2, <3>1, <4>1, <4>3 DEF CooldownInv
    <3>2. CASE t # "tray"
      BY <1>0, <1>1, <2>1, <2>2, <3>2, Names DEF CooldownInv
    <3> QED
      BY <3>1, <3>2
  <2>7. CalmInv'
    <3>1. G!Calm' = G!Calm
      BY <1>1 DEF G!Calm
    <3> QED
      BY <1>0, <1>1, <2>1, <2>3, <3>1 DEF CalmInv
  <2> QED
    BY <2>4, <2>5, <2>6, <2>7 DEF ToggleInv
<1> QED
  BY <1>2, <1>3 DEF G!Press

-----------------------------------------------------------------------------
(* The steps of the daemon.                                                *)

(* A step of the daemon that leaves no other toggle undisturbed.           *)
LEMMA DaemonMoves ==
    ASSUME ToggleInv, ToggleTypes', DaemonInv', FileInv',
           UNCHANGED <<clock, debouncer, restarted>>,
           stopAt' = stopAt \/ (stopAt' = clock /\ pc'["tray"] = "stopped"),
           pc'["tray"] # "stopped" => pc["tray"] # "stopped",
           pc'["tray"] \in Path => pc["tray"] \in Path,
           \A u \in G!Toggler : calm'[u] => pc'[u] \in {"starting", "started", "stopped"}
    PROVE  ToggleInv'
<1>1. CooldownInv'
  <2>1. CooldownInv /\ clock <= clock /\ "stopped" \notin Path
    BY DebouncerIs, Names DEF ToggleInv, Path
  <2> QED
    BY <2>1 DEF CooldownInv
<1>2. CalmInv'
  <2>1. ASSUME NEW u \in G!Toggler, calm'[u]
        PROVE  pc'[u] \in {"starting", "started", "stopped"} \ Before
    BY <2>1 DEF Before
  <2>2. \A x \in {"starting", "started", "stopped"} \ Before :
           x \notin {"failed", "readIdle", "readBusy", "profile", "start", "stop"}
    OBVIOUS
  <2>3. \A u \in G!Toggler : calm'[u] =>
           /\ pc'[u] \notin Before /\ pc'[u] # "failed" /\ pc'[u] # "readBusy"
           /\ pc'[u] \notin {"readIdle", "profile", "start"} /\ pc'[u] # "stop"
    BY <2>1, <2>2
  <2> QED
    BY <2>3 DEF CalmInv
<1> QED
  BY <1>1, <1>2 DEF ToggleInv

LEMMA ToggleStartCall ==
    ASSUME ToggleInv, NEW t \in G!Toggler, G!StartCall(t)
    PROVE  ToggleInv'
<1>0. ToggleTypes /\ DaemonInv /\ FileInv /\ CooldownInv
  BY DEF ToggleInv
<1>1. /\ pc[t] = "start"
      /\ UNCHANGED <<clock, activeFile, lost, profile, debouncer, stopAt, restarted>>
  BY DEF G!StartCall
<1>2. CASE /\ slot = None
           /\ \E s \in G!Session :
                 /\ phase[s] = "none" /\ \A r \in 1 .. s - 1 : phase[r] # "none"
                 /\ slot' = s
                 /\ phase' = [phase EXCEPT ![s] = "starting"]
                 /\ arg' = [arg EXCEPT ![t] = s]
           /\ pc' = [pc EXCEPT ![t] = "starting"]
           /\ G!Disturbs(t)
           /\ UNCHANGED outcome
  <2>1. PICK s \in G!Session : /\ phase[s] = "none"
                               /\ \A r \in 1 .. s - 1 : phase[r] # "none"
                               /\ slot' = s
                               /\ phase' = [phase EXCEPT ![s] = "starting"]
                               /\ arg' = [arg EXCEPT ![t] = s]
    BY <1>2
  <2>2. /\ phase' \in [G!Session -> SessionPhase] /\ phase'[s] = "starting"
        /\ \A r \in G!Session \ {s} : phase'[r] = phase[r]
    BY <1>0, <2>1 DEF ToggleTypes, SessionPhase
  <2>3. /\ pc' \in [G!Toggler -> TogglePc] /\ pc'[t] = "starting"
        /\ \A u \in G!Toggler \ {t} : pc'[u] = pc[u]
    BY <1>0, <1>2 DEF ToggleTypes, TogglePc
  <2>4. /\ arg' \in [G!Toggler -> G!Session \union {None}]
        /\ \A u \in G!Toggler \ {t} : arg'[u] = arg[u]
    BY <1>0, <2>1 DEF ToggleTypes
  <2>5. /\ calm' \in [G!Toggler -> BOOLEAN]
        /\ \A u \in G!Toggler : calm'[u] => u = t
    BY <1>0, <1>2 DEF G!Disturbs, ToggleTypes
  <2>6. ToggleTypes'
    BY <1>0, <1>1, <1>2, <2>1, <2>2, <2>3, <2>4, <2>5 DEF ToggleTypes
  <2>7. DaemonInv'
    <3>1. \A x \in G!Session : Holds(x)' <=> slot' = x
      BY <1>0, <1>2, <2>1, <2>2, Names DEF DaemonInv, Holds
    <3>2. ASSUME NEW x \in G!Session, NEW r \in G!Session, x < r,
                 phase'[x] = "none" \/ slot' = x
          PROVE  phase'[r] = "none"
      <4>1. r # s
        <5>1. x < s => x \in 1 .. s - 1
          BY Names
        <5>2. x < s => phase[x] # "none" /\ x # s
          BY <2>1, <5>1, Names
        <5> QED
          BY <2>1, <2>2, <3>2, <5>2
      <4>2. phase[x] = "none"
        BY <2>1, <2>2, <3>2
      <4> QED
        BY <1>0, <2>2, <3>2, <4>1, <4>2 DEF DaemonInv
    <3> QED
      BY <3>1, <3>2 DEF DaemonInv
  <2>8. FileInv'
    BY <1>0, <1>1, <2>1, <2>2 DEF FileInv, ToggleTypes
  <2>9. "starting" \in Path /\ "start" \in Path
    BY DEF Path
  <2> QED
    BY <1>1, <2>3, <2>5, <2>6, <2>7, <2>8, <2>9, Names, DaemonMoves
<1>3. CASE /\ \/ pc' = [pc EXCEPT ![t] = "idle"] /\ UNCHANGED calm
              \/ pc' = [pc EXCEPT ![t] = "failed"] /\ calm' = [calm EXCEPT ![t] = FALSE]
           /\ outcome' \in {outcome, [outcome EXCEPT ![t] = "alreadyActive"]}
           /\ UNCHANGED <<slot, phase, arg>>
  <2>1. PICK p \in {"idle", "failed"} : /\ pc' = [pc EXCEPT ![t] = p]
                                        /\ p = "failed" => calm' = [calm EXCEPT ![t] = FALSE]
                                        /\ p = "idle" => calm' = calm
    BY <1>3
  <2>2. /\ calm' \in [G!Toggler -> BOOLEAN] /\ outcome' \in [G!Toggler -> Outcome]
        /\ \A u \in G!Toggler : calm'[u] => calm[u]
        /\ calm'[t] => p # "failed"
    BY <1>0, <1>3, <2>1 DEF ToggleTypes, Outcome
  <2>3. /\ p \in TogglePc \ {"stop", "stopped"} /\ p \notin Path
        /\ p \notin {"readIdle", "profile", "start", "readBusy"} /\ p \notin Before
    BY DEF TogglePc, Path, Before
  <2> QED
    BY <1>1, <1>3, <2>1, <2>2, <2>3, ToggleMoves
<1> QED
  BY <1>2, <1>3 DEF G!StartCall

LEMMA ToggleStartEnds ==
    ASSUME ToggleInv, NEW s \in G!Session, NEW ok \in BOOLEAN, G!StartEnds(s, ok)
    PROVE  ToggleInv'
<1>0. ToggleTypes /\ DaemonInv /\ FileInv
  BY DEF ToggleInv
<1>1. /\ phase[s] = "starting" /\ slot = s
      /\ phase' = [phase EXCEPT ![s] = IF ok THEN "recording" ELSE "ended"]
      /\ slot' = (IF ok THEN slot ELSE None)
      /\ activeFile' = IF ok THEN s ELSE activeFile
      /\ UNCHANGED <<clock, lost, profile, arg, debouncer, outcome, stopAt, restarted>>
  BY <1>0 DEF G!StartEnds, DaemonInv, Holds
<1>2. /\ phase' \in [G!Session -> SessionPhase]
      /\ phase'[s] = (IF ok THEN "recording" ELSE "ended")
      /\ \A r \in G!Session \ {s} : phase'[r] = phase[r]
  BY <1>0, <1>1 DEF ToggleTypes, SessionPhase
<1>3. /\ pc' \in [G!Toggler -> TogglePc] /\ calm' \in [G!Toggler -> BOOLEAN]
      /\ \A u \in G!Toggler :
            /\ pc'[u] \in {pc[u]} \/ (pc[u] = "starting" /\ pc'[u] \in {"started", "failed"})
            /\ calm'[u] => pc'[u] = "started"
  <2>1. /\ pc' = [u \in G!Toggler |->
                    IF pc[u] = "starting" /\ arg[u] = s
                    THEN IF ok THEN "started" ELSE "failed" ELSE pc[u]]
        /\ calm' = [u \in G!Toggler |-> calm[u] /\ ok /\ pc[u] = "starting" /\ arg[u] = s]
    BY DEF G!StartEnds
  <2>2. \A u \in G!Toggler : calm[u] \in BOOLEAN /\ pc[u] \in TogglePc
    BY <1>0 DEF ToggleTypes
  <2>3. pc' \in [G!Toggler -> TogglePc]
    BY <2>1, <2>2 DEF TogglePc
  <2>4. calm' \in [G!Toggler -> BOOLEAN]
    BY <2>1, <2>2
  <2>5. \A u \in G!Toggler :
            /\ pc'[u] \in {pc[u]} \/ (pc[u] = "starting" /\ pc'[u] \in {"started", "failed"})
            /\ calm'[u] => pc'[u] = "started"
    BY <2>1, <2>2
  <2> QED
    BY <2>3, <2>4, <2>5
<1>4. ToggleTypes'
  BY <1>0, <1>1, <1>2, <1>3 DEF ToggleTypes
<1>5. DaemonInv'
  <2>1. \A x \in G!Session : Holds(x)' <=> slot' = x
    BY <1>0, <1>1, <1>2, Names DEF DaemonInv, Holds
  <2>2. ASSUME NEW x \in G!Session, NEW r \in G!Session, x < r,
               phase'[x] = "none" \/ slot' = x
        PROVE  phase'[r] = "none"
    <3>1. phase[x] = "none" \/ Holds(x)
      BY <1>0, <1>1, <1>2, <2>2, Names DEF Holds
    <3>2. phase[r] = "none"
      BY <1>0, <2>2, <3>1 DEF DaemonInv
    <3> QED
      BY <1>1, <1>2, <3>2
  <2> QED
    BY <2>1, <2>2 DEF DaemonInv
<1>6. FileInv'
  <2> SUFFICES ASSUME ~lost PROVE FileInv'
    BY <1>1 DEF FileInv
  <2>1. \A x \in G!Session : phase[x] \in {"recording", "draining"} => x = s
    BY <1>0, <1>1 DEF DaemonInv, Holds
  <2>2. \A x \in G!Session \ {s} : phase[x] = "released" => x < s
    <3>1. ASSUME NEW x \in G!Session, s < x
          PROVE  phase[x] = "none"
      BY <1>0, <1>1, <3>1 DEF DaemonInv, Holds
    <3> QED
      BY <3>1, Names
  <2>3. CASE ok
    BY <1>1, <1>2, <2>1, <2>2, <2>3 DEF FileInv
  <2>4. CASE ~ok
    BY <1>0, <1>1, <1>2, <2>1, <2>4 DEF FileInv, ToggleTypes
  <2> QED
    BY <2>3, <2>4
<1>7. /\ pc'["tray"] # "stopped" => pc["tray"] # "stopped"
      /\ pc'["tray"] \in Path => pc["tray"] \in Path
  BY <1>3, Names DEF Path
<1> QED
  BY <1>1, <1>3, <1>4, <1>5, <1>6, <1>7, DaemonMoves

(* Steps that move a session on and keep the order of the sessions.        *)
LEMMA ToggleStopCall ==
    ASSUME ToggleInv, NEW t \in G!Toggler, G!StopCall(t)
    PROVE  ToggleInv'
<1>0. ToggleTypes /\ DaemonInv /\ FileInv /\ CalmInv
  BY DEF ToggleInv
<1>1. /\ pc[t] = "stop" /\ arg[t] \in G!Session
      /\ UNCHANGED <<clock, slot, activeFile, lost, profile, arg, debouncer, outcome,
                     restarted>>
  BY <1>0 DEF G!StopCall, ToggleTypes
<1>2. CASE slot = arg[t] /\ phase[arg[t]] # "starting"
  <2>1. /\ phase[arg[t]] \in {"recording", "draining"}
        /\ phase' = [phase EXCEPT ![arg[t]] = "draining"]
        /\ pc' = [pc EXCEPT ![t] = "stopped"] /\ G!Disturbs(t)
        /\ stopAt' = IF t = "tray" THEN clock ELSE stopAt
    <3>1. phase[arg[t]] \in {"recording", "draining"}
      BY <1>0, <1>1, <1>2 DEF DaemonInv, Holds
    <3> QED
      BY <1>2, <3>1 DEF G!StopCall
  <2>2. /\ phase' \in [G!Session -> SessionPhase] /\ phase'[arg[t]] = "draining"
        /\ \A r \in G!Session \ {arg[t]} : phase'[r] = phase[r]
    BY <1>0, <1>1, <2>1 DEF ToggleTypes, SessionPhase
  <2>3. /\ pc' \in [G!Toggler -> TogglePc] /\ pc'[t] = "stopped"
        /\ \A u \in G!Toggler \ {t} : pc'[u] = pc[u]
    BY <1>0, <2>1 DEF ToggleTypes, TogglePc
  <2>4. /\ calm' \in [G!Toggler -> BOOLEAN]
        /\ \A u \in G!Toggler : calm'[u] => u = t
    BY <1>0, <2>1 DEF G!Disturbs, ToggleTypes
  <2>5. stopAt' \in Time
    BY <1>0, <2>1, DebouncerIs DEF ToggleTypes
  <2>6. ToggleTypes'
    BY <1>0, <1>1, <2>2, <2>3, <2>4, <2>5 DEF ToggleTypes
  <2>7. DaemonInv'
    <3>1. \A x \in G!Session : Holds(x)' <=> Holds(x)
      BY <2>1, <2>2 DEF Holds
    <3>2. \A x \in G!Session : phase'[x] = "none" <=> phase[x] = "none"
      BY <2>1, <2>2
    <3> QED
      BY <1>0, <1>1, <3>1, <3>2 DEF DaemonInv
  <2>8. FileInv'
    <3>1. \A x \in G!Session : /\ phase'[x] \in {"recording", "draining"}
                                     <=> phase[x] \in {"recording", "draining"}
                               /\ phase'[x] = "released" <=> phase[x] = "released"
                               /\ phase'[x] = "none" <=> phase[x] = "none"
      BY <2>1, <2>2
    <3> QED
      BY <1>0, <1>1, <3>1 DEF FileInv, ToggleTypes
  <2>9. "stopped" \notin Path
    BY DEF Path
  <2> QED
    BY <1>1, <2>1, <2>3, <2>4, <2>6, <2>7, <2>8, <2>9, Names, DaemonMoves
<1>3. CASE ~(slot = arg[t] /\ phase[arg[t]] # "starting")
  <2>1. /\ phase' = phase /\ pc' = [pc EXCEPT ![t] = "failed"] /\ UNCHANGED <<calm, stopAt>>
    <3>1. /\ phase' = [phase EXCEPT ![arg[t]] = phase[arg[t]]]
          /\ pc' = [pc EXCEPT ![t] = "failed"] /\ UNCHANGED <<calm, stopAt>>
      BY <1>3 DEF G!StopCall
    <3> QED
      BY <1>0, <1>1, <3>1 DEF ToggleTypes
  <2>2. ~calm[t]
    BY <1>0, <1>1, <1>3 DEF CalmInv, G!Calm, Before
  <2>3. "failed" \in TogglePc \ {"stop", "stopped"} /\ "failed" \notin Path
    BY DEF TogglePc, Path
  <2>4. outcome' \in [G!Toggler -> Outcome] /\ calm' \in [G!Toggler -> BOOLEAN]
    BY <1>0, <1>1, <2>1 DEF ToggleTypes
  <2> QED
    BY <1>1, <2>1, <2>2, <2>3, <2>4, ToggleMoves
<1> QED
  BY <1>2, <1>3

LEMMA ToggleLifecycle ==
    ASSUME ToggleInv, NEW s \in G!Session, G!Lifecycle(s)
    PROVE  ToggleInv'
<1>0. ToggleTypes /\ DaemonInv /\ FileInv
  BY DEF ToggleInv
<1>1. /\ UNCHANGED <<clock, profile, pc, arg, debouncer, outcome, stopAt, restarted>>
      /\ calm' = [u \in G!Toggler |-> calm[u] /\ u = None]
  BY DEF G!Lifecycle, G!Disturbs, G!toggleVars
<1>2. calm' \in [G!Toggler -> BOOLEAN] /\ \A u \in G!Toggler : ~calm'[u]
  BY <1>0, <1>1, Names DEF ToggleTypes
<1>3. PICK p \in {"draining", "released", "ended"} :
         /\ phase' = [phase EXCEPT ![s] = p]
         /\ \/ /\ phase[s] = "recording" /\ p = "draining"
               /\ UNCHANGED <<slot, activeFile, lost>>
            \/ /\ phase[s] = "draining" /\ p = "released" /\ slot' = None
               /\ UNCHANGED <<activeFile, lost>>
            \/ /\ phase[s] = "released" /\ p = "ended" /\ activeFile' = None
               /\ lost' = (lost \/ activeFile # s) /\ UNCHANGED slot
  BY DEF G!Lifecycle
<1>4. /\ phase' \in [G!Session -> SessionPhase] /\ phase'[s] = p
      /\ \A r \in G!Session \ {s} : phase'[r] = phase[r]
  BY <1>0, <1>3 DEF ToggleTypes, SessionPhase
<1>5. ToggleTypes'
  <2>1. /\ slot' \in G!Session \union {None} /\ activeFile' \in G!Session \union {None}
        /\ lost' \in BOOLEAN
    BY <1>0, <1>3 DEF ToggleTypes
  <2> QED
    BY <1>0, <1>1, <1>2, <1>4, <2>1 DEF ToggleTypes
<1>6. DaemonInv'
  <2>1. \A x \in G!Session : Holds(x)' <=> slot' = x
    BY <1>0, <1>3, <1>4, Names DEF DaemonInv, Holds
  <2>2. \A x \in G!Session : /\ Holds(x)' => Holds(x)
                             /\ phase'[x] = "none" <=> phase[x] = "none"
    BY <1>3, <1>4 DEF Holds
  <2> QED
    BY <1>0, <2>1, <2>2 DEF DaemonInv
<1>7. FileInv'
  <2> SUFFICES ASSUME ~lost' PROVE FileInv'
    BY DEF FileInv
  <2>1. /\ \A x \in G!Session : phase[x] \in {"recording", "draining"} => activeFile = x
        /\ activeFile # None => phase[activeFile] \in {"recording", "draining", "released"}
        /\ \A x \in G!Session : phase[x] = "released" =>
              activeFile = x \/ \E r \in G!Session : r > x /\ phase[r] # "none"
        /\ activeFile \in G!Session \union {None}
    BY <1>0, <1>3 DEF FileInv, ToggleTypes
  <2>2. \A x \in G!Session : phase'[x] = "none" <=> phase[x] = "none"
    BY <1>3, <1>4
  <2>3. \A x \in G!Session : phase'[x] \in {"recording", "draining"} => activeFile' = x
    BY <1>3, <1>4, <2>1
  <2>4. activeFile' # None => phase'[activeFile'] \in {"recording", "draining", "released"}
    BY <1>3, <1>4, <2>1
  <2>5. \A x \in G!Session : phase'[x] = "released" =>
           activeFile' = x \/ \E r \in G!Session : r > x /\ phase'[r] # "none"
    BY <1>3, <1>4, <2>1, <2>2
  <2> QED
    BY <2>3, <2>4, <2>5 DEF FileInv
<1> QED
  BY <1>1, <1>2, <1>5, <1>6, <1>7, DaemonMoves

LEMMA ToggleStep == ToggleInv /\ [G!Next]_(G!vars) => ToggleInv'
<1> SUFFICES ASSUME ToggleInv, [G!Next]_(G!vars) PROVE ToggleInv'
  OBVIOUS
<1>1. CASE G!Tick
  BY <1>1, TickKeeps
<1>2. CASE G!DaemonStep
  BY <1>2, ToggleStartCall, ToggleStopCall, ToggleStartEnds DEF G!DaemonStep
<1>3. CASE \E s \in G!Session : G!Lifecycle(s)
  BY <1>3, ToggleLifecycle
<1>4. CASE \E t \in G!Toggler : G!Press(t) \/ G!ToggleStep(t)
  BY <1>4, TogglePress, ToggleReads, ToggleReadsBusy, ToggleStopped, ToggleStarted
     DEF G!ToggleStep
<1>5. CASE UNCHANGED G!vars
  <2>1. UNCHANGED <<clock, slot, phase, activeFile, lost, profile, pc, arg, debouncer,
                    outcome, calm, stopAt, restarted>>
    BY <1>5 DEF G!vars, G!daemonVars, G!toggleVars, G!history
  <2>2. ToggleTypes' /\ DaemonInv' /\ FileInv'
    BY <2>1 DEF ToggleInv, ToggleTypes, DaemonInv, FileInv, Holds
  <2>3. CooldownInv' /\ CalmInv'
    BY <2>1 DEF ToggleInv, CooldownInv, CalmInv, G!Calm
  <2> QED
    BY <2>2, <2>3 DEF ToggleInv
<1> QED
  BY <1>1, <1>2, <1>3, <1>4, <1>5 DEF G!Next

LEMMA ToggleKept == ToggleInv => G!TypeOK /\ G!NoRestartInCooldown
BY DEF ToggleInv, ToggleTypes, CooldownInv, TogglePc, SessionPhase, G!TypeOK,
   G!NoRestartInCooldown

(* What a step of a toggle says of one that it ends.                       *)
LEMMA ToggleWorks ==
    ASSUME ToggleInv, [G!Next]_(G!vars), NEW t \in G!Toggler,
           pc[t] # "idle", pc'[t] = "idle", calm[t]
    PROVE  outcome'[t] \in {"started", "stopping", "noProfile"}
<1>0. /\ pc \in [G!Toggler -> TogglePc] /\ outcome \in [G!Toggler -> Outcome]
      /\ calm[t] /\ pc[t] # "failed" /\ (pc[t] = "start" => slot = None)
  BY DEF ToggleInv, ToggleTypes, CalmInv
<1>1. ASSUME NEW u \in G!Toggler, NEW p, pc' = [pc EXCEPT ![u] = p]
      PROVE  u = t /\ p = "idle"
  BY <1>0, <1>1
<1>2. ASSUME NEW u \in G!Toggler, NEW o, G!Finish(u, o)
      PROVE  u = t /\ outcome'[t] = o
  BY <1>0, <1>2 DEF G!Finish
<1>3. CASE G!Tick \/ UNCHANGED G!vars \/ \E s \in G!Session : G!Lifecycle(s)
  BY <1>3 DEF G!Tick, G!vars, G!toggleVars, G!Lifecycle
<1>4. CASE \E u \in G!Toggler : G!StartCall(u)
  <2>1. PICK u \in G!Toggler : G!StartCall(u)
    BY <1>4
  <2>2. pc' = [pc EXCEPT ![u] = "idle"] /\ slot # None /\ pc[u] = "start"
    BY <1>1, <2>1 DEF G!StartCall
  <2> QED
    BY <1>0, <1>1, <2>2
<1>5. CASE \E u \in G!Toggler : G!StopCall(u)
  <2>1. PICK u \in G!Toggler, p \in {"stopped", "failed"} : pc' = [pc EXCEPT ![u] = p]
    BY <1>5 DEF G!StopCall
  <2> QED
    BY <1>1, <2>1
<1>6. CASE \E s \in G!Session, ok \in BOOLEAN : G!StartEnds(s, ok)
  <2>1. pc'[t] \in {"started", "failed", pc[t]}
    BY <1>6 DEF G!StartEnds
  <2> QED
    BY <2>1
<1>7. CASE \E u \in G!Toggler : G!Press(u)
  <2>1. PICK u \in G!Toggler, p \in {"idle", "status"} :
           pc[u] = "idle" /\ pc' = [pc EXCEPT ![u] = p]
    BY <1>7 DEF G!Press, G!Finish
  <2> QED
    BY <1>1, <2>1
<1>8. ASSUME NEW u \in G!Toggler, G!ToggleStep(u)
      PROVE  outcome'[t] \in {"started", "stopping", "noProfile"}
  <2>1. CASE G!GetStatus(u)
    BY <1>1, <2>1 DEF G!GetStatus
  <2>2. CASE G!ReadWhenIdle(u)
    <3>1. CASE G!Finish(u, "draining") /\ activeFile # None /\ pc[u] = "readIdle"
      BY <1>0, <1>2, <3>1, CalmReadsNone
    <3>2. CASE pc' = [pc EXCEPT ![u] = "profile"]
      BY <1>1, <3>2
    <3> QED
      BY <2>2, <3>1, <3>2 DEF G!ReadWhenIdle
  <2>3. CASE G!ReadWhenBusy(u)
    <3>1. CASE G!Finish(u, "error") /\ activeFile = None /\ pc[u] = "readBusy"
      BY <1>0, <1>2, <3>1, CalmReadsSlot
    <3>2. CASE pc' = [pc EXCEPT ![u] = "stop"]
      BY <1>1, <3>2
    <3> QED
      BY <2>3, <3>1, <3>2 DEF G!ReadWhenBusy
  <2>4. CASE G!GetActive(u)
    <3>1. CASE G!Finish(u, "noProfile")
      BY <1>2, <3>1
    <3>2. CASE pc' = [pc EXCEPT ![u] = "start"]
      BY <1>1, <3>2
    <3> QED
      BY <2>4, <3>1, <3>2 DEF G!GetActive
  <2>5. CASE G!Stopped(u) \/ G!Started(u)
    BY <1>2, <2>5 DEF G!Stopped, G!Started
  <2>6. CASE G!Failed(u)
    BY <1>0, <1>2, <2>6 DEF G!Failed
  <2> QED
    BY <1>8, <2>1, <2>2, <2>3, <2>4, <2>5, <2>6 DEF G!ToggleStep
<1> QED
  BY <1>3, <1>4, <1>5, <1>6, <1>7, <1>8 DEF G!Next, G!DaemonStep

(* A toggle that goes on to a start has read a file that names nobody.     *)
LEMMA ToggleWaits ==
    ASSUME ToggleInv, [G!Next]_(G!vars), NEW t \in G!Toggler, NEW s \in G!Session,
           pc[t] = "readIdle", pc'[t] = "profile", ~lost,
           phase[s] \in {"draining", "released"}
    PROVE  \E r \in G!Session : r > s /\ phase[r] # "none"
<1>0. pc \in [G!Toggler -> TogglePc]
  BY DEF ToggleInv, ToggleTypes
<1>1. ASSUME NEW u \in G!Toggler, NEW p, pc' = [pc EXCEPT ![u] = p]
      PROVE  u = t /\ p = "profile"
  BY <1>0, <1>1
<1>2. activeFile = None
  <2>1. CASE G!Tick \/ UNCHANGED G!vars \/ \E x \in G!Session : G!Lifecycle(x)
    BY <2>1 DEF G!Tick, G!vars, G!toggleVars, G!Lifecycle
  <2>2. CASE \E x \in G!Session, ok \in BOOLEAN : G!StartEnds(x, ok)
    <3>1. pc'[t] \in {"started", "failed", pc[t]}
      BY <2>2 DEF G!StartEnds
    <3> QED
      BY <3>1
  <2>3. ASSUME NEW u \in G!Toggler, G!StartCall(u) \/ G!StopCall(u) \/ G!Press(u)
        PROVE  activeFile = None
    <3>1. PICK p \in {"starting", "idle", "failed", "stopped", "status"} :
             pc' = [pc EXCEPT ![u] = p]
      BY <2>3 DEF G!StartCall, G!StopCall, G!Press, G!Finish
    <3> QED
      BY <1>1, <3>1
  <2>4. ASSUME NEW u \in G!Toggler, G!ToggleStep(u)
        PROVE  activeFile = None
    <3>1. PICK p \in {"readIdle", "readBusy", "profile", "start", "stop", "idle"} :
             /\ pc' = [pc EXCEPT ![u] = p]
             /\ p = "profile" => activeFile = None
      BY <2>4 DEF G!ToggleStep, G!GetStatus, G!ReadWhenIdle, G!ReadWhenBusy, G!GetActive,
         G!Stopped, G!Started, G!Failed, G!Finish
    <3> QED
      BY <1>1, <3>1
  <2> QED
    BY <2>1, <2>2, <2>3, <2>4 DEF G!Next, G!DaemonStep
<1>3. FileInv /\ activeFile # s
  BY <1>2, Names DEF ToggleInv
<1> QED
  BY <1>3 DEF FileInv

-----------------------------------------------------------------------------
(* The two parts together                                                  *)

Inv == HotkeyInv /\ ToggleInv

(* A step of MCDesktop is a step of either part, or leaves it alone.       *)
LEMMA PartSteps ==
    ASSUME [Next]_vars
    PROVE  [H!Next]_(H!vars) /\ [G!Next]_(G!vars)
<1>1. (H!Next \/ UNCHANGED hvars) /\ (G!Next \/ UNCHANGED gvars)
  BY DEF Next, vars
<1>2. (UNCHANGED hvars => UNCHANGED H!vars) /\ (UNCHANGED gvars => UNCHANGED G!vars)
  BY DEF hvars, gvars, H!vars, G!vars, G!daemonVars, G!toggleVars, G!history
<1> QED
  BY <1>1, <1>2

LEMMA InvHolds == Spec => []Inv
<1>1. Init => Inv
  BY HotkeyInit, ToggleInit DEF Init, Inv
<1>2. Inv /\ [Next]_vars => Inv'
  BY PartSteps, HotkeyStep, ToggleStep DEF Inv
<1> QED
  BY <1>1, <1>2, PTL DEF Spec

(* However presses, clicks, rebinds, restarts and failures interleave, a   *)
(* menu that names a chord is right as long as nothing failed, the tray has*)
(* one portal session and leaves none, and a bouncing key starts nothing in*)
(* the cooldown of its stop (hotkey.rs, portal.rs, toggle.rs).             *)
THEOREM KeyIsHonest == Spec => []KeyHonest
<1>1. Inv => KeyHonest
  BY HotkeyKept, ToggleKept DEF Inv, HotkeyInv, KeyHonest
<1> QED
  BY <1>1, InvHolds, PTL

(* Among any number of toggles, sessions and processes, a toggle of a calm *)
(* daemon that nothing disturbs does what was asked, and none goes on to a *)
(* start while the newest session drains (toggle.rs).                      *)
THEOREM ToggleDoesWhatIsAsked == Spec => ToggleDoesAsked
<1> DEFINE Works == \A t \in G!Toggler :
                       pc[t] # "idle" /\ pc'[t] = "idle" /\ calm[t]
                       => outcome'[t] \in {"started", "stopping", "noProfile"}
           Waits == \A t \in G!Toggler, s \in G!Session :
                       /\ pc[t] = "readIdle" /\ pc'[t] = "profile" /\ ~lost
                       /\ phase[s] \in {"draining", "released"}
                       => \E r \in G!Session : r > s /\ phase[r] # "none"
<1>1. Inv /\ [Next]_vars => [Works]_(G!vars)
  BY PartSteps, ToggleWorks DEF Inv
<1>2. Inv /\ [Next]_vars => [Waits]_(G!vars)
  BY PartSteps, ToggleWaits DEF Inv
<1> HIDE DEF Works, Waits
<1>3. Spec => [][Works]_(G!vars) /\ [][Waits]_(G!vars)
  BY <1>1, <1>2, InvHolds, PTL DEF Spec
<1> QED
  BY <1>3 DEF ToggleDoesAsked, G!UndisturbedToggleWorks, G!NoStartWhileDraining, Works, Waits
=============================================================================
