------------------------------ MODULE TrayProofs ------------------------------
(***************************************************************************)
(* Proofs about the tray, for any number of sessions, daemon crashes,      *)
(* clicks and processes: what a tray that has handled its signals shows,   *)
(* when its menu stays locked, what its sinks are given, and how many      *)
(* icons stand side by side. The two parts of MCTrayApp share no state;    *)
(* each has its invariant here, and the theorems are about the             *)
(* specification of MCTrayApp.                                             *)
(***************************************************************************)
EXTENDS MCTrayApp, Integers, Sequences, TLAPS

-----------------------------------------------------------------------------
(* The view of the daemon                                                  *)

Phase == {"none", "starting", "recording", "draining", "stopping", "broken", "released",
          "finishing", "failing", "ended"}
Owns == {"starting", "recording", "draining", "stopping", "broken"}
Over == {"none", "ended"}
Released == {"released", "finishing", "failing"}
Stopping == {"draining", "stopping", "broken"} \union Released

Pump == {"connecting", "verified", "hearsState", "hearsRecorded", "hearsTranscribed",
         "subscribed", "statusRead", "loop", "backoff", "ended"}
Pc == {"handshake", "probe", "idle", "start", "stop", "serving", "setActive", "listing",
       "replyOk", "replyErr", "ended"}
Signal == [session : T!Session, value : T!WireState]
Queues == [owner : Seq({"lost", "owned"}), state : Seq(Signal),
           recorded : Seq(T!Session), transcribed : Seq(T!Session)]
Maybe(S) == S \union {None}
Calls == {d \in [pc : Pc, arg : Maybe(T!Session)] : d.pc = "stop" => d.arg # None}
Seen == [crashes : Nat, clicks : Nat, missed : BOOLEAN, failed : BOOLEAN,
         replaced : BOOLEAN, stale : BOOLEAN]

Entry == [id : T!Session, audio : Maybe(T!Session), text : BOOLEAN]
TrayStates ==
    {t \in [icon : T!IconState, session : Maybe(T!Session), timer : BOOLEAN,
            last : Maybe(Entry), pending : Maybe(T!Command)] :
        t.last # None => t.last.audio \in {t.last.id, None}}

DaemonTypes ==
    /\ bound \in Bounds /\ up \in BOOLEAN /\ compat \in BOOLEAN
    /\ phase \in [T!Session -> Phase] /\ slot \in Maybe(T!Session)
    /\ activeFile \in Maybe(T!Session)
    /\ lastFile \in Maybe([id : T!Session, full : BOOLEAN]) /\ signalled \in T!WireState
    /\ slot # None => phase[slot] \in Owns

PumpTypes ==
    /\ pump \in Pump /\ status \in {"idle", "recording"} /\ queues \in Queues
    /\ tray \in TrayStates

TaskTypes ==
    /\ cmdQueue \in Seq(T!Command) /\ Len(cmdQueue) <= CmdCapacity
    /\ dispatcher \in Calls
    /\ sinkQueue \in Seq(T!Session) /\ Len(sinkQueue) <= SinkCapacity
    /\ sunk \in Seq(T!Session)
    /\ daemonReady \in BOOLEAN /\ shutdown \in BOOLEAN /\ seen \in Seen

TrayTypes == DaemonTypes /\ PumpTypes /\ TaskTypes

SomeActive == \E s \in T!Session : phase[s] \notin Over
SomeReleased == \E s \in T!Session : phase[s] \in Released
SlotStatus == IF slot = None THEN "idle" ELSE "recording"

Connected == pump \in {"subscribed", "statusRead", "loop"}
Hears == Connected \/ pump \in {"hearsState", "hearsRecorded", "hearsTranscribed"}

(* What the daemon said last ends the queue; when nothing came since the   *)
(* subscription, the snapshot speaks for the daemon.  A daemon that comes  *)
(* up is heard of, or it finds the queue empty, or stale.                  *)
ViewInv ==
    /\ pump \in {"connecting", "verified", "backoff"} => queues = T!NoQueues
    /\ Hears /\ up /\ ~seen.stale /\ queues.owner = << >> =>
          /\ queues.state # << >> =>
                /\ queues.state[Len(queues.state)].value = signalled
                /\ signalled \notin {"idle", "failed"} => SomeActive
          /\ queues.state = << >> /\ pump = "statusRead" =>
                /\ status = SlotStatus \/ SomeReleased
                /\ status = "recording" => SomeActive
          /\ queues.state = << >> /\ pump = "loop" =>
                /\ tray.icon \in {signalled, SlotStatus} \/ SomeReleased
                /\ tray.session # None => SomeActive

(* What will open the lock of the menu, when nothing was lost.             *)
Good == ~seen.missed /\ ~seen.failed /\ seen.crashes = 0
Queued(V) == \E i \in 1 .. Len(queues.state) : queues.state[i].value \in V

LockInv ==
    Good =>
       /\ tray.pending = "start" =>
             dispatcher.pc \in {"start", "replyErr"} \/ Queued({"starting", "recording"})
       /\ tray.pending = "stop" =>
             \/ dispatcher.pc \in {"stop", "replyErr"} \/ Queued({"stopping", "idle"})
             \/ \E s \in T!Session : phase[s] \in Stopping
       /\ tray.pending = "setActive" => dispatcher.pc \in {"setActive", "listing"}

(* A transcript is on its way once, in one place.                          *)
Distinct(q) == \A i, j \in 1 .. Len(q) : q[i] = q[j] => i = j
Disjoint(q, r) == \A i \in 1 .. Len(q), j \in 1 .. Len(r) : q[i] # r[j]
Complete(q) == \A i \in 1 .. Len(q) : phase[q[i]] \in {"finishing", "ended"}

SinkInv ==
    /\ Distinct(sunk) /\ Distinct(sinkQueue) /\ Distinct(queues.transcribed)
    /\ Disjoint(sunk, sinkQueue) /\ Disjoint(sunk, queues.transcribed)
    /\ Disjoint(sinkQueue, queues.transcribed)
    /\ Complete(sunk) /\ Complete(sinkQueue) /\ Complete(queues.transcribed)

TrayInv == TrayTypes /\ ViewInv /\ LockInv /\ SinkInv

-----------------------------------------------------------------------------
(* Queues                                                                  *)

LEMMA AppendIs ==
    ASSUME NEW S, NEW q \in Seq(S), NEW e \in S
    PROVE  /\ Append(q, e) \in Seq(S) /\ Append(q, e) # << >>
           /\ Len(Append(q, e)) = Len(q) + 1 /\ Len(q) \in Nat
           /\ \A i \in 1 .. Len(q) : i \in 1 .. Len(Append(q, e)) /\ Append(q, e)[i] = q[i]
           /\ Append(q, e)[Len(Append(q, e))] = e
           /\ \A i \in 1 .. Len(Append(q, e)) : i \in 1 .. Len(q) \/ i = Len(Append(q, e))
OBVIOUS

LEMMA TailIs ==
    ASSUME NEW S, NEW q \in Seq(S), q # << >>
    PROVE  /\ Head(q) \in S /\ Head(q) = q[1] /\ 1 \in 1 .. Len(q) /\ Len(q) \in Nat
           /\ Tail(q) \in Seq(S) /\ Len(Tail(q)) = Len(q) - 1
           /\ \A i \in 1 .. Len(q) : i = 1 \/ /\ i - 1 \in 1 .. Len(Tail(q))
                                              /\ Tail(q)[i - 1] = q[i]
           /\ \A i \in 1 .. Len(Tail(q)) : i + 1 \in 1 .. Len(q) /\ Tail(q)[i] = q[i + 1]
           /\ Tail(q) = << >> => q[Len(q)] = Head(q)
           /\ Tail(q) # << >> => Tail(q)[Len(Tail(q))] = q[Len(q)]
<1>1. /\ Head(q) = q[1] /\ Tail(q) \in Seq(S) /\ Len(Tail(q)) = Len(q) - 1
      /\ Len(q) \in Nat /\ Len(q) >= 1 /\ Head(q) \in S
  OBVIOUS
<1>2. \A i \in 1 .. Len(Tail(q)) : i + 1 \in 1 .. Len(q) /\ Tail(q)[i] = q[i + 1]
  OBVIOUS
<1>3. PICK n \in Nat, r \in Seq(S) : n = Len(q) /\ r = Tail(q)
  BY <1>1
<1>4. \A i \in 1 .. n : i = 1 \/ /\ i - 1 \in 1 .. Len(r) /\ (i - 1) + 1 = i
  BY <1>1, <1>3
<1>5. \A i \in 1 .. Len(q) : i = 1 \/ /\ i - 1 \in 1 .. Len(Tail(q))
                                       /\ Tail(q)[i - 1] = q[i]
  BY <1>2, <1>3, <1>4
<1>6. r = << >> => n = 1
  <2>1. r = << >> => Len(r) = 0
    OBVIOUS
  <2>2. Len(r) = n - 1
    BY <1>1, <1>3
  <2> QED
    BY <2>1, <2>2
<1>7. r # << >> => n # 1 /\ n \in 1 .. n /\ Len(r) = n - 1
  BY <1>1, <1>3
<1> QED
  BY <1>1, <1>2, <1>3, <1>5, <1>6, <1>7

LEMMA SessionsAre ==
    ASSUME bound \in Bounds
    PROVE  /\ None \notin T!Session /\ T!Session \subseteq Nat
           /\ None \notin T!Command /\ bound.commands \subseteq T!Command
           /\ CmdCapacity \in Nat /\ SinkCapacity \in Nat
BY TrayAssumption DEF T!Session

LEMMA SubscribedIs ==
    /\ T!Subscribed("owner") <=> Connected
    /\ T!Subscribed("state") <=> Hears
    /\ T!Subscribed("recorded") => Hears
    /\ T!Subscribed("transcribed") => Hears
BY DEF T!Subscribed, Connected, Hears

(* A signal joins the end of its queue, if somebody subscribed to it.      *)
LEMMA DeliverOwner ==
    ASSUME TrayTypes, NEW m \in {"lost", "owned"}, T!Deliver("owner", m)
    PROVE  /\ queues' \in Queues /\ queues'.state = queues.state
           /\ queues'.recorded = queues.recorded /\ queues'.transcribed = queues.transcribed
           /\ Connected => queues'.owner # << >>
           /\ ~Connected => queues' = queues
<1>1. queues \in Queues
  BY DEF TrayTypes, PumpTypes
<1>2. CASE T!Subscribed("owner")
  <2>1. PICK q : q = Append(queues.owner, m)
    OBVIOUS
  <2>2. queues.owner \in Seq({"lost", "owned"})
    BY <1>1 DEF Queues
  <2>3. q \in Seq({"lost", "owned"}) /\ q # << >>
    BY <2>1, <2>2, AppendIs
  <2>4. queues' = [queues EXCEPT !.owner = q]
    BY <1>2, <2>1 DEF T!Deliver
  <2> QED
    BY <1>1, <1>2, <2>3, <2>4, SubscribedIs DEF Queues
<1>3. CASE ~T!Subscribed("owner")
  BY <1>1, <1>3, SubscribedIs DEF T!Deliver
<1> QED
  BY <1>2, <1>3, SubscribedIs

LEMMA DeliverRecorded ==
    ASSUME TrayTypes, NEW s \in T!Session, T!Deliver("recorded", s)
    PROVE  /\ queues' \in Queues /\ queues'.state = queues.state
           /\ queues'.owner = queues.owner /\ queues'.transcribed = queues.transcribed
           /\ ~Hears => queues' = queues
<1>1. queues \in Queues
  BY DEF TrayTypes, PumpTypes
<1>2. CASE T!Subscribed("recorded")
  <2>1. PICK q : q = Append(queues.recorded, s)
    OBVIOUS
  <2>2. queues.recorded \in Seq(T!Session)
    BY <1>1 DEF Queues
  <2>3. q \in Seq(T!Session)
    BY <2>1, <2>2, AppendIs
  <2>4. queues' = [queues EXCEPT !.recorded = q]
    BY <1>2, <2>1 DEF T!Deliver
  <2> QED
    BY <1>1, <1>2, <2>3, <2>4, SubscribedIs DEF Queues
<1>3. CASE ~T!Subscribed("recorded")
  BY <1>1, <1>3, SubscribedIs DEF T!Deliver
<1> QED
  BY <1>2, <1>3, SubscribedIs

LEMMA DeliverTranscribed ==
    ASSUME TrayTypes, NEW s \in T!Session, T!Deliver("transcribed", s)
    PROVE  /\ queues' \in Queues /\ queues'.state = queues.state
           /\ queues'.owner = queues.owner /\ queues'.recorded = queues.recorded
           /\ queues'.transcribed \in {queues.transcribed, Append(queues.transcribed, s)}
           /\ ~Hears => queues' = queues
<1>1. queues \in Queues
  BY DEF TrayTypes, PumpTypes
<1>2. CASE T!Subscribed("transcribed")
  <2>1. PICK q : q = Append(queues.transcribed, s)
    OBVIOUS
  <2>2. queues.transcribed \in Seq(T!Session)
    BY <1>1 DEF Queues
  <2>3. q \in Seq(T!Session)
    BY <2>1, <2>2, AppendIs
  <2>4. queues' = [queues EXCEPT !.transcribed = q]
    BY <1>2, <2>1 DEF T!Deliver
  <2> QED
    BY <1>1, <1>2, <2>1, <2>3, <2>4, SubscribedIs DEF Queues
<1>3. CASE ~T!Subscribed("transcribed")
  BY <1>1, <1>3, SubscribedIs DEF T!Deliver
<1> QED
  BY <1>2, <1>3, SubscribedIs

(* A state that is announced ends the queue, or is missed.                 *)
LEMMA AnnounceIs ==
    ASSUME TrayTypes, NEW s \in T!Session, NEW v \in T!WireState, T!Announce(s, v)
    PROVE  /\ queues' \in Queues /\ queues'.owner = queues.owner
           /\ queues'.recorded = queues.recorded /\ queues'.transcribed = queues.transcribed
           /\ signalled' = v
           /\ seen' \in Seen /\ seen'.crashes = seen.crashes
           /\ seen.missed => seen'.missed
           /\ seen.failed \/ v = "failed" => seen'.failed
           /\ ~Hears => seen'.missed /\ queues' = queues
           /\ Hears => /\ queues'.state # << >>
                              /\ queues'.state[Len(queues'.state)].value = v
           /\ Len(queues.state) \in Nat
           /\ Hears => Len(queues'.state) = Len(queues.state) + 1
           /\ \A i \in 1 .. Len(queues.state) : /\ i \in 1 .. Len(queues'.state)
                                                /\ queues'.state[i] = queues.state[i]
<1>1. queues \in Queues /\ seen \in Seen
  BY DEF TrayTypes, PumpTypes, TaskTypes
<1>2. /\ seen' = [seen EXCEPT !.missed = seen.missed \/ ~T!Subscribed("state"),
                              !.failed = seen.failed \/ v = "failed"]
      /\ signalled' = v
      /\ T!Deliver("state", [session |-> s, value |-> v])
  BY DEF T!Announce
<1>3. /\ seen' \in Seen /\ seen'.crashes = seen.crashes
      /\ seen'.missed = (seen.missed \/ ~T!Subscribed("state"))
      /\ seen'.failed = (seen.failed \/ v = "failed")
  <2>1. PICK a \in BOOLEAN : a = (seen.missed \/ ~T!Subscribed("state"))
    BY <1>1 DEF Seen
  <2>2. PICK b \in BOOLEAN : b = (seen.failed \/ v = "failed")
    BY <1>1 DEF Seen
  <2>3. seen' = [seen EXCEPT !.missed = a, !.failed = b]
    BY <1>2, <2>1, <2>2
  <2> QED
    BY <1>1, <2>1, <2>2, <2>3 DEF Seen
<1>4. PICK m \in Signal : m = [session |-> s, value |-> v]
  BY DEF Signal
<1>5. PICK q : q = Append(queues.state, m)
  OBVIOUS
<1>6. queues.state \in Seq(Signal)
  BY <1>1 DEF Queues
<1>7. /\ q \in Seq(Signal) /\ q # << >> /\ q[Len(q)] = m /\ Len(q) = Len(queues.state) + 1
      /\ Len(queues.state) \in Nat
      /\ \A i \in 1 .. Len(queues.state) : i \in 1 .. Len(q) /\ q[i] = queues.state[i]
  BY <1>5, <1>6, AppendIs
<1>8. CASE T!Subscribed("state")
  <2>1. queues' = [queues EXCEPT !.state = q]
    BY <1>2, <1>4, <1>5, <1>8 DEF T!Deliver
  <2>2. /\ queues' \in Queues /\ queues'.owner = queues.owner /\ queues'.state = q
        /\ queues'.recorded = queues.recorded /\ queues'.transcribed = queues.transcribed
    BY <1>1, <1>7, <2>1 DEF Queues
  <2>3. /\ queues'.state # << >> /\ queues'.state[Len(queues'.state)].value = v
        /\ Len(queues'.state) = Len(queues.state) + 1
        /\ \A i \in 1 .. Len(queues.state) : /\ i \in 1 .. Len(queues'.state)
                                             /\ queues'.state[i] = queues.state[i]
    BY <1>4, <1>7, <2>2
  <2> QED
    BY <1>2, <1>3, <1>7, <1>8, <2>2, <2>3, SubscribedIs
<1>9. CASE ~T!Subscribed("state")
  <2>1. queues' = queues
    BY <1>2, <1>9 DEF T!Deliver
  <2> QED
    BY <1>1, <1>2, <1>3, <1>7, <1>9, <2>1, SubscribedIs
<1> QED
  BY <1>8, <1>9, SubscribedIs

-----------------------------------------------------------------------------
(* What a step must keep, one lemma for each part of the invariant.        *)

LEMMA SameBound ==
    ASSUME bound' = bound
    PROVE  T!Session' = T!Session /\ Signal' = Signal /\ Queues' = Queues /\ Calls' = Calls
           /\ TrayStates' = TrayStates
<1>1. T!Session' = T!Session
  BY DEF T!Session
<1>2. Signal' = Signal
  BY <1>1 DEF Signal, T!WireState
<1>3. T!IconState' = T!IconState /\ T!Command' = T!Command
  BY DEF T!IconState, T!WireState, T!Command
<1>4. Entry' = Entry
  BY <1>1 DEF Entry, Maybe
<1>5. TrayStates' = TrayStates
  BY <1>1, <1>3, <1>4 DEF TrayStates, Maybe
<1> QED
  BY <1>1, <1>2, <1>5 DEF Queues, Calls, Maybe

(* A step of the daemon in session s.                                      *)
LEMMA TypesMove ==
    ASSUME TrayTypes, NEW s \in T!Session, NEW p \in Phase,
           phase' = [phase EXCEPT ![s] = p],
           slot' \in {slot, None, s}, slot' # None => phase'[slot'] \in Owns,
           activeFile' \in {activeFile, None, s},
           lastFile' \in Maybe([id : T!Session, full : BOOLEAN]),
           signalled' \in T!WireState, queues' \in Queues, seen' \in Seen,
           dispatcher' \in Calls,
           UNCHANGED <<bound, up, compat, pump, status, tray, cmdQueue, daemonReady,
                       sinkQueue, sunk, shutdown>>
    PROVE  TrayTypes'
<1>1. T!Session' = T!Session /\ Queues' = Queues /\ Calls' = Calls /\ TrayStates' = TrayStates
  BY SameBound
<1>2. DaemonTypes'
  <2>1. phase' \in [T!Session -> Phase]
    BY DEF TrayTypes, DaemonTypes
  <2>2. slot' \in Maybe(T!Session) /\ activeFile' \in Maybe(T!Session)
    BY DEF TrayTypes, DaemonTypes, Maybe
  <2> QED
    BY <1>1, <2>1, <2>2 DEF TrayTypes, DaemonTypes, Maybe, T!WireState
<1>3. PumpTypes'
  BY <1>1 DEF TrayTypes, PumpTypes
<1>4. TaskTypes'
  BY <1>1 DEF TrayTypes, TaskTypes, Maybe, Seen, T!Command
<1> QED
  BY <1>2, <1>3, <1>4 DEF TrayTypes

LEMMA ViewAnnounced ==
    ASSUME TrayTypes, ViewInv, NEW s \in T!Session, NEW v \in T!WireState, T!Announce(s, v),
           UNCHANGED <<bound, pump, status, tray>>,
           v \notin {"idle", "failed"} => phase'[s] \notin Over
    PROVE  ViewInv'
<1>1. /\ T!Session' = T!Session /\ signalled' = v
      /\ ~Hears => queues' = queues
      /\ Hears => /\ queues'.state # << >>
                         /\ queues'.state[Len(queues'.state)].value = v
  BY AnnounceIs, SameBound
<1>2. v \notin {"idle", "failed"} => SomeActive'
  BY <1>1 DEF SomeActive
<1> QED
  BY <1>1, <1>2 DEF ViewInv, Hears, Connected, T!NoQueues

LEMMA ViewSilent ==
    ASSUME ViewInv, UNCHANGED <<pump, status, signalled>>,
           tray'.icon = tray.icon, tray'.session = tray.session,
           queues'.state = queues.state, queues'.owner = queues.owner,
           ~Hears => queues' = queues,
           up' => up, seen.stale => seen'.stale,
           SomeActive => SomeActive',
           (slot' = slot /\ (SomeReleased => SomeReleased')) \/ SomeReleased'
    PROVE  ViewInv'
<1>1. SlotStatus' = SlotStatus \/ SomeReleased'
  BY DEF SlotStatus
<1>2. SomeReleased => SomeReleased'
  OBVIOUS
<1> QED
  BY <1>1, <1>2 DEF ViewInv, Hears, Connected, T!NoQueues

LEMMA LockMoves ==
    ASSUME LockInv, tray'.pending = tray.pending, bound' = bound,
           Good' => Good,
           dispatcher.pc = "replyErr" => dispatcher'.pc = "replyErr",
           dispatcher.pc \in {"setActive", "listing"} =>
              dispatcher'.pc \in {"setActive", "listing"},
           dispatcher.pc = "start" =>
              \/ dispatcher'.pc \in {"start", "replyErr"}
              \/ Good' => Queued({"starting", "recording"})',
           dispatcher.pc = "stop" =>
              \/ dispatcher'.pc \in {"stop", "replyErr"}
              \/ \E s \in T!Session : phase'[s] \in Stopping,
           Good' => \A i \in 1 .. Len(queues.state) :
                       /\ i \in 1 .. Len(queues'.state)
                       /\ queues'.state[i] = queues.state[i],
           Good' => \A s \in T!Session : phase[s] \in Stopping =>
                       phase'[s] \in Stopping \/ Queued({"stopping", "idle"})'
    PROVE  LockInv'
<1> SUFFICES ASSUME Good' PROVE LockInv'
  BY DEF LockInv
<1>1. Good /\ T!Session' = T!Session
  BY SameBound
<1>2. \A V : Queued(V) => Queued(V)'
  BY DEF Queued
<1>3. CASE tray.pending = "start"
  <2>1. dispatcher.pc \in {"start", "replyErr"} \/ Queued({"starting", "recording"})
    BY <1>1, <1>3 DEF LockInv
  <2>2. dispatcher'.pc \in {"start", "replyErr"} \/ Queued({"starting", "recording"})'
    BY <1>2, <2>1
  <2> QED
    BY <1>3, <2>2 DEF LockInv
<1>4. CASE tray.pending = "stop"
  <2>1. \/ dispatcher.pc \in {"stop", "replyErr"} \/ Queued({"stopping", "idle"})
        \/ \E s \in T!Session : phase[s] \in Stopping
    BY <1>1, <1>4 DEF LockInv
  <2>2. \/ dispatcher'.pc \in {"stop", "replyErr"} \/ Queued({"stopping", "idle"})'
        \/ \E s \in T!Session : phase'[s] \in Stopping
    BY <1>2, <2>1
  <2> QED
    BY <1>1, <1>4, <2>2 DEF LockInv
<1>5. CASE tray.pending = "setActive"
  BY <1>1, <1>5 DEF LockInv
<1> QED
  BY <1>3, <1>4, <1>5 DEF LockInv

LEMMA SinkMoves ==
    ASSUME TrayTypes, SinkInv, UNCHANGED <<sunk, sinkQueue>>,
           queues'.transcribed \in {queues.transcribed, << >>},
           \A x \in T!Session : phase[x] \in {"finishing", "ended"} =>
                                   phase'[x] \in {"finishing", "ended"}
    PROVE  SinkInv'
<1>1. /\ sunk \in Seq(T!Session) /\ sinkQueue \in Seq(T!Session)
      /\ queues.transcribed \in Seq(T!Session)
  BY DEF TrayTypes, TaskTypes, PumpTypes, Queues
<1>2. ASSUME NEW q \in Seq(T!Session), Complete(q)
      PROVE  \A i \in 1 .. Len(q) : phase'[q[i]] \in {"finishing", "ended"}
  BY <1>2 DEF Complete
<1>3. Complete(sunk)' /\ Complete(sinkQueue)' /\ Distinct(sunk)' /\ Distinct(sinkQueue)'
      /\ Disjoint(sunk, sinkQueue)'
  BY <1>1, <1>2 DEF SinkInv, Complete, Distinct, Disjoint
<1>4. CASE queues'.transcribed = queues.transcribed
  BY <1>1, <1>2, <1>3, <1>4 DEF SinkInv, Complete, Distinct, Disjoint
<1>5. CASE queues'.transcribed = << >>
  <2>1. 1 .. Len(queues'.transcribed) = {}
    <3>1. Len(<< >>) = 0
      OBVIOUS
    <3> QED
      BY <1>5, <3>1
  <2> QED
    BY <1>3, <2>1 DEF SinkInv, Complete, Distinct, Disjoint
<1> QED
  BY <1>4, <1>5

-----------------------------------------------------------------------------
(* The steps of the daemon.                                                *)

LEMMA ReplyIs ==
    ASSUME TrayTypes, NEW s \in T!Session, NEW ok \in BOOLEAN, T!Reply(s, ok)
    PROVE  /\ dispatcher' \in Calls
           /\ dispatcher.pc # "serving" => dispatcher' = dispatcher
BY DEF TrayTypes, TaskTypes, T!Reply, Calls, Pc, Maybe

(* A step that announces the state v of session s, whose phase becomes p.  *)
LEMMA Announces ==
    ASSUME TrayInv, NEW s \in T!Session, NEW p \in Phase, NEW v \in T!WireState,
           phase' = [phase EXCEPT ![s] = p], T!Announce(s, v),
           slot' \in {slot, None, s}, slot' # None => phase'[slot'] \in Owns,
           activeFile' \in {activeFile, None, s},
           dispatcher' \in Calls,
           UNCHANGED <<bound, up, compat, lastFile, pump, status, tray, cmdQueue,
                       daemonReady, sinkQueue, sunk, shutdown>>,
           v \notin {"idle", "failed"} => p \notin Over,
           dispatcher.pc # "serving" =>
              \/ dispatcher' = dispatcher
              \/ dispatcher.pc = "start" /\ v = "starting",
           phase[s] \in {"finishing", "ended"} => p \in {"finishing", "ended"},
           phase[s] \in Stopping => p \in Stopping \/ v \in {"idle", "failed"}
    PROVE  TrayInv'
<1>0. TrayTypes /\ ViewInv /\ LockInv /\ SinkInv
  BY DEF TrayInv
<1>1. /\ queues' \in Queues /\ seen' \in Seen /\ signalled' = v
      /\ queues'.transcribed = queues.transcribed
      /\ seen'.crashes = seen.crashes /\ (seen.missed => seen'.missed)
      /\ seen.failed \/ v = "failed" => seen'.failed
      /\ ~Hears => seen'.missed
      /\ Len(queues.state) \in Nat
      /\ Hears => /\ queues'.state[Len(queues'.state)].value = v
                         /\ Len(queues'.state) = Len(queues.state) + 1
      /\ \A i \in 1 .. Len(queues.state) : /\ i \in 1 .. Len(queues'.state)
                                           /\ queues'.state[i] = queues.state[i]
  BY <1>0, AnnounceIs
<1>2. phase'[s] = p /\ \A x \in T!Session \ {s} : phase'[x] = phase[x]
  BY <1>0 DEF TrayTypes, DaemonTypes
<1>3. lastFile \in Maybe([id : T!Session, full : BOOLEAN])
  BY <1>0 DEF TrayTypes, DaemonTypes
<1>4. TrayTypes'
  BY <1>0, <1>1, <1>3, TypesMove
<1>5. ViewInv'
  BY <1>0, <1>2, ViewAnnounced
<1>6. LockInv'
  <2>1. Good' => Good /\ Hears /\ v # "failed"
    BY <1>1 DEF Good
  <2>2. ASSUME Good', NEW V, v \in V
        PROVE  Queued(V)'
    <3>1. Len(queues'.state) \in 1 .. Len(queues'.state)
      BY <1>1, <2>1, <2>2
    <3> QED
      BY <1>1, <2>1, <2>2, <3>1 DEF Queued
  <2>3. Good' => \A x \in T!Session : phase[x] \in Stopping =>
                    phase'[x] \in Stopping \/ Queued({"stopping", "idle"})'
    <3> SUFFICES ASSUME Good', NEW x \in T!Session, phase[x] \in Stopping,
                        phase'[x] \notin Stopping
                 PROVE  Queued({"stopping", "idle"})'
      OBVIOUS
    <3>1. x = s /\ v = "idle"
      BY <1>2, <2>1
    <3> QED
      BY <2>2, <3>1
  <2>4. dispatcher.pc = "start" =>
           \/ dispatcher'.pc \in {"start", "replyErr"}
           \/ Good' => Queued({"starting", "recording"})'
    BY <2>2
  <2>5. /\ dispatcher.pc \in {"replyErr", "setActive", "listing", "stop"} =>
              dispatcher' = dispatcher
    OBVIOUS
  <2> QED
    BY <1>0, <1>1, <2>1, <2>3, <2>4, <2>5, LockMoves
<1>7. SinkInv'
  <2>1. \A x \in T!Session : phase[x] \in {"finishing", "ended"} =>
                                   phase'[x] \in {"finishing", "ended"}
    BY <1>2
  <2> QED
    BY <1>0, <1>1, <2>1, SinkMoves
<1> QED
  BY <1>4, <1>5, <1>6, <1>7 DEF TrayInv

LEMMA StepAcceptStart ==
    ASSUME TrayInv, NEW s \in T!Session, NEW byTray \in BOOLEAN, T!AcceptStart(s, byTray)
    PROVE  TrayInv'
<1>0. TrayTypes /\ None \notin T!Session
  BY SessionsAre DEF TrayInv, TrayTypes, DaemonTypes
<1>1. /\ phase[s] = "none" /\ phase' = [phase EXCEPT ![s] = "starting"] /\ slot' = s
      /\ T!Announce(s, "starting")
      /\ UNCHANGED <<bound, up, compat, activeFile, lastFile, pump, status, tray, cmdQueue,
                     daemonReady, sinkQueue, sunk, shutdown>>
      /\ byTray => dispatcher.pc = "start"
      /\ dispatcher' = IF byTray THEN [pc |-> "serving", arg |-> s] ELSE dispatcher
  BY DEF T!AcceptStart, T!pumpVars, T!sinkVars
<1>2. phase'[s] = "starting" /\ "starting" \in Phase /\ "starting" \in T!WireState
  BY <1>0, <1>1 DEF TrayTypes, DaemonTypes, Phase, T!WireState
<1>3. dispatcher' \in Calls
  BY <1>0, <1>1 DEF TrayTypes, TaskTypes, Calls, Pc, Maybe
<1>4. "starting" \in Owns /\ "starting" \notin Over /\ "none" \notin Stopping
  BY DEF Owns, Over, Stopping, Released
<1> QED
  BY <1>1, <1>2, <1>3, <1>4, Announces

LEMMA StepStartEnds ==
    ASSUME TrayInv, NEW s \in T!Session, T!StartSucceeds(s) \/ T!StartFails(s)
    PROVE  TrayInv'
<1>0. TrayTypes /\ phase \in [T!Session -> Phase] /\ (slot # None => phase[slot] \in Owns)
  BY DEF TrayInv, TrayTypes, DaemonTypes
<1>1. /\ {"recording", "ended"} \subseteq Phase /\ {"recording", "failed"} \subseteq T!WireState
      /\ "recording" \in Owns /\ "recording" \notin Over /\ "starting" \notin Stopping
  BY DEF Phase, T!WireState, Owns, Over, Stopping, Released
<1>2. CASE T!StartSucceeds(s)
  <2>1. /\ phase[s] = "starting" /\ phase' = [phase EXCEPT ![s] = "recording"]
        /\ activeFile' = s /\ T!Announce(s, "recording") /\ T!Reply(s, TRUE)
        /\ UNCHANGED <<bound, up, compat, slot, lastFile, pump, status, tray, cmdQueue,
                       daemonReady, sinkQueue, sunk, shutdown>>
    BY <1>2 DEF T!StartSucceeds, T!pumpVars, T!sinkVars
  <2>2. slot' # None => phase'[slot'] \in Owns
    <3>1. slot \in Maybe(T!Session)
      BY <1>0 DEF TrayTypes, DaemonTypes
    <3> QED
      BY <1>0, <1>1, <2>1, <3>1 DEF Maybe
  <2> QED
    BY <1>0, <1>1, <2>1, <2>2, ReplyIs, Announces
<1>3. CASE T!StartFails(s)
  <2>1. /\ phase[s] = "starting" /\ phase' = [phase EXCEPT ![s] = "ended"]
        /\ slot' = None /\ T!Announce(s, "failed") /\ T!Reply(s, FALSE)
        /\ UNCHANGED <<bound, up, compat, activeFile, lastFile, pump, status, tray, cmdQueue,
                       daemonReady, sinkQueue, sunk, shutdown>>
    BY <1>3 DEF T!StartFails, T!pumpVars, T!sinkVars
  <2> QED
    BY <1>0, <1>1, <2>1, ReplyIs, Announces
<1> QED
  BY <1>2, <1>3

LEMMA StepSessionEnds ==
    ASSUME TrayInv, NEW s \in T!Session, T!SessionEnds(s)
    PROVE  TrayInv'
<1>0. /\ TrayTypes /\ phase \in [T!Session -> Phase] /\ slot \in Maybe(T!Session)
      /\ slot # None => phase[slot] \in Owns
      /\ dispatcher \in Calls
  BY DEF TrayInv, TrayTypes, DaemonTypes, TaskTypes
<1>1. PICK v \in {"idle", "failed"} :
         /\ phase[s] \in {"finishing", "failing"} /\ phase' = [phase EXCEPT ![s] = "ended"]
         /\ T!Announce(s, v) /\ activeFile' = None
         /\ UNCHANGED <<bound, up, compat, slot, lastFile, pump, status, tray, cmdQueue,
                        dispatcher, daemonReady, sinkQueue, sunk, shutdown>>
  BY DEF T!SessionEnds, T!pumpVars, T!sinkVars, T!cmdVars
<1>2. slot' # None => phase'[slot'] \in Owns
  BY <1>0, <1>1 DEF Maybe, Owns
<1>3. "ended" \in Phase /\ {"idle", "failed"} \subseteq T!WireState
  BY DEF Phase, T!WireState
<1> QED
  BY <1>0, <1>1, <1>2, <1>3, Announces

LEMMA StepDrainEnds ==
    ASSUME TrayInv, NEW s \in T!Session, T!DrainEnds(s, TRUE)
    PROVE  TrayInv'
<1>0. /\ TrayTypes /\ phase \in [T!Session -> Phase] /\ slot \in Maybe(T!Session)
      /\ slot # None => phase[slot] \in Owns
      /\ dispatcher \in Calls
  BY DEF TrayInv, TrayTypes, DaemonTypes, TaskTypes
<1>1. /\ phase[s] = "draining" /\ phase' = [phase EXCEPT ![s] = "stopping"]
      /\ T!Announce(s, "stopping")
      /\ UNCHANGED <<bound, up, compat, slot, activeFile, lastFile, pump, status, tray,
                     cmdQueue, dispatcher, daemonReady, sinkQueue, sunk, shutdown>>
  BY DEF T!DrainEnds, T!pumpVars, T!sinkVars, T!cmdVars
<1>2. slot' # None => phase'[slot'] \in Owns
  BY <1>0, <1>1 DEF Maybe, Owns
<1>3. /\ "stopping" \in Phase /\ "stopping" \in T!WireState /\ "stopping" \notin Over
      /\ "stopping" \in Stopping
  BY DEF Phase, T!WireState, Over, Stopping
<1> QED
  BY <1>0, <1>1, <1>2, <1>3, Announces

(* A step that announces nothing.                                          *)
LEMMA Silent ==
    ASSUME TrayInv, NEW s \in T!Session, NEW p \in Phase \ Over,
           phase' = [phase EXCEPT ![s] = p], phase[s] \notin {"finishing", "ended"},
           slot' \in {slot, None}, slot' # None => phase'[slot'] \in Owns,
           lastFile' \in Maybe([id : T!Session, full : BOOLEAN]),
           queues' \in Queues, queues'.state = queues.state, queues'.owner = queues.owner,
           ~Hears => queues' = queues,
           dispatcher' \in Calls,
           dispatcher' = dispatcher \/ (dispatcher.pc = "stop" /\ p \in Stopping),
           (slot' = slot /\ phase[s] \notin Released) \/ p \in Released,
           phase[s] \in Stopping => p \in Stopping,
           UNCHANGED <<bound, up, compat, activeFile, signalled, pump, status, tray, cmdQueue,
                       daemonReady, sinkQueue, sunk, shutdown, seen>>
    PROVE  /\ TrayTypes' /\ ViewInv' /\ LockInv'
           /\ queues'.transcribed = queues.transcribed => TrayInv'
<1>0. TrayTypes /\ ViewInv /\ LockInv /\ SinkInv
  BY DEF TrayInv
<1>1. /\ phase'[s] = p /\ (\A x \in T!Session \ {s} : phase'[x] = phase[x])
      /\ T!Session' = T!Session
  BY <1>0, SameBound DEF TrayTypes, DaemonTypes
<1>2. signalled \in T!WireState /\ seen \in Seen /\ Len(queues.state) \in Nat
  <2>1. queues.state \in Seq(Signal)
    BY <1>0 DEF TrayTypes, PumpTypes, Queues
  <2> QED
    BY <1>0, <2>1 DEF TrayTypes, DaemonTypes, TaskTypes
<1>3. TrayTypes'
  BY <1>0, <1>2, TypesMove
<1>4. ViewInv'
  <2>1. SomeActive'
    BY <1>1 DEF SomeActive
  <2>2. (slot' = slot /\ (SomeReleased => SomeReleased')) \/ SomeReleased'
    <3>1. CASE p \in Released
      BY <1>1, <3>1 DEF SomeReleased
    <3>2. CASE slot' = slot /\ phase[s] \notin Released
      BY <1>1, <3>2 DEF SomeReleased
    <3> QED
      BY <3>1, <3>2
  <2> QED
    BY <1>0, <2>1, <2>2, ViewSilent
<1>5. LockInv'
  <2>1. \A x \in T!Session : phase[x] \in Stopping => phase'[x] \in Stopping
    BY <1>1
  <2>2. dispatcher.pc = "stop" => \/ dispatcher'.pc \in {"stop", "replyErr"}
                                  \/ \E x \in T!Session : phase'[x] \in Stopping
    BY <1>1
  <2>3. Good' <=> Good
    BY DEF Good
  <2>4. dispatcher.pc \in {"start", "replyErr", "setActive", "listing"} =>
           dispatcher' = dispatcher
    OBVIOUS
  <2> QED
    BY <1>0, <1>2, <2>1, <2>2, <2>3, <2>4, LockMoves
<1>6. ASSUME queues'.transcribed = queues.transcribed
      PROVE  TrayInv'
  <2>1. \A x \in T!Session : phase[x] \in {"finishing", "ended"} =>
                                   phase'[x] \in {"finishing", "ended"}
    BY <1>1
  <2>2. SinkInv'
    BY <1>0, <1>6, <2>1, SinkMoves
  <2> QED
    BY <1>3, <1>4, <1>5, <2>2 DEF TrayInv
<1> QED
  BY <1>3, <1>4, <1>5, <1>6

LEMMA StepStopBegins ==
    ASSUME TrayInv, NEW s \in T!Session, NEW byTray \in BOOLEAN, T!StopBegins(s, byTray)
    PROVE  TrayInv'
<1>0. /\ TrayTypes /\ phase \in [T!Session -> Phase] /\ slot \in Maybe(T!Session)
      /\ (slot # None => phase[slot] \in Owns) /\ queues \in Queues
      /\ dispatcher \in Calls
      /\ lastFile \in Maybe([id : T!Session, full : BOOLEAN])
  BY DEF TrayInv, TrayTypes, DaemonTypes, TaskTypes, PumpTypes
<1>1. /\ phase[s] = "recording" /\ phase' = [phase EXCEPT ![s] = "draining"]
      /\ UNCHANGED <<bound, up, compat, slot, activeFile, lastFile, signalled, pump, status,
                     queues, tray, cmdQueue, daemonReady, sinkQueue, sunk, shutdown, seen>>
      /\ \/ dispatcher' = dispatcher
         \/ dispatcher.pc = "stop" /\ dispatcher' = [pc |-> "replyOk", arg |-> None]
  BY DEF T!StopBegins, T!pumpVars, T!sinkVars
<1>2. dispatcher' \in Calls
  BY <1>0, <1>1 DEF Calls, Pc, Maybe
<1>3. slot' # None => phase'[slot'] \in Owns
  BY <1>0, <1>1 DEF Maybe, Owns
<1>4. /\ "draining" \in Phase \ Over /\ "draining" \in Stopping
      /\ "recording" \notin Released
  BY DEF Phase, Over, Stopping, Released
<1> QED
  BY <1>0, <1>1, <1>2, <1>3, <1>4, Silent

LEMMA StepDrainBreaks ==
    ASSUME TrayInv, NEW s \in T!Session, T!DrainEnds(s, FALSE)
    PROVE  TrayInv'
<1>0. /\ TrayTypes /\ phase \in [T!Session -> Phase] /\ slot \in Maybe(T!Session)
      /\ (slot # None => phase[slot] \in Owns) /\ queues \in Queues
      /\ dispatcher \in Calls
      /\ lastFile \in Maybe([id : T!Session, full : BOOLEAN])
  BY DEF TrayInv, TrayTypes, DaemonTypes, TaskTypes, PumpTypes
<1>1. /\ phase[s] = "draining" /\ phase' = [phase EXCEPT ![s] = "broken"]
      /\ UNCHANGED <<bound, up, compat, slot, activeFile, lastFile, signalled, pump, status,
                     queues, tray, cmdQueue, dispatcher, daemonReady, sinkQueue, sunk,
                     shutdown, seen>>
  BY DEF T!DrainEnds, T!pumpVars, T!sinkVars, T!cmdVars
<1>2. slot' # None => phase'[slot'] \in Owns
  BY <1>0, <1>1 DEF Maybe, Owns
<1>3. /\ "broken" \in Phase \ Over /\ "broken" \in Stopping
      /\ "draining" \notin Released
  BY DEF Phase, Over, Stopping, Released
<1> QED
  BY <1>0, <1>1, <1>2, <1>3, Silent

LEMMA StepRecordingCompletes ==
    ASSUME TrayInv, NEW s \in T!Session, T!RecordingCompletes(s)
    PROVE  TrayInv'
<1>0. /\ TrayTypes /\ phase \in [T!Session -> Phase]
      /\ dispatcher \in Calls
  BY DEF TrayInv, TrayTypes, DaemonTypes, TaskTypes
<1>1. PICK p \in {"released", "failing"} :
         /\ phase[s] \in {"stopping", "broken"} /\ phase' = [phase EXCEPT ![s] = p]
         /\ lastFile' = [id |-> s, full |-> FALSE] /\ T!Deliver("recorded", s)
         /\ slot' = None
         /\ UNCHANGED <<bound, up, compat, activeFile, signalled, pump, status, tray, cmdQueue,
                        dispatcher, daemonReady, sinkQueue, sunk, shutdown, seen>>
  BY DEF T!RecordingCompletes, T!pumpVars, T!sinkVars, T!cmdVars
<1>2. /\ p \in Phase \ Over /\ p \in Stopping /\ p \in Released
  BY DEF Phase, Over, Stopping, Released
<1>3. lastFile' \in Maybe([id : T!Session, full : BOOLEAN])
  BY <1>1 DEF Maybe
<1> QED
  BY <1>0, <1>1, <1>2, <1>3, DeliverRecorded, Silent

LEMMA StepNoTranscript ==
    ASSUME TrayInv, NEW s \in T!Session, T!NoTranscript(s)
    PROVE  TrayInv'
<1>0. /\ TrayTypes /\ phase \in [T!Session -> Phase] /\ slot \in Maybe(T!Session)
      /\ (slot # None => phase[slot] \in Owns) /\ queues \in Queues
      /\ dispatcher \in Calls
      /\ lastFile \in Maybe([id : T!Session, full : BOOLEAN])
  BY DEF TrayInv, TrayTypes, DaemonTypes, TaskTypes, PumpTypes
<1>1. PICK p \in {"finishing", "failing"} :
         /\ phase[s] = "released" /\ phase' = [phase EXCEPT ![s] = p]
         /\ UNCHANGED <<bound, up, compat, slot, activeFile, lastFile, signalled, pump, status,
                        queues, tray, cmdQueue, dispatcher, daemonReady, sinkQueue, sunk,
                        shutdown, seen>>
  BY DEF T!NoTranscript, T!pumpVars, T!sinkVars, T!cmdVars
<1>2. slot' # None => phase'[slot'] \in Owns
  BY <1>0, <1>1 DEF Maybe, Owns
<1>3. /\ p \in Phase \ Over /\ p \in Stopping /\ p \in Released
  BY DEF Phase, Over, Stopping, Released
<1> QED
  BY <1>0, <1>1, <1>2, <1>3, Silent

LEMMA StepTranscriptCompletes ==
    ASSUME TrayInv, NEW s \in T!Session, T!TranscriptCompletes(s)
    PROVE  TrayInv'
<1>0. /\ TrayTypes /\ SinkInv /\ phase \in [T!Session -> Phase] /\ slot \in Maybe(T!Session)
      /\ (slot # None => phase[slot] \in Owns) /\ queues \in Queues
      /\ dispatcher \in Calls
      /\ sunk \in Seq(T!Session) /\ sinkQueue \in Seq(T!Session)
  BY DEF TrayInv, TrayTypes, DaemonTypes, TaskTypes, PumpTypes
<1>1. /\ phase[s] = "released" /\ phase' = [phase EXCEPT ![s] = "finishing"]
      /\ lastFile' = [id |-> s, full |-> TRUE] /\ T!Deliver("transcribed", s)
      /\ UNCHANGED <<bound, up, compat, slot, activeFile, signalled, pump, status, tray,
                     cmdQueue, dispatcher, daemonReady, sinkQueue, sunk, shutdown, seen>>
  BY DEF T!TranscriptCompletes, T!pumpVars, T!sinkVars, T!cmdVars
<1>2. slot' # None => phase'[slot'] \in Owns
  BY <1>0, <1>1 DEF Maybe, Owns
<1>3. /\ "finishing" \in Phase \ Over /\ "finishing" \in Stopping /\ "finishing" \in Released
  BY DEF Phase, Over, Stopping, Released
<1>4. lastFile' \in Maybe([id : T!Session, full : BOOLEAN])
  BY <1>1 DEF Maybe
<1>5. /\ queues' \in Queues /\ queues'.state = queues.state /\ queues'.owner = queues.owner
      /\ ~Hears => queues' = queues
      /\ queues'.transcribed \in {queues.transcribed, Append(queues.transcribed, s)}
  BY <1>0, <1>1, DeliverTranscribed
<1>6. /\ TrayTypes' /\ ViewInv' /\ LockInv'
      /\ queues'.transcribed = queues.transcribed => TrayInv'
  BY <1>0, <1>1, <1>2, <1>3, <1>4, <1>5, Silent
<1>7. ASSUME queues'.transcribed = Append(queues.transcribed, s)
      PROVE  SinkInv'
  <2>1. /\ phase'[s] = "finishing" /\ \A x \in T!Session \ {s} : phase'[x] = phase[x]
    BY <1>0, <1>1
  <2>2. PICK q \in Seq(T!Session), r \in Seq(T!Session) :
           q = queues.transcribed /\ r = Append(q, s) /\ queues'.transcribed = r
    <3>1. queues.transcribed \in Seq(T!Session)
      BY <1>0 DEF Queues
    <3> QED
      BY <1>7, <3>1, AppendIs
  <2>3. /\ \A i \in 1 .. Len(q) : i \in 1 .. Len(r) /\ r[i] = q[i]
        /\ r[Len(r)] = s /\ \A i \in 1 .. Len(r) : i \in 1 .. Len(q) \/ i = Len(r)
    BY <2>2, AppendIs
  <2>4. \A x \in Seq(T!Session) : Complete(x) =>
           \A i \in 1 .. Len(x) : x[i] # s /\ phase'[x[i]] \in {"finishing", "ended"}
    BY <1>1, <2>1 DEF Complete
  <2>5. /\ \A i \in 1 .. Len(sunk) : sunk[i] # s /\ phase'[sunk[i]] \in {"finishing", "ended"}
        /\ \A i \in 1 .. Len(sinkQueue) : /\ sinkQueue[i] # s
                                          /\ phase'[sinkQueue[i]] \in {"finishing", "ended"}
        /\ \A i \in 1 .. Len(q) : q[i] # s /\ phase'[q[i]] \in {"finishing", "ended"}
    BY <1>0, <2>2, <2>4 DEF SinkInv
  <2>6. Complete(sunk)' /\ Complete(sinkQueue)' /\ Distinct(sunk)' /\ Distinct(sinkQueue)'
        /\ Disjoint(sunk, sinkQueue)'
    BY <1>0, <1>1, <2>5 DEF SinkInv, Complete, Distinct, Disjoint
  <2>7. \A i \in 1 .. Len(r) : phase'[r[i]] \in {"finishing", "ended"}
    BY <2>1, <2>3, <2>5
  <2>8. \A i, j \in 1 .. Len(r) : r[i] = r[j] => i = j
    <3>1. \A i, j \in 1 .. Len(q) : q[i] = q[j] => i = j
      BY <1>0, <2>2 DEF SinkInv, Distinct
    <3> QED
      BY <2>3, <2>5, <3>1
  <2>9. /\ \A i \in 1 .. Len(sunk), j \in 1 .. Len(r) : sunk[i] # r[j]
        /\ \A i \in 1 .. Len(sinkQueue), j \in 1 .. Len(r) : sinkQueue[i] # r[j]
    <3>1. /\ \A i \in 1 .. Len(sunk), j \in 1 .. Len(q) : sunk[i] # q[j]
          /\ \A i \in 1 .. Len(sinkQueue), j \in 1 .. Len(q) : sinkQueue[i] # q[j]
      BY <1>0, <2>2 DEF SinkInv, Disjoint
    <3>2. \A j \in 1 .. Len(r) : r[j] = s \/ \E k \in 1 .. Len(q) : r[j] = q[k]
      BY <2>3
    <3>3. \A i \in 1 .. Len(sunk), j \in 1 .. Len(r) : sunk[i] # r[j]
      BY <2>5, <3>1, <3>2
    <3>4. \A i \in 1 .. Len(sinkQueue), j \in 1 .. Len(r) : sinkQueue[i] # r[j]
      BY <2>5, <3>1, <3>2
    <3> QED
      BY <3>3, <3>4
  <2>10. Complete(queues.transcribed)' /\ Distinct(queues.transcribed)'
    BY <2>2, <2>7, <2>8 DEF Complete, Distinct
  <2>11. Disjoint(sunk, queues.transcribed)' /\ Disjoint(sinkQueue, queues.transcribed)'
    BY <1>1, <2>2, <2>9 DEF Disjoint
  <2> QED
    BY <2>6, <2>10, <2>11 DEF SinkInv
<1> QED
  BY <1>5, <1>6, <1>7 DEF TrayInv

(* The process of the daemon dies, and is started again.                   *)
LEMMA StepCrash ==
    ASSUME TrayInv, T!Crash
    PROVE  TrayInv'
<1>0. /\ TrayTypes /\ ViewInv /\ SinkInv /\ phase \in [T!Session -> Phase]
      /\ seen \in Seen
  BY DEF TrayInv, TrayTypes, DaemonTypes, TaskTypes
<1>1. /\ up' = FALSE /\ slot' = None /\ T!Deliver("owner", "lost")
      /\ phase' = [s \in T!Session |-> IF phase[s] = "none" THEN "none" ELSE "ended"]
      /\ dispatcher' \in {dispatcher, [pc |-> "replyErr", arg |-> None]}
      /\ seen' = [seen EXCEPT !.crashes = seen.crashes + 1]
      /\ UNCHANGED <<bound, compat, activeFile, lastFile, signalled, pump, status, tray,
                     cmdQueue, daemonReady, sinkQueue, sunk, shutdown>>
  BY DEF T!Crash, T!pumpVars, T!sinkVars
<1>2. /\ queues' \in Queues /\ queues'.transcribed = queues.transcribed
      /\ T!Session' = T!Session /\ Queues' = Queues /\ Calls' = Calls
      /\ TrayStates' = TrayStates
      /\ pump \in {"connecting", "verified", "backoff"} => queues' = queues
  BY <1>0, <1>1, DeliverOwner, SameBound DEF Connected
<1>3. seen' \in Seen /\ seen'.crashes # 0
  BY <1>0, <1>1 DEF Seen
<1>4. TrayTypes'
  <2>1. DaemonTypes'
    BY <1>0, <1>1, <1>2 DEF TrayTypes, DaemonTypes, Phase, Maybe, T!WireState
  <2>2. PumpTypes'
    BY <1>0, <1>1, <1>2 DEF TrayTypes, PumpTypes
  <2>3. dispatcher' \in Calls
    BY <1>0, <1>1 DEF TrayTypes, TaskTypes, Calls, Pc, Maybe
  <2>4. TaskTypes'
    BY <1>0, <1>1, <1>2, <1>3, <2>3 DEF TrayTypes, TaskTypes, Maybe, Seen, T!Command
  <2> QED
    BY <2>1, <2>2, <2>4 DEF TrayTypes
<1>5. ViewInv'
  BY <1>0, <1>1, <1>2 DEF ViewInv, T!NoQueues
<1>6. LockInv'
  BY <1>3 DEF LockInv, Good
<1>7. SinkInv'
  <2>1. \A x \in T!Session : phase[x] \in {"finishing", "ended"} =>
                                   phase'[x] \in {"finishing", "ended"}
    BY <1>1
  <2> QED
    BY <1>0, <1>1, <1>2, <2>1, SinkMoves
<1> QED
  BY <1>4, <1>5, <1>6, <1>7 DEF TrayInv

LEMMA StepRestart ==
    ASSUME TrayInv, T!Restart
    PROVE  TrayInv'
<1>0. /\ TrayTypes /\ ViewInv /\ LockInv /\ SinkInv
      /\ queues \in Queues
  BY DEF TrayInv, TrayTypes, PumpTypes
<1>1. /\ up' = TRUE /\ compat' \in BOOLEAN /\ activeFile' = None /\ signalled' = "idle"
      /\ \/ lastFile' = lastFile
         \/ activeFile # None /\ lastFile' = [id |-> activeFile, full |-> FALSE]
      /\ T!Deliver("owner", "owned")
      /\ UNCHANGED <<bound, phase, slot, pump, status, tray, cmdQueue, dispatcher,
                     daemonReady, sinkQueue, sunk, shutdown>>
  <2>1. compat' \in {TRUE, ~bound.late} /\ bound \in Bounds
    BY <1>0 DEF T!Restart, TrayTypes, DaemonTypes
  <2>2. bound.late \in BOOLEAN
    BY <2>1, TrayAssumption
  <2> QED
    BY <2>1, <2>2 DEF T!Restart, T!pumpVars, T!sinkVars, T!cmdVars
<1>2. /\ queues' \in Queues /\ queues'.transcribed = queues.transcribed
      /\ queues'.state = queues.state
      /\ Connected => queues'.owner # << >>
      /\ ~Connected => queues' = queues
      /\ T!Session' = T!Session /\ Queues' = Queues /\ Calls' = Calls
      /\ TrayStates' = TrayStates
  BY <1>0, <1>1, DeliverOwner, SameBound
<1>7. /\ seen' \in Seen /\ (Good' => Good)
      /\ T!InGap /\ queues.state # << >> => seen'.stale
  <2>1. PICK a \in BOOLEAN : a = (seen.replaced \/ T!InGap)
    <3>1. (seen.replaced \/ T!InGap) \in BOOLEAN
      OBVIOUS
    <3> QED
      BY <3>1, Zenon
  <2>2. PICK b \in BOOLEAN : b = (seen.stale \/ (T!InGap /\ queues.state # << >>))
    <3>1. (seen.stale \/ (T!InGap /\ queues.state # << >>)) \in BOOLEAN
      OBVIOUS
    <3> QED
      BY <3>1, Zenon
  <2>3. seen' = [seen EXCEPT !.replaced = a, !.stale = b]
    BY <2>1, <2>2 DEF T!Restart
  <2>4. seen \in Seen
    BY <1>0 DEF TrayTypes, TaskTypes
  <2>5. /\ seen' \in Seen /\ seen'.stale = b /\ seen'.missed = seen.missed
        /\ seen'.failed = seen.failed /\ seen'.crashes = seen.crashes
    BY <2>3, <2>4 DEF Seen
  <2> QED
    BY <2>2, <2>5 DEF Good
<1>3. TrayTypes'
  <2>1. lastFile' \in Maybe([id : T!Session, full : BOOLEAN])
    <3>1. activeFile # None => activeFile \in T!Session
      BY <1>0 DEF TrayTypes, DaemonTypes, Maybe
    <3>2. lastFile \in Maybe([id : T!Session, full : BOOLEAN])
      BY <1>0 DEF TrayTypes, DaemonTypes
    <3>3. CASE lastFile' = lastFile
      BY <3>2, <3>3
    <3>4. CASE activeFile # None /\ lastFile' = [id |-> activeFile, full |-> FALSE]
      BY <3>1, <3>4 DEF Maybe
    <3> QED
      BY <1>1, <3>3, <3>4
  <2>2. DaemonTypes'
    BY <1>0, <1>1, <1>2, <2>1 DEF TrayTypes, DaemonTypes, Maybe, T!WireState
  <2>3. PumpTypes'
    BY <1>0, <1>1, <1>2 DEF TrayTypes, PumpTypes
  <2>4. TaskTypes'
    BY <1>0, <1>1, <1>2, <1>7 DEF TrayTypes, TaskTypes, Maybe, Seen, T!Command
  <2> QED
    BY <2>2, <2>3, <2>4 DEF TrayTypes
<1>4. ViewInv'
  <2>1. pump \in {"connecting", "verified", "backoff"} => queues' = T!NoQueues
    BY <1>0, <1>2 DEF ViewInv, Connected
  <2>2. CASE Connected
    BY <1>1, <1>2, <2>1, <2>2 DEF ViewInv, T!NoQueues
  <2>3. CASE T!InGap
    BY <1>1, <1>2, <1>7, <2>1, <2>3 DEF ViewInv, T!InGap, T!NoQueues
  <2>4. CASE ~Connected /\ ~T!InGap
    BY <1>1, <2>1, <2>4 DEF ViewInv, T!InGap, Connected, Hears, T!NoQueues
  <2> QED
    BY <2>2, <2>3, <2>4
<1>5. LockInv'
  BY <1>0, <1>1, <1>2, <1>7 DEF LockInv, Queued
<1>6. SinkInv'
  BY <1>0, <1>1, <1>2, SinkMoves
<1> QED
  BY <1>3, <1>4, <1>5, <1>6 DEF TrayInv

-----------------------------------------------------------------------------
(* The steps of the menu, the dispatcher and the sinks.                    *)

(* They leave the daemon and what the tray shows alone.                    *)
LEMMA TaskMoves ==
    ASSUME TrayInv, NEW c \in Maybe(T!Command), tray' = [tray EXCEPT !.pending = c],
           UNCHANGED <<bound, up, compat, phase, slot, activeFile, lastFile, signalled, pump,
                       status, queues, sinkQueue, sunk>>,
           cmdQueue' \in Seq(T!Command), Len(cmdQueue') <= CmdCapacity,
           dispatcher' \in Calls,
           daemonReady' \in BOOLEAN, shutdown' \in BOOLEAN, seen' \in Seen,
           seen'.stale = seen.stale, LockInv'
    PROVE  TrayInv'
<1>0. /\ TrayTypes /\ ViewInv /\ SinkInv /\ T!Session' = T!Session /\ Queues' = Queues
      /\ Calls' = Calls /\ TrayStates' = TrayStates
  BY SameBound DEF TrayInv
<1>1. /\ tray' \in TrayStates
      /\ tray'.icon = tray.icon /\ tray'.session = tray.session
  BY <1>0 DEF TrayTypes, PumpTypes, TrayStates
<1>2. TrayTypes'
  <2>1. DaemonTypes'
    BY <1>0 DEF TrayTypes, DaemonTypes, Maybe, T!WireState
  <2>2. PumpTypes'
    BY <1>0, <1>1 DEF TrayTypes, PumpTypes
  <2>3. TaskTypes'
    BY <1>0 DEF TrayTypes, TaskTypes, Maybe, Seen, T!Command
  <2> QED
    BY <2>1, <2>2, <2>3 DEF TrayTypes
<1>3. ViewInv'
  BY <1>0, <1>1 DEF ViewInv, Hears, Connected, T!NoQueues, SomeActive, SomeReleased, SlotStatus
<1>4. SinkInv'
  BY <1>0, SinkMoves
<1> QED
  BY <1>2, <1>3, <1>4 DEF TrayInv

LEMMA TaskFacts ==
    ASSUME TrayInv
    PROVE  /\ TrayTypes /\ LockInv
           /\ cmdQueue \in Seq(T!Command) /\ Len(cmdQueue) <= CmdCapacity
           /\ dispatcher \in Calls
           /\ daemonReady \in BOOLEAN /\ shutdown \in BOOLEAN /\ seen \in Seen /\ up \in BOOLEAN
           /\ compat \in BOOLEAN /\ tray.session \in Maybe(T!Session)
           /\ tray.pending \in Maybe(T!Command)
           /\ tray = [tray EXCEPT !.pending = tray.pending]
           /\ None \notin T!Command /\ CmdCapacity \in Nat /\ queues.state \in Seq(Signal)
           /\ Len(queues.state) \in Nat
<1>1. /\ TrayTypes /\ LockInv /\ bound \in Bounds
  BY DEF TrayInv, TrayTypes, DaemonTypes
<1>2. queues.state \in Seq(Signal)
  BY <1>1 DEF TrayTypes, PumpTypes, Queues
<1> QED
  BY <1>1, <1>2, SessionsAre DEF TrayTypes, DaemonTypes, PumpTypes, TaskTypes, TrayStates

LEMMA StepAnswer ==
    ASSUME TrayInv, T!Answer
    PROVE  TrayInv'
<1>0. /\ TrayTypes /\ LockInv /\ tray.pending \in Maybe(T!Command)
      /\ Len(queues.state) \in Nat /\ slot \in Maybe(T!Session)
      /\ slot # None => phase[slot] \in Owns
      /\ dispatcher \in Calls
  BY TaskFacts DEF TrayTypes, DaemonTypes
<1>1. /\ UNCHANGED <<bound, up, compat, phase, slot, activeFile, lastFile, signalled, pump,
                     status, queues, sinkQueue, sunk, tray, cmdQueue, daemonReady, shutdown,
                     seen>>
      /\ dispatcher.pc \in {"start", "stop"}
      /\ \/ dispatcher' = [pc |-> "replyErr", arg |-> None]
         \/ /\ dispatcher.pc = "stop" /\ up /\ slot = dispatcher.arg
            /\ phase[slot] \notin {"recording", "starting"}
            /\ dispatcher' = [pc |-> "replyOk", arg |-> None]
  BY DEF T!Answer, T!daemonVars, T!pumpVars, T!sinkVars
<1>2. dispatcher' \in Calls
  BY <1>1 DEF Calls, Pc, Maybe
<1>3. dispatcher'.pc \in {"stop", "replyErr"} \/ \E s \in T!Session : phase'[s] \in Stopping
  <2>1. CASE dispatcher' = [pc |-> "replyErr", arg |-> None]
    BY <2>1
  <2>2. CASE /\ dispatcher.pc = "stop" /\ slot = dispatcher.arg
             /\ phase[slot] \notin {"recording", "starting"}
    <3>1. slot # None
      BY <1>0, <2>2 DEF Calls
    <3> QED
      BY <1>0, <1>1, <2>2, <3>1 DEF Maybe, Owns, Stopping
  <2> QED
    BY <1>1, <2>1, <2>2
<1>4. LockInv'
  <2>1. Good' <=> Good
    BY <1>1 DEF Good
  <2> QED
    BY <1>0, <1>1, <1>3, <2>1, LockMoves
<1> QED
  BY <1>0, <1>1, <1>2, <1>4, TaskFacts, TaskMoves

(* The lock of the menu while only the tray's own tasks move.              *)
LEMMA LockHolds ==
    ASSUME LockInv, UNCHANGED <<bound, phase, queues>>, Good' => Good,
           tray'.pending = "start" =>
              \/ dispatcher'.pc \in {"start", "replyErr"}
              \/ tray.pending = "start" /\ dispatcher.pc \notin {"start", "replyErr"},
           tray'.pending = "stop" =>
              \/ dispatcher'.pc \in {"stop", "replyErr"}
              \/ tray.pending = "stop" /\ dispatcher.pc \notin {"stop", "replyErr"},
           tray'.pending = "setActive" =>
              \/ dispatcher'.pc \in {"setActive", "listing"}
              \/ /\ tray.pending = "setActive"
                 /\ dispatcher.pc \notin {"setActive", "listing"}
    PROVE  LockInv'
<1>1. T!Session' = T!Session
  BY SameBound
<1>2. \A V : Queued(V)' <=> Queued(V)
  BY DEF Queued
<1> QED
  BY <1>1, <1>2 DEF LockInv

TaskFrame == <<bound, up, compat, phase, slot, activeFile, lastFile, signalled, pump,
               status, queues, sinkQueue, sunk>>

LEMMA StepClick ==
    ASSUME TrayInv, NEW c \in T!Command, T!Click(c)
    PROVE  TrayInv'
<1>0. /\ LockInv /\ cmdQueue \in Seq(T!Command) /\ Len(cmdQueue) <= CmdCapacity /\ seen \in Seen
      /\ CmdCapacity \in Nat
      /\ tray.pending \in Maybe(T!Command) /\ tray = [tray EXCEPT !.pending = tray.pending]
      /\ dispatcher \in Calls /\ daemonReady \in BOOLEAN /\ shutdown \in BOOLEAN
  BY TaskFacts
<1>1. /\ UNCHANGED <<TaskFrame, tray, dispatcher, daemonReady, shutdown>>
      /\ cmdQueue' = IF Len(cmdQueue) < CmdCapacity THEN Append(cmdQueue, c) ELSE cmdQueue
      /\ seen' = [seen EXCEPT !.clicks = seen.clicks + 1]
  BY DEF T!Click, T!daemonVars, T!pumpVars, T!sinkVars, TaskFrame
<1>2. cmdQueue' \in Seq(T!Command) /\ Len(cmdQueue') <= CmdCapacity
  <2>1. /\ Append(cmdQueue, c) \in Seq(T!Command)
        /\ Len(Append(cmdQueue, c)) = Len(cmdQueue) + 1 /\ Len(cmdQueue) \in Nat
    BY <1>0, AppendIs
  <2> QED
    BY <1>0, <1>1, <2>1
<1>3. seen' \in Seen /\ (Good' => Good) /\ seen'.stale = seen.stale
  BY <1>0, <1>1 DEF Seen, Good
<1>4. LockInv'
  BY <1>0, <1>1, <1>3, LockHolds DEF TaskFrame
<1> QED
  BY <1>0, <1>1, <1>2, <1>3, <1>4, TaskMoves DEF TaskFrame

(* A step of the dispatcher that ends in a lock c and a program counter.   *)
LEMMA DispatcherMoves ==
    ASSUME TrayInv, NEW c \in Maybe(T!Command), tray' = [tray EXCEPT !.pending = c],
           UNCHANGED <<TaskFrame, seen>>,
           cmdQueue' = cmdQueue \/ (cmdQueue # << >> /\ cmdQueue' = Tail(cmdQueue)),
           dispatcher' \in Calls, daemonReady' \in BOOLEAN, shutdown' \in BOOLEAN,
           \/ c = tray.pending /\ dispatcher' = dispatcher
           \/ c = tray.pending /\ dispatcher.pc \in {"handshake", "probe", "idle", "replyOk"}
           \/ c = tray.pending /\ dispatcher.pc = "setActive" /\ dispatcher'.pc = "listing"
           \/ c = None
           \/ c = dispatcher'.pc
    PROVE  TrayInv'
<1>0. /\ LockInv /\ cmdQueue \in Seq(T!Command) /\ Len(cmdQueue) <= CmdCapacity /\ seen \in Seen
      /\ CmdCapacity \in Nat /\ None \notin T!Command /\ TrayTypes
  BY TaskFacts
<1>1. cmdQueue' \in Seq(T!Command) /\ Len(cmdQueue') <= CmdCapacity
  <2>1. CASE cmdQueue # << >> /\ cmdQueue' = Tail(cmdQueue)
    <3>1. Tail(cmdQueue) \in Seq(T!Command) /\ Len(Tail(cmdQueue)) = Len(cmdQueue) - 1
          /\ Len(cmdQueue) \in Nat
      BY <1>0, <2>1, TailIs
    <3>2. Len(Tail(cmdQueue)) <= CmdCapacity
      <4>1. CmdCapacity \in Nat /\ Len(cmdQueue) <= CmdCapacity
        BY <1>0
      <4> QED
        BY <3>1, <4>1
    <3> QED
      BY <2>1, <3>1, <3>2
  <2>2. CASE cmdQueue' = cmdQueue
    BY <1>0, <2>2
  <2> QED
    BY <2>1, <2>2
<1>2. tray'.pending = c
  BY <1>0 DEF TrayTypes, PumpTypes, TrayStates
<1>3. Good' => Good
  BY DEF Good
<1>4. LockInv'
  BY <1>0, <1>2, <1>3, LockHolds DEF TaskFrame, T!Command
<1> QED
  BY <1>0, <1>1, <1>4, TaskMoves DEF TaskFrame

LEMMA StepDispatcher ==
    ASSUME TrayInv, T!DispatcherStep
    PROVE  TrayInv'
<1>0. /\ tray.pending \in Maybe(T!Command) /\ tray = [tray EXCEPT !.pending = tray.pending]
      /\ dispatcher \in Calls /\ daemonReady \in BOOLEAN /\ shutdown \in BOOLEAN
      /\ up \in BOOLEAN /\ compat \in BOOLEAN /\ tray.session \in Maybe(T!Session)
      /\ cmdQueue \in Seq(T!Command)
  BY TaskFacts
<1>1. \A p \in Pc \ {"stop"} : [pc |-> p, arg |-> None] \in Calls
  BY DEF Calls, Maybe
<1> DEFINE Still == UNCHANGED <<TaskFrame, seen>>
<1>2. CASE T!Handshake
  <2>1. Still /\ UNCHANGED <<tray, cmdQueue, daemonReady>> /\ dispatcher.pc = "handshake"
    BY <1>2 DEF T!Handshake, T!dispatcherFrame, T!daemonVars, T!pumpVars, T!sinkVars, TaskFrame
  <2>2. dispatcher' \in Calls
    BY <1>1, <1>2 DEF T!Handshake, T!Goto, Pc
  <2>3. shutdown' \in BOOLEAN
    BY <1>0, <1>2 DEF T!Handshake, T!Mismatch
  <2> QED
    BY <1>0, <2>1, <2>2, <2>3, DispatcherMoves
<1>3. CASE T!Probe
  <2>1. Still /\ UNCHANGED <<tray, cmdQueue, shutdown>> /\ dispatcher.pc = "probe"
        /\ daemonReady' = up
    BY <1>3 DEF T!Probe, T!dispatcherFrame, T!daemonVars, T!pumpVars, T!sinkVars, TaskFrame
  <2>2. dispatcher' \in Calls
    BY <1>1, <1>3 DEF T!Probe, T!Goto, Pc
  <2> QED
    BY <1>0, <2>1, <2>2, DispatcherMoves
<1>4. CASE T!TakeCommand
  <2>1. Still /\ UNCHANGED <<daemonReady, shutdown>> /\ dispatcher.pc = "idle"
        /\ cmdQueue # << >> /\ cmdQueue' = Tail(cmdQueue)
    BY <1>4 DEF T!TakeCommand, T!dispatcherFrame, T!daemonVars, T!pumpVars, T!sinkVars,
                TaskFrame
  <2>2. PICK h \in T!Command : h = Head(cmdQueue)
    BY <1>0, <2>1, TailIs
  <2>3. CASE h \in {"start", "setActive"}
    <3>1. tray' = [tray EXCEPT !.pending = h] /\ dispatcher' = [pc |-> h, arg |-> None]
      BY <1>4, <2>2, <2>3 DEF T!TakeCommand, T!Lock, T!Goto
    <3>2. dispatcher' \in Calls
      BY <1>1, <2>3, <3>1 DEF Pc
    <3>3. h \in Maybe(T!Command) /\ h = dispatcher'.pc
      BY <3>1 DEF Maybe
    <3> QED
      BY <1>0, <2>1, <3>1, <3>2, <3>3, DispatcherMoves
  <2>4. CASE h = "stop" /\ tray.session = None
    <3>1. UNCHANGED <<tray, dispatcher>>
      BY <1>4, <2>2, <2>4 DEF T!TakeCommand
    <3> QED
      BY <1>0, <2>1, <3>1, DispatcherMoves
  <2>5. CASE h = "stop" /\ tray.session # None
    <3>1. /\ tray' = [tray EXCEPT !.pending = "stop"]
          /\ dispatcher' = [pc |-> "stop", arg |-> tray.session]
      BY <1>4, <2>2, <2>5 DEF T!TakeCommand, T!Lock
    <3>2. dispatcher' \in Calls
      BY <1>0, <2>5, <3>1 DEF Pc, Calls
    <3>3. "stop" \in Maybe(T!Command) /\ "stop" = dispatcher'.pc
      BY <3>1 DEF Maybe, T!Command
    <3> QED
      BY <1>0, <2>1, <3>1, <3>2, <3>3, DispatcherMoves
  <2> QED
    BY <2>2, <2>3, <2>4, <2>5 DEF T!Command
<1>5. CASE T!ReplyArrives
  <2>1. Still /\ UNCHANGED <<cmdQueue, daemonReady, shutdown>>
        /\ dispatcher.pc \in {"replyOk", "replyErr"}
    BY <1>5 DEF T!ReplyArrives, T!dispatcherFrame, T!daemonVars, T!pumpVars, T!sinkVars,
                TaskFrame
  <2>2. dispatcher' \in Calls /\ None \in Maybe(T!Command)
    BY <1>1, <1>5 DEF T!ReplyArrives, T!Goto, Pc, Maybe
  <2>3. CASE dispatcher.pc = "replyErr"
    <3>1. tray' = [tray EXCEPT !.pending = None]
      BY <1>5, <2>3 DEF T!ReplyArrives
    <3> QED
      BY <1>0, <2>1, <2>2, <3>1, DispatcherMoves
  <2>4. CASE dispatcher.pc = "replyOk"
    <3>1. tray' = tray
      BY <1>5, <2>4 DEF T!ReplyArrives
    <3> QED
      BY <1>0, <2>1, <2>2, <2>4, <3>1, DispatcherMoves
  <2> QED
    BY <2>1, <2>3, <2>4
<1>6. CASE T!SetActive
  <2>1. Still /\ UNCHANGED <<cmdQueue, daemonReady, shutdown>> /\ dispatcher.pc = "setActive"
    BY <1>6 DEF T!SetActive, T!dispatcherFrame, T!daemonVars, T!pumpVars, T!sinkVars, TaskFrame
  <2>2. /\ [pc |-> "listing", arg |-> None] \in Calls /\ [pc |-> "idle", arg |-> None] \in Calls
        /\ None \in Maybe(T!Command)
    BY <1>1 DEF Pc, Maybe
  <2>3. CASE up
    <3>1. tray' = tray /\ dispatcher' = [pc |-> "listing", arg |-> None]
      BY <1>6, <2>3 DEF T!SetActive, T!Goto
    <3> QED
      BY <1>0, <2>1, <2>2, <3>1, DispatcherMoves
  <2>4. CASE ~up
    <3>1. /\ tray' = [tray EXCEPT !.pending = None]
          /\ dispatcher' = [pc |-> "idle", arg |-> None]
      BY <1>6, <2>4 DEF T!SetActive, T!Goto
    <3> QED
      BY <1>0, <2>1, <2>2, <3>1, DispatcherMoves
  <2> QED
    BY <2>3, <2>4
<1>7. CASE T!ListAfterSetActive
  <2>1. /\ Still /\ UNCHANGED <<cmdQueue, daemonReady, shutdown>>
        /\ tray' = [tray EXCEPT !.pending = None]
    BY <1>7 DEF T!ListAfterSetActive, T!dispatcherFrame, T!daemonVars, T!pumpVars, T!sinkVars,
                TaskFrame
  <2>2. dispatcher' \in Calls /\ None \in Maybe(T!Command)
    BY <1>1, <1>7 DEF T!ListAfterSetActive, T!Goto, Pc, Maybe
  <2> QED
    BY <1>0, <2>1, <2>2, DispatcherMoves
<1>8. CASE T!DispatcherShutdown
  <2>1. Still /\ UNCHANGED <<tray, cmdQueue, daemonReady, shutdown>> /\ dispatcher.pc = "idle"
    BY <1>8 DEF T!DispatcherShutdown, T!dispatcherFrame, T!daemonVars, T!pumpVars, T!sinkVars,
                TaskFrame
  <2>2. dispatcher' \in Calls
    BY <1>1, <1>8 DEF T!DispatcherShutdown, T!Goto, Pc
  <2> QED
    BY <1>0, <2>1, <2>2, DispatcherMoves
<1> QED
  BY <1>2, <1>3, <1>4, <1>5, <1>6, <1>7, <1>8 DEF T!DispatcherStep

(* The head of one queue joins the end of another one, or is dropped.      *)
LEMMA MoveHead ==
    ASSUME NEW S, NEW a \in Seq(S), NEW b \in Seq(S), NEW d \in Seq(S), b # << >>,
           Distinct(a), Distinct(b), Disjoint(a, b), Disjoint(a, d), Disjoint(b, d),
           Complete(a), Complete(b)
    PROVE  /\ Append(a, Head(b)) \in Seq(S) /\ Tail(b) \in Seq(S)
           /\ Distinct(Append(a, Head(b))) /\ Distinct(Tail(b))
           /\ Disjoint(Append(a, Head(b)), Tail(b)) /\ Disjoint(a, Tail(b))
           /\ Disjoint(Append(a, Head(b)), d) /\ Disjoint(d, Append(a, Head(b)))
           /\ Disjoint(Tail(b), d) /\ Disjoint(d, Tail(b))
           /\ Complete(Append(a, Head(b))) /\ Complete(Tail(b))
<1>1. PICK r \in Seq(S), t \in Seq(S), e \in S :
         r = Append(a, Head(b)) /\ t = Tail(b) /\ e = Head(b)
  BY TailIs, AppendIs
<1>2. /\ \A i \in 1 .. Len(a) : i \in 1 .. Len(r) /\ r[i] = a[i]
      /\ r[Len(r)] = e
      /\ \A i \in 1 .. Len(r) : i \in 1 .. Len(a) \/ i = Len(r)
  <2>1. r = Append(a, e)
    BY <1>1
  <2> QED
    BY <2>1, AppendIs
<1>3. /\ e = b[1] /\ 1 \in 1 .. Len(b)
      /\ \A i \in 1 .. Len(t) : i \in Int /\ i # 0 /\ i + 1 \in 1 .. Len(b) /\ t[i] = b[i + 1]
  BY <1>1, TailIs
<1>4. /\ \A i, j \in 1 .. Len(a) : a[i] = a[j] => i = j
      /\ \A i, j \in 1 .. Len(b) : b[i] = b[j] => i = j
      /\ \A i \in 1 .. Len(a), j \in 1 .. Len(b) : a[i] # b[j]
      /\ \A i \in 1 .. Len(a), j \in 1 .. Len(d) : a[i] # d[j]
      /\ \A i \in 1 .. Len(b), j \in 1 .. Len(d) : b[i] # d[j]
      /\ \A i \in 1 .. Len(a) : phase[a[i]] \in {"finishing", "ended"}
      /\ \A i \in 1 .. Len(b) : phase[b[i]] \in {"finishing", "ended"}
  BY DEF Distinct, Disjoint, Complete
<1>5. \A i \in 1 .. Len(r) : (i \in 1 .. Len(a) /\ r[i] = a[i]) \/ (i = Len(r) /\ r[i] = b[1])
  BY <1>2, <1>3
<1>6. \A i \in 1 .. Len(t) : i + 1 # 1 /\ i + 1 \in 1 .. Len(b) /\ t[i] = b[i + 1]
  BY <1>3
<1>7. \A i, j \in 1 .. Len(r) : r[i] = r[j] => i = j
  BY <1>3, <1>4, <1>5
<1>8. \A i, j \in 1 .. Len(t) : t[i] = t[j] => i = j
  <2> SUFFICES ASSUME NEW i \in 1 .. Len(t), NEW j \in 1 .. Len(t), t[i] = t[j]
               PROVE  i = j
    OBVIOUS
  <2>1. i + 1 = j + 1
    BY <1>4, <1>6
  <2> QED
    BY <1>3, <2>1
<1>9. \A i \in 1 .. Len(r), j \in 1 .. Len(t) : r[i] # t[j]
  BY <1>3, <1>4, <1>5, <1>6
<1>10. \A i \in 1 .. Len(a), j \in 1 .. Len(t) : a[i] # t[j]
  BY <1>4, <1>6
<1>11. /\ \A i \in 1 .. Len(r), j \in 1 .. Len(d) : r[i] # d[j]
       /\ \A i \in 1 .. Len(t), j \in 1 .. Len(d) : t[i] # d[j]
  <2>1. \A i \in 1 .. Len(r), j \in 1 .. Len(d) : r[i] # d[j]
    BY <1>3, <1>4, <1>5
  <2>2. \A i \in 1 .. Len(t), j \in 1 .. Len(d) : t[i] # d[j]
    BY <1>4, <1>6
  <2> QED
    BY <2>1, <2>2
<1>12. /\ \A i \in 1 .. Len(r) : phase[r[i]] \in {"finishing", "ended"}
       /\ \A i \in 1 .. Len(t) : phase[t[i]] \in {"finishing", "ended"}
  <2>1. \A i \in 1 .. Len(r) : phase[r[i]] \in {"finishing", "ended"}
    BY <1>3, <1>4, <1>5
  <2>2. \A i \in 1 .. Len(t) : phase[t[i]] \in {"finishing", "ended"}
    BY <1>4, <1>6
  <2> QED
    BY <2>1, <2>2
<1>13. /\ Distinct(r) /\ Distinct(t) /\ Disjoint(r, t) /\ Disjoint(a, t) /\ Disjoint(r, d)
       /\ Disjoint(d, r) /\ Disjoint(t, d) /\ Disjoint(d, t) /\ Complete(r) /\ Complete(t)
  BY <1>7, <1>8, <1>9, <1>10, <1>11, <1>12 DEF Distinct, Disjoint, Complete
<1> QED
  BY <1>1, <1>13

LEMMA StepHandleJob ==
    ASSUME TrayInv, T!HandleJob
    PROVE  TrayInv'
<1>0. /\ TrayTypes /\ ViewInv /\ LockInv /\ SinkInv /\ sunk \in Seq(T!Session)
      /\ sinkQueue \in Seq(T!Session) /\ queues.transcribed \in Seq(T!Session)
      /\ Len(sinkQueue) <= SinkCapacity /\ SinkCapacity \in Nat
  BY SessionsAre DEF TrayInv, TrayTypes, DaemonTypes, PumpTypes, TaskTypes, Queues
<1>1. /\ sinkQueue # << >> /\ sunk' = Append(sunk, Head(sinkQueue))
      /\ sinkQueue' = Tail(sinkQueue)
      /\ UNCHANGED <<bound, up, compat, phase, slot, activeFile, lastFile, signalled, pump,
                     status, queues, tray, cmdQueue, dispatcher, daemonReady, shutdown, seen>>
  BY DEF T!HandleJob, T!daemonVars, T!pumpVars, T!cmdVars
<1>2. /\ sunk' \in Seq(T!Session) /\ sinkQueue' \in Seq(T!Session)
      /\ Distinct(sunk') /\ Distinct(sinkQueue') /\ Disjoint(sunk', sinkQueue')
      /\ Disjoint(sunk', queues.transcribed) /\ Disjoint(sinkQueue', queues.transcribed)
      /\ Complete(sunk') /\ Complete(sinkQueue')
  BY <1>0, <1>1, MoveHead DEF SinkInv
<1>3. Len(sinkQueue') <= SinkCapacity
  <2>1. Len(Tail(sinkQueue)) = Len(sinkQueue) - 1 /\ Len(sinkQueue) \in Nat
    BY <1>0, <1>1, TailIs
  <2>2. Len(sinkQueue) <= SinkCapacity /\ SinkCapacity \in Nat
    BY <1>0
  <2>3. Len(Tail(sinkQueue)) <= SinkCapacity
    BY <2>1, <2>2
  <2> QED
    BY <1>1, <2>3
<1>4. /\ T!Session' = T!Session /\ Queues' = Queues /\ Calls' = Calls
      /\ TrayStates' = TrayStates
  BY <1>1, SameBound
<1>5. TrayTypes'
  <2>1. DaemonTypes'
    BY <1>0, <1>1, <1>4 DEF TrayTypes, DaemonTypes, Maybe, T!WireState
  <2>2. PumpTypes'
    BY <1>0, <1>1, <1>4 DEF TrayTypes, PumpTypes
  <2>3. TaskTypes'
    BY <1>0, <1>1, <1>2, <1>3, <1>4 DEF TrayTypes, TaskTypes, Maybe, Seen, T!Command
  <2> QED
    BY <2>1, <2>2, <2>3 DEF TrayTypes
<1>6. ViewInv'
  BY <1>0, <1>1, <1>4 DEF ViewInv, Hears, Connected, T!NoQueues, SomeActive, SomeReleased,
                          SlotStatus
<1>7. LockInv'
  BY <1>0, <1>1, <1>4 DEF LockInv, Good, Queued
<1>8. SinkInv'
  BY <1>0, <1>1, <1>2 DEF SinkInv, Distinct, Disjoint, Complete
<1> QED
  BY <1>5, <1>6, <1>7, <1>8 DEF TrayInv

-----------------------------------------------------------------------------
(* The steps of the pump.                                                  *)

PumpFrame == <<bound, up, compat, phase, slot, activeFile, lastFile, signalled, cmdQueue,
               dispatcher, daemonReady, sunk>>

LEMMA PumpTypesMove ==
    ASSUME TrayTypes, UNCHANGED PumpFrame,
           pump' \in Pump, status' \in {"idle", "recording"}, queues' \in Queues,
           tray' \in TrayStates,
           sinkQueue' \in Seq(T!Session), Len(sinkQueue') <= SinkCapacity,
           shutdown' \in BOOLEAN, seen' \in Seen
    PROVE  TrayTypes'
<1>1. /\ T!Session' = T!Session /\ Queues' = Queues /\ Calls' = Calls
      /\ TrayStates' = TrayStates
  BY SameBound DEF PumpFrame
<1>2. DaemonTypes'
  BY <1>1 DEF PumpFrame, TrayTypes, DaemonTypes, Maybe, T!WireState
<1>3. PumpTypes'
  BY <1>1 DEF PumpTypes
<1>4. TaskTypes'
  BY <1>1 DEF PumpFrame, TrayTypes, TaskTypes, Maybe, Seen, T!Command
<1> QED
  BY <1>2, <1>3, <1>4 DEF TrayTypes

LEMMA PumpFacts ==
    ASSUME TrayInv
    PROVE  /\ TrayTypes /\ ViewInv /\ LockInv /\ SinkInv
           /\ pump \in Pump /\ status \in {"idle", "recording"} /\ queues \in Queues
           /\ tray \in TrayStates /\ sinkQueue \in Seq(T!Session)
           /\ Len(sinkQueue) <= SinkCapacity /\ SinkCapacity \in Nat
           /\ shutdown \in BOOLEAN /\ seen \in Seen /\ None \notin T!Session
           /\ None \notin T!Command /\ up \in BOOLEAN
           /\ slot # None => slot \in T!Session /\ phase[slot] \in Owns
           /\ lastFile # None => lastFile \in [id : T!Session, full : BOOLEAN]
           /\ activeFile \in Maybe(T!Session)
BY SessionsAre DEF TrayInv, TrayTypes, DaemonTypes, PumpTypes, TaskTypes, Maybe

LEMMA EmptyQueues ==
    /\ T!NoQueues \in Queues /\ T!NoQueues.transcribed = << >> /\ T!NoQueues.owner = << >>
    /\ T!NoQueues.state = << >> /\ Len(<< >>) = 0
<1>1. /\ << >> \in Seq({"lost", "owned"}) /\ << >> \in Seq(Signal) /\ << >> \in Seq(T!Session)
      /\ Len(<< >>) = 0
  OBVIOUS
<1> QED
  BY <1>1 DEF T!NoQueues, Queues

(* The pump moves on, or gives up; what was queued stays.                  *)
LEMMA PumpMoves ==
    ASSUME TrayInv, UNCHANGED <<PumpFrame, queues, sinkQueue, seen>>,
           pump' \in Pump, status' \in {"idle", "recording"},
           tray' \in TrayStates, tray'.pending = tray.pending, shutdown' \in BOOLEAN, ViewInv'
    PROVE  TrayInv'
<1>0. TrayTypes /\ LockInv /\ SinkInv /\ queues \in Queues /\ sinkQueue \in Seq(T!Session)
      /\ Len(sinkQueue) <= SinkCapacity /\ seen \in Seen
  BY PumpFacts
<1>1. TrayTypes'
  BY <1>0, PumpTypesMove
<1>2. LockInv'
  <2>1. T!Session' = T!Session
    BY SameBound DEF PumpFrame
  <2> QED
    BY <1>0, <2>1 DEF PumpFrame, LockInv, Good, Queued
<1>3. SinkInv'
  BY <1>0, SinkMoves DEF PumpFrame
<1> QED
  BY <1>1, <1>2, <1>3 DEF TrayInv

(* The connection is lost, and what it held.                               *)
LEMMA Disconnects ==
    ASSUME TrayInv, NEW t \in TrayStates, t.pending = tray.pending, T!Disconnect(t),
           UNCHANGED <<PumpFrame, sinkQueue, shutdown>>, status' \in {"idle", "recording"}
    PROVE  TrayInv'
<1>0. /\ TrayTypes /\ LockInv /\ SinkInv /\ queues \in Queues /\ sinkQueue \in Seq(T!Session)
      /\ Len(sinkQueue) <= SinkCapacity /\ seen \in Seen /\ shutdown \in BOOLEAN
  BY PumpFacts
<1>1. /\ pump' = "backoff" /\ tray' = [t EXCEPT !.icon = "offline"] /\ queues' = T!NoQueues
      /\ seen' = [seen EXCEPT !.missed = seen.missed \/ queues.state # << >>,
                              !.replaced = FALSE, !.stale = FALSE]
  BY DEF T!Disconnect
<1>2. seen' \in Seen /\ (Good' => Good /\ queues.state = << >>)
  <2>1. PICK b \in BOOLEAN : b = (seen.missed \/ queues.state # << >>)
    OBVIOUS
  <2>2. seen' = [seen EXCEPT !.missed = b, !.replaced = FALSE, !.stale = FALSE]
    BY <1>1, <2>1
  <2>3. seen' \in Seen /\ seen'.missed = b /\ seen'.failed = seen.failed
        /\ seen'.crashes = seen.crashes
    BY <1>0, <2>2 DEF Seen
  <2> QED
    BY <2>1, <2>3 DEF Good
<1>3. tray' \in TrayStates /\ tray'.pending = tray.pending
  BY <1>1 DEF TrayStates, T!IconState
<1>4. TrayTypes'
  BY <1>0, <1>1, <1>2, <1>3, EmptyQueues, PumpTypesMove DEF Pump
<1>5. ViewInv'
  BY <1>1 DEF ViewInv, Hears, Connected, T!NoQueues
<1>6. LockInv'
  <2> SUFFICES ASSUME Good' PROVE LockInv'
    BY DEF LockInv
  <2>1. \A V : ~Queued(V)
    <3>1. 1 .. Len(queues.state) = {}
      BY <1>2, EmptyQueues
    <3> QED
      BY <3>1 DEF Queued
  <2>2. T!Session' = T!Session
    BY SameBound DEF PumpFrame
  <2> QED
    BY <1>0, <1>2, <1>3, <2>1, <2>2 DEF PumpFrame, LockInv
<1>7. SinkInv'
  BY <1>0, <1>1, EmptyQueues, SinkMoves DEF PumpFrame
<1> QED
  BY <1>4, <1>5, <1>6, <1>7 DEF TrayInv

LEMMA StepBackoff ==
    ASSUME TrayInv, T!Backoff \/ T!PumpShutdown
    PROVE  TrayInv'
<1>0. /\ ViewInv /\ status \in {"idle", "recording"} /\ tray \in TrayStates
      /\ shutdown \in BOOLEAN
  BY PumpFacts
<1>1. /\ UNCHANGED <<PumpFrame, queues, sinkQueue, seen, status, tray, shutdown>>
      /\ pump = "backoff" \/ pump' = "ended"
      /\ pump' \in {"ended", "connecting"}
  BY DEF T!Backoff, T!PumpShutdown, T!pumpFrame, T!daemonVars, T!cmdVars, T!sinkVars, PumpFrame
<1>2. ViewInv'
  BY <1>0, <1>1 DEF ViewInv, Hears, Connected, T!NoQueues
<1> QED
  BY <1>0, <1>1, <1>2, PumpMoves DEF Pump

LEMMA StepConnect ==
    ASSUME TrayInv, T!Connect
    PROVE  TrayInv'
<1>0. /\ ViewInv /\ status \in {"idle", "recording"} /\ tray \in TrayStates
      /\ shutdown \in BOOLEAN
  BY PumpFacts
<1>1. /\ UNCHANGED <<PumpFrame, queues, sinkQueue, seen, status>> /\ pump = "connecting"
      /\ \/ pump' = "ended" /\ shutdown' = TRUE /\ tray' = [tray EXCEPT !.icon = "offline"]
         \/ pump' = "verified" /\ UNCHANGED <<shutdown, tray>>
  BY DEF T!Connect, T!pumpFrame, T!daemonVars, T!cmdVars, T!sinkVars, PumpFrame
<1>2. ViewInv'
  BY <1>0, <1>1, EmptyQueues DEF ViewInv, Hears, Connected, T!NoQueues
<1>3. tray' \in TrayStates /\ tray'.pending = tray.pending
  BY <1>0, <1>1 DEF TrayStates, T!IconState
<1> QED
  BY <1>0, <1>1, <1>2, <1>3, PumpMoves DEF Pump

LEMMA StepSubscribe ==
    ASSUME TrayInv, T!Subscribe
    PROVE  TrayInv'
<1>0. /\ ViewInv /\ status \in {"idle", "recording"} /\ tray \in TrayStates
      /\ shutdown \in BOOLEAN
  BY PumpFacts
<1>1. /\ UNCHANGED <<PumpFrame, queues, sinkQueue, seen, status, shutdown, tray>>
      /\ pump \in {"verified", "hearsState", "hearsRecorded", "hearsTranscribed"}
      /\ pump' \in {"hearsState", "hearsRecorded", "hearsTranscribed", "subscribed"}
  BY DEF T!Subscribe, T!pumpFrame, T!daemonVars, T!cmdVars, T!sinkVars, PumpFrame
<1>2. UNCHANGED <<up, signalled>> /\ (SomeActive => SomeActive')
  BY <1>1, SameBound DEF PumpFrame, SomeActive
<1>3. ViewInv'
  <2>1. CASE pump = "verified"
    BY <1>0, <1>1, <1>2, <2>1, EmptyQueues DEF ViewInv, T!NoQueues
  <2>2. CASE pump # "verified"
    BY <1>0, <1>1, <1>2, <2>2 DEF ViewInv, Hears, Connected
  <2> QED
    BY <2>1, <2>2
<1> QED
  BY <1>0, <1>1, <1>3, PumpMoves DEF Pump

LEMMA StepReadStatus ==
    ASSUME TrayInv, T!ReadStatus
    PROVE  TrayInv'
<1>0. /\ ViewInv /\ status \in {"idle", "recording"} /\ tray \in TrayStates
      /\ shutdown \in BOOLEAN /\ (slot # None => slot \in T!Session /\ phase[slot] \in Owns)
  BY PumpFacts
<1>1. /\ UNCHANGED <<PumpFrame, sinkQueue, shutdown>> /\ pump = "subscribed"
  BY DEF T!ReadStatus, T!pumpFrame, T!daemonVars, T!cmdVars, T!sinkVars, PumpFrame
<1>2. CASE up
  <2>1. /\ pump' = "statusRead" /\ UNCHANGED <<queues, tray, seen>>
        /\ status' = SlotStatus
    BY <1>2 DEF T!ReadStatus, SlotStatus
  <2>2. /\ SlotStatus' = SlotStatus /\ (SomeActive' <=> SomeActive)
        /\ (SomeReleased' <=> SomeReleased)
    <3>1. T!Session' = T!Session
      BY <1>1, SameBound DEF PumpFrame
    <3> QED
      BY <1>1, <3>1 DEF SlotStatus, SomeActive, SomeReleased, PumpFrame
  <2>3. SlotStatus = "recording" => SomeActive
    BY <1>0 DEF SlotStatus, SomeActive, Owns, Over
  <2>4. ViewInv'
    BY <1>0, <1>1, <2>1, <2>2, <2>3 DEF ViewInv, Hears, Connected, PumpFrame
  <2>5. status' \in {"idle", "recording"}
    BY <2>1 DEF SlotStatus
  <2> QED
    BY <1>0, <1>1, <2>1, <2>4, <2>5, PumpMoves DEF Pump
<1>3. CASE ~up
  <2>1. T!Disconnect(tray) /\ status' = status
    BY <1>3 DEF T!ReadStatus
  <2> QED
    BY <1>0, <1>1, <2>1, Disconnects
<1> QED
  BY <1>2, <1>3

LEMMA StepSnapshot ==
    ASSUME TrayInv, T!Snapshot
    PROVE  TrayInv'
<1>0. /\ ViewInv /\ status \in {"idle", "recording"} /\ tray \in TrayStates
      /\ shutdown \in BOOLEAN /\ activeFile \in Maybe(T!Session)
      /\ lastFile # None => lastFile \in [id : T!Session, full : BOOLEAN]
  BY PumpFacts
<1>1. /\ UNCHANGED <<PumpFrame, status, sinkQueue, shutdown>> /\ pump = "statusRead"
  BY DEF T!Snapshot, T!pumpFrame, T!daemonVars, T!cmdVars, T!sinkVars, PumpFrame
<1>2. CASE up
  <2>1. PICK b, s, l :
           /\ b = ((status = "recording") \/ tray.timer) /\ s = T!SeedSession
           /\ l = IF lastFile = None THEN tray.last
                  ELSE [id |-> lastFile.id, audio |-> lastFile.id, text |-> lastFile.full]
    OBVIOUS
  <2>2. /\ pump' = "loop" /\ UNCHANGED <<queues, seen>>
        /\ tray' = [tray EXCEPT !.icon = status, !.timer = b, !.session = s, !.last = l]
    BY <1>2, <2>1 DEF T!Snapshot
  <2>3. /\ b \in BOOLEAN /\ s \in Maybe(T!Session) /\ (s # None => status = "recording")
    <3>1. tray.timer \in BOOLEAN /\ tray.session \in Maybe(T!Session)
      BY <1>0 DEF TrayStates
    <3> QED
      BY <1>0, <2>1, <3>1 DEF T!SeedSession, Maybe
  <2>4. l \in Maybe(Entry) /\ (l # None => l.audio \in {l.id, None})
    <3>1. /\ tray.last \in Maybe(Entry)
          /\ tray.last # None => tray.last.audio \in {tray.last.id, None}
      BY <1>0 DEF TrayStates
    <3>2. CASE lastFile = None
      BY <2>1, <3>1, <3>2
    <3>3. CASE lastFile # None
      BY <1>0, <2>1, <3>3 DEF Entry, Maybe
    <3> QED
      BY <3>2, <3>3
  <2>5. /\ tray' \in TrayStates /\ tray'.pending = tray.pending /\ tray'.icon = status
        /\ tray'.session = s
    <3>1. status \in T!IconState
      BY <1>0 DEF T!IconState, T!WireState
    <3> QED
      BY <1>0, <2>2, <2>3, <2>4, <3>1 DEF TrayStates
  <2>6. /\ SlotStatus' = SlotStatus /\ (SomeActive' <=> SomeActive)
        /\ (SomeReleased' <=> SomeReleased)
    <3>1. T!Session' = T!Session
      BY <1>1, SameBound DEF PumpFrame
    <3> QED
      BY <1>1, <3>1 DEF SlotStatus, SomeActive, SomeReleased, PumpFrame
  <2>7. ViewInv'
    BY <1>0, <1>1, <2>2, <2>3, <2>5, <2>6 DEF ViewInv, Hears, Connected, PumpFrame
  <2> QED
    BY <1>0, <1>1, <2>2, <2>5, <2>7, PumpMoves DEF Pump
<1>3. CASE ~up
  <2>1. T!Disconnect(tray)
    BY <1>3 DEF T!Snapshot
  <2> QED
    BY <1>0, <1>1, <2>1, Disconnects
<1> QED
  BY <1>2, <1>3

LEMMA StepOwnerChanged ==
    ASSUME TrayInv, T!OwnerChanged \/ T!ProfileTick
    PROVE  TrayInv'
<1>0. tray \in TrayStates /\ status \in {"idle", "recording"}
  BY PumpFacts
<1>1. UNCHANGED <<PumpFrame, sinkQueue, shutdown, status>>
  BY DEF T!OwnerChanged, T!ProfileTick, T!pumpFrame, T!daemonVars, T!cmdVars, T!sinkVars,
         PumpFrame
<1>2. PICK t \in {tray, [tray EXCEPT !.session = None, !.timer = FALSE]} : T!Disconnect(t)
  BY DEF T!OwnerChanged, T!ProfileTick
<1>3. t \in TrayStates /\ t.pending = tray.pending
  BY <1>0, <1>2 DEF TrayStates, Maybe
<1> QED
  BY <1>0, <1>1, <1>2, <1>3, Disconnects

LEMMA StepStateChanged ==
    ASSUME TrayInv, T!StateChanged
    PROVE  TrayInv'
<1>0. /\ TrayTypes /\ ViewInv /\ LockInv /\ SinkInv /\ queues \in Queues /\ tray \in TrayStates
      /\ status \in {"idle", "recording"} /\ pump \in Pump /\ shutdown \in BOOLEAN
      /\ seen \in Seen /\ sinkQueue \in Seq(T!Session) /\ Len(sinkQueue) <= SinkCapacity
      /\ None \notin T!Command
  BY PumpFacts
<1>1. /\ pump = "loop" /\ queues.owner = << >> /\ queues.state # << >>
      /\ tray' = T!apply_state_changed(tray, Head(queues.state))
      /\ queues' = [queues EXCEPT !.state = Tail(queues.state)]
      /\ UNCHANGED <<PumpFrame, pump, status, sinkQueue, shutdown, seen>>
  BY DEF T!StateChanged, T!Looping, T!pumpFrame, T!daemonVars, T!cmdVars, T!sinkVars,
         T!pumpVars, PumpFrame
<1>2. PICK q, h, r : q = queues.state /\ h = Head(q) /\ r = Tail(q)
  OBVIOUS
<1>3. /\ q \in Seq(Signal) /\ h \in Signal /\ h = q[1] /\ r \in Seq(Signal)
      /\ \A i \in 1 .. Len(q) : i = 1 \/ /\ i - 1 \in 1 .. Len(r)
                                         /\ r[i - 1] = q[i]
      /\ r = << >> => q[Len(q)] = h
      /\ r # << >> => r[Len(r)] = q[Len(q)]
  <2>1. q \in Seq(Signal) /\ q # << >>
    BY <1>0, <1>1, <1>2 DEF Queues
  <2> QED
    BY <1>2, <2>1, TailIs
<1>4. /\ queues' = [queues EXCEPT !.state = r] /\ queues' \in Queues /\ queues'.state = r
      /\ queues'.owner = << >> /\ queues'.transcribed = queues.transcribed
  BY <1>0, <1>1, <1>2, <1>3 DEF Queues
<1>5. PICK v \in T!WireState, x \in T!Session : h.value = v /\ h.session = x
  BY <1>3 DEF Signal
<1>6. PICK b, s, p :
         /\ b = CASE v = "recording" -> TRUE
                  [] v \in {"idle", "failed"} -> FALSE
                  [] OTHER -> tray.timer
         /\ s = IF v \in {"idle", "failed"} THEN None ELSE x
         /\ p = IF \/ tray.pending = "start" /\ v \in {"starting", "recording"}
                   \/ tray.pending = "stop" /\ v \in {"stopping", "idle"}
                THEN None ELSE tray.pending
  OBVIOUS
<1>7. tray' = [tray EXCEPT !.icon = v, !.timer = b, !.session = s, !.pending = p]
  BY <1>1, <1>2, <1>5, <1>6 DEF T!apply_state_changed
<1>8. b \in BOOLEAN /\ s \in Maybe(T!Session) /\ p \in Maybe(T!Command) /\ v \in T!IconState
  <2>1. tray.timer \in BOOLEAN /\ tray.pending \in Maybe(T!Command)
    BY <1>0 DEF TrayStates
  <2>2. b \in BOOLEAN
    BY <1>6, <2>1
  <2>3. s \in Maybe(T!Session) /\ p \in Maybe(T!Command) /\ v \in T!IconState
    BY <1>5, <1>6, <2>1 DEF Maybe, T!IconState
  <2> QED
    BY <2>2, <2>3
<1>9. /\ tray' \in TrayStates /\ tray'.icon = v /\ tray'.session = s /\ tray'.pending = p
  BY <1>0, <1>7, <1>8 DEF TrayStates
<1>10. T!Session' = T!Session
  BY <1>1, SameBound DEF PumpFrame
<1>11. TrayTypes'
  BY <1>0, <1>1, <1>4, <1>9, PumpTypesMove
<1>12. ViewInv'
  <2>0. up' = up /\ seen' = seen
    BY <1>1 DEF PumpFrame
  <2>1. up /\ ~seen.stale =>
           /\ q[Len(q)].value = signalled
           /\ signalled \notin {"idle", "failed"} => SomeActive
    BY <1>0, <1>1, <1>2 DEF ViewInv, Hears, Connected
  <2>2. SomeActive' <=> SomeActive
    BY <1>1, <1>10 DEF SomeActive, PumpFrame
  <2>3. up /\ ~seen.stale /\ r # << >> => r[Len(r)].value = signalled
    BY <1>3, <2>1
  <2>4. up /\ ~seen.stale /\ r = << >> => v = signalled /\ (s # None => SomeActive)
    BY <1>3, <1>5, <1>6, <2>1
  <2>5. signalled' = signalled /\ pump' = "loop" /\ status' = status
    BY <1>1 DEF PumpFrame
  <2> QED
    BY <1>4, <1>9, <2>0, <2>1, <2>2, <2>3, <2>4, <2>5 DEF ViewInv
<1>13. LockInv'
  <2> SUFFICES ASSUME Good PROVE LockInv'
    BY <1>1 DEF LockInv, Good
  <2>1. \A V : Queued(V) => v \in V \/ Queued(V)'
    <3> SUFFICES ASSUME NEW V, NEW i \in 1 .. Len(q), q[i].value \in V, v \notin V
                 PROVE  \E j \in 1 .. Len(r) : r[j].value \in V
      BY <1>2, <1>4 DEF Queued
    <3>1. i # 1
      BY <1>3, <1>5
    <3> QED
      BY <1>3, <3>1
  <2>2. p # None => p = tray.pending
    BY <1>6
  <2>3. CASE p = "start"
    <3>1. tray.pending = "start" /\ v \notin {"starting", "recording"}
      BY <1>0, <1>6, <2>3 DEF T!Command
    <3>2. dispatcher.pc \in {"start", "replyErr"} \/ Queued({"starting", "recording"})
      BY <1>0, <3>1 DEF LockInv
    <3>3. dispatcher'.pc \in {"start", "replyErr"} \/ Queued({"starting", "recording"})'
      BY <1>1, <2>1, <3>1, <3>2 DEF PumpFrame
    <3> QED
      BY <1>9, <2>3, <3>3 DEF LockInv
  <2>4. CASE p = "stop"
    <3>1. tray.pending = "stop" /\ v \notin {"stopping", "idle"}
      BY <1>0, <1>6, <2>4 DEF T!Command
    <3>2. \/ dispatcher.pc \in {"stop", "replyErr"} \/ Queued({"stopping", "idle"})
          \/ \E y \in T!Session : phase[y] \in Stopping
      BY <1>0, <3>1 DEF LockInv
    <3>3. \/ dispatcher'.pc \in {"stop", "replyErr"} \/ Queued({"stopping", "idle"})'
          \/ \E y \in T!Session : phase'[y] \in Stopping
      BY <1>1, <2>1, <3>1, <3>2 DEF PumpFrame
    <3> QED
      BY <1>9, <1>10, <2>4, <3>3 DEF LockInv
  <2>5. CASE p = "setActive"
    <3>1. tray.pending = "setActive"
      BY <1>0, <1>6, <2>5 DEF T!Command
    <3> QED
      BY <1>0, <1>1, <1>9, <2>5, <3>1 DEF LockInv, PumpFrame
  <2>6. CASE p \notin {"start", "stop", "setActive"}
    BY <1>9, <2>6 DEF LockInv
  <2> QED
    BY <2>3, <2>4, <2>5, <2>6
<1>14. SinkInv'
  BY <1>0, <1>1, <1>4, SinkMoves DEF PumpFrame
<1> QED
  BY <1>11, <1>12, <1>13, <1>14 DEF TrayInv

(* A file is finished: only the last entry of the menu and the sinks move. *)
LEMMA FileDone ==
    ASSUME TrayInv, UNCHANGED <<PumpFrame, pump, status, shutdown, seen>>,
           queues' \in Queues, queues'.owner = queues.owner, queues'.state = queues.state,
           Hears,
           NEW l \in Entry, l.audio \in {l.id, None}, tray' = [tray EXCEPT !.last = l],
           sinkQueue' \in Seq(T!Session), Len(sinkQueue') <= SinkCapacity, SinkInv'
    PROVE  TrayInv'
<1>0. /\ TrayTypes /\ ViewInv /\ LockInv /\ tray \in TrayStates
      /\ status \in {"idle", "recording"} /\ pump \in Pump /\ shutdown \in BOOLEAN
      /\ seen \in Seen
  BY PumpFacts
<1>1. /\ tray' \in TrayStates /\ tray'.icon = tray.icon /\ tray'.session = tray.session
      /\ tray'.pending = tray.pending
  BY <1>0 DEF TrayStates, Maybe
<1>2. TrayTypes'
  BY <1>0, <1>1, PumpTypesMove
<1>3. T!Session' = T!Session
  BY SameBound DEF PumpFrame
<1>4. ViewInv'
  <2>1. /\ SlotStatus' = SlotStatus /\ (SomeActive' <=> SomeActive)
        /\ (SomeReleased' <=> SomeReleased)
    BY <1>3 DEF SlotStatus, SomeActive, SomeReleased, PumpFrame
  <2> QED
    BY <1>0, <1>1, <2>1 DEF ViewInv, Hears, Connected, PumpFrame
<1>5. LockInv'
  BY <1>0, <1>1, <1>3 DEF LockInv, Good, Queued, PumpFrame
<1> QED
  BY <1>2, <1>4, <1>5 DEF TrayInv

LEMMA StepRecordingComplete ==
    ASSUME TrayInv, T!RecordingComplete
    PROVE  TrayInv'
<1>0. /\ TrayTypes /\ SinkInv /\ queues \in Queues /\ tray \in TrayStates
      /\ sinkQueue \in Seq(T!Session) /\ Len(sinkQueue) <= SinkCapacity
  BY PumpFacts
<1>1. /\ pump = "loop" /\ queues.recorded # << >>
      /\ tray' = T!apply_recording_complete(tray, Head(queues.recorded))
      /\ queues' = [queues EXCEPT !.recorded = Tail(queues.recorded)]
      /\ UNCHANGED <<PumpFrame, pump, status, sinkQueue, shutdown, seen>>
  BY DEF T!RecordingComplete, T!Looping, T!pumpFrame, T!daemonVars, T!cmdVars, T!sinkVars,
         T!pumpVars, PumpFrame
<1>2. PICK h \in T!Session, r \in Seq(T!Session) :
         h = Head(queues.recorded) /\ r = Tail(queues.recorded)
  <2>1. queues.recorded \in Seq(T!Session) /\ queues.recorded # << >>
    BY <1>0, <1>1 DEF Queues
  <2> QED
    BY <2>1, TailIs
<1>3. /\ queues' \in Queues /\ queues'.owner = queues.owner /\ queues'.state = queues.state
      /\ queues'.transcribed = queues.transcribed
  BY <1>0, <1>1, <1>2 DEF Queues
<1>4. PICK l \in Entry : l = [id |-> h, audio |-> h, text |-> FALSE]
  BY DEF Entry, Maybe
<1>5. tray' = [tray EXCEPT !.last = l]
  BY <1>1, <1>2, <1>4 DEF T!apply_recording_complete
<1>6. SinkInv'
  BY <1>0, <1>1, <1>3, SinkMoves DEF PumpFrame
<1>7. l.audio \in {l.id, None} /\ Hears
  BY <1>1, <1>4 DEF Hears, Connected
<1> QED
  BY <1>0, <1>1, <1>3, <1>5, <1>6, <1>7, FileDone

LEMMA StepTranscriptComplete ==
    ASSUME TrayInv, T!TranscriptComplete
    PROVE  TrayInv'
<1>0. /\ TrayTypes /\ SinkInv /\ queues \in Queues /\ tray \in TrayStates
      /\ sinkQueue \in Seq(T!Session) /\ Len(sinkQueue) <= SinkCapacity /\ SinkCapacity \in Nat
      /\ sunk \in Seq(T!Session) /\ queues.transcribed \in Seq(T!Session)
      /\ lastFile # None => lastFile \in [id : T!Session, full : BOOLEAN]
  BY PumpFacts DEF TrayTypes, TaskTypes, Queues
<1>1. /\ pump = "loop" /\ queues.transcribed # << >>
      /\ T!OfferToSinks(Head(queues.transcribed))
      /\ tray' = T!apply_transcript_complete(tray, Head(queues.transcribed),
                                             T!AudioFromFile(Head(queues.transcribed)))
      /\ queues' = [queues EXCEPT !.transcribed = Tail(queues.transcribed)]
      /\ UNCHANGED <<PumpFrame, pump, status, shutdown, seen>>
  BY DEF T!TranscriptComplete, T!Looping, T!pumpFrame, T!daemonVars, T!cmdVars, T!sinkVars,
         T!pumpVars, PumpFrame
<1>2. PICK h \in T!Session, r \in Seq(T!Session) :
         h = Head(queues.transcribed) /\ r = Tail(queues.transcribed)
  BY <1>0, <1>1, TailIs
<1>3. /\ queues' \in Queues /\ queues'.owner = queues.owner /\ queues'.state = queues.state
      /\ queues'.transcribed = r
  BY <1>0, <1>1, <1>2 DEF Queues
<1>4. PICK a : a = IF T!AudioFromFile(h) # None THEN T!AudioFromFile(h)
                   ELSE IF tray.last # None /\ tray.last.id = h THEN tray.last.audio ELSE None
  OBVIOUS
<1>5. a \in {h, None}
  <2>1. T!AudioFromFile(h) \in {h, None}
    BY DEF T!AudioFromFile
  <2>2. tray.last # None /\ tray.last.id = h => tray.last.audio \in {h, None}
    BY <1>0 DEF TrayStates
  <2> QED
    BY <1>4, <2>1, <2>2
<1>6. PICK l \in Entry : l = [id |-> h, audio |-> a, text |-> TRUE]
  BY <1>5 DEF Entry, Maybe
<1>7. tray' = [tray EXCEPT !.last = l] /\ l.audio \in {l.id, None} /\ Hears
  BY <1>1, <1>2, <1>4, <1>5, <1>6 DEF T!apply_transcript_complete, Hears, Connected
<1>8. /\ Append(sinkQueue, h) \in Seq(T!Session)
      /\ Distinct(Append(sinkQueue, h)) /\ Distinct(r) /\ Disjoint(Append(sinkQueue, h), r)
      /\ Disjoint(sinkQueue, r) /\ Disjoint(sunk, Append(sinkQueue, h)) /\ Disjoint(sunk, r)
      /\ Complete(Append(sinkQueue, h)) /\ Complete(r)
  <2>1. Disjoint(sinkQueue, sunk) /\ Disjoint(queues.transcribed, sunk)
    BY <1>0 DEF SinkInv, Disjoint
  <2> QED
    BY <1>0, <1>1, <1>2, <2>1, MoveHead DEF SinkInv
<1>9. \/ sinkQueue' = sinkQueue
      \/ Len(sinkQueue) < SinkCapacity /\ sinkQueue' = Append(sinkQueue, h)
  BY <1>1, <1>2 DEF T!OfferToSinks
<1>10. sinkQueue' \in Seq(T!Session) /\ Len(sinkQueue') <= SinkCapacity
  <2>1. Len(Append(sinkQueue, h)) = Len(sinkQueue) + 1 /\ Len(sinkQueue) \in Nat
    BY <1>0, AppendIs
  <2>2. Len(sinkQueue) < SinkCapacity => Len(Append(sinkQueue, h)) <= SinkCapacity
    <3>1. SinkCapacity \in Nat
      BY <1>0
    <3> QED
      BY <2>1, <3>1
  <2> QED
    BY <1>0, <1>8, <1>9, <2>2
<1>11. SinkInv'
  <2>1. /\ Distinct(sinkQueue') /\ Disjoint(sunk, sinkQueue') /\ Disjoint(sinkQueue', r)
        /\ Complete(sinkQueue') /\ Distinct(sunk) /\ Complete(sunk)
    BY <1>0, <1>8, <1>9 DEF SinkInv
  <2>2. sunk' = sunk /\ phase' = phase
    BY <1>1 DEF PumpFrame
  <2> QED
    BY <1>3, <1>8, <2>1, <2>2 DEF SinkInv, Distinct, Disjoint, Complete
<1> QED
  BY <1>1, <1>3, <1>7, <1>10, <1>11, FileDone

-----------------------------------------------------------------------------
(* The tray as a whole.                                                    *)

LEMMA TrayInit == ASSUME T!Init PROVE TrayInv
<1>1. /\ bound \in Bounds /\ up \in BOOLEAN /\ compat \in BOOLEAN
  <2>1. bound \in Bounds /\ up \in {TRUE, ~bound.late} /\ compat \in {TRUE, ~bound.late}
    BY DEF T!Init
  <2>2. bound.late \in BOOLEAN
    BY <2>1, TrayAssumption
  <2> QED
    BY <2>1, <2>2
<1>2. DaemonTypes
  BY <1>1 DEF T!Init, DaemonTypes, Phase, Maybe, T!WireState
<1>3. PumpTypes
  <2>1. pump \in Pump /\ status \in {"idle", "recording"} /\ queues \in Queues
    BY EmptyQueues DEF T!Init, Pump
  <2>2. tray \in TrayStates
    BY DEF T!Init, TrayStates, T!IconState, Maybe
  <2> QED
    BY <2>1, <2>2 DEF PumpTypes
<1>4. << >> \in Seq(T!Command) /\ << >> \in Seq(T!Session) /\ Len(<< >>) = 0
  OBVIOUS
<1>5. TaskTypes
  <2>1. CmdCapacity \in Nat /\ SinkCapacity \in Nat
    BY TrayAssumption
  <2>2. seen \in Seen
    BY DEF T!Init, Seen
  <2>3. dispatcher \in Calls
    BY DEF T!Init, Calls, Pc, Maybe
  <2>4. /\ cmdQueue \in Seq(T!Command) /\ Len(cmdQueue) <= CmdCapacity
        /\ sinkQueue \in Seq(T!Session) /\ Len(sinkQueue) <= SinkCapacity
        /\ sunk \in Seq(T!Session)
    BY <1>4, <2>1 DEF T!Init
  <2> QED
    BY <2>2, <2>3, <2>4 DEF T!Init, TaskTypes
<1>6. ViewInv
  BY DEF T!Init, ViewInv, Hears, Connected
<1>7. LockInv
  <2>1. tray.pending = None /\ None \notin T!Command
    BY TrayAssumption DEF T!Init
  <2> QED
    BY <2>1 DEF LockInv, T!Command
<1>8. SinkInv
  <2>1. /\ sunk = << >> /\ sinkQueue = << >> /\ queues.transcribed = << >>
    BY EmptyQueues DEF T!Init
  <2> QED
    BY <1>4, <2>1 DEF SinkInv, Distinct, Disjoint, Complete
<1> QED
  BY <1>2, <1>3, <1>5, <1>6, <1>7, <1>8 DEF TrayInv, TrayTypes

LEMMA TrayStill == ASSUME TrayInv, UNCHANGED tvars PROVE TrayInv'
<1>0. /\ TrayTypes /\ ViewInv /\ LockInv /\ SinkInv
      /\ T!Session' = T!Session /\ Queues' = Queues /\ Calls' = Calls
      /\ TrayStates' = TrayStates
  BY SameBound DEF TrayInv, tvars
<1>1. TrayTypes'
  <2>1. DaemonTypes'
    BY <1>0 DEF tvars, TrayTypes, DaemonTypes, Maybe, T!WireState
  <2>2. PumpTypes'
    BY <1>0 DEF tvars, TrayTypes, PumpTypes
  <2>3. TaskTypes'
    BY <1>0 DEF tvars, TrayTypes, TaskTypes, Maybe, Seen, T!Command
  <2> QED
    BY <2>1, <2>2, <2>3 DEF TrayTypes
<1>2. ViewInv'
  BY <1>0 DEF tvars, ViewInv, Hears, Connected, T!NoQueues, SomeActive, SomeReleased, SlotStatus
<1>3. LockInv'
  BY <1>0 DEF tvars, LockInv, Good, Queued
<1>4. SinkInv'
  BY <1>0 DEF tvars, SinkInv, Distinct, Disjoint, Complete
<1> QED
  BY <1>1, <1>2, <1>3, <1>4 DEF TrayInv

LEMMA TrayStep == ASSUME TrayInv, T!Next PROVE TrayInv'
<1>1. CASE T!DaemonStep
  <2>1. CASE T!Answer
    BY <2>1, StepAnswer
  <2>2. ASSUME NEW s \in T!Session,
               \/ T!StartSucceeds(s) \/ T!StartFails(s) \/ T!RecordingCompletes(s)
               \/ \E ok \in BOOLEAN : T!DrainEnds(s, ok)
               \/ T!NoTranscript(s) \/ T!TranscriptCompletes(s) \/ T!SessionEnds(s)
               \/ T!AcceptStart(s, TRUE) \/ T!StopBegins(s, TRUE)
        PROVE  TrayInv'
    <3>1. T!DrainEnds(s, TRUE) \/ T!DrainEnds(s, FALSE) => TrayInv'
      BY StepDrainEnds, StepDrainBreaks
    <3>2. T!AcceptStart(s, TRUE) \/ T!StopBegins(s, TRUE) => TrayInv'
      BY StepAcceptStart, StepStopBegins
    <3> QED
      BY <2>2, <3>1, <3>2, StepStartEnds, StepRecordingCompletes, StepNoTranscript,
         StepTranscriptCompletes, StepSessionEnds
  <2> QED
    BY <1>1, <2>1, <2>2 DEF T!DaemonStep
<1>2. CASE T!ClientStep
  <2>1. PICK s \in T!Session : T!AcceptStart(s, FALSE) \/ T!StopBegins(s, FALSE)
    BY <1>2 DEF T!ClientStep
  <2> QED
    BY <2>1, StepAcceptStart, StepStopBegins
<1>3. CASE T!Crash \/ T!Restart
  BY <1>3, StepCrash, StepRestart
<1>4. CASE T!PumpStep
  BY <1>4, StepBackoff, StepConnect, StepSubscribe, StepReadStatus, StepSnapshot, StepOwnerChanged,
     StepStateChanged, StepRecordingComplete, StepTranscriptComplete DEF T!PumpStep
<1>5. CASE T!ProfileTick
  BY <1>5, StepOwnerChanged
<1>6. CASE T!DispatcherStep
  BY <1>6, StepDispatcher
<1>7. CASE T!HandleJob
  BY <1>7, StepHandleJob
<1>8. CASE T!UserStep
  <2>1. bound.commands \subseteq T!Command
    BY SessionsAre DEF TrayInv, TrayTypes, DaemonTypes
  <2>2. PICK c \in T!Command : T!Click(c)
    BY <1>8, <2>1 DEF T!UserStep
  <2> QED
    BY <2>2, StepClick
<1> QED
  BY <1>1, <1>2, <1>3, <1>4, <1>5, <1>6, <1>7, <1>8 DEF T!Next

LEMMA TrayShows ==
    ASSUME TrayInv
    PROVE  /\ T!TypeOK /\ T!CaughtUpShowsDaemon /\ T!AudioOfItsSession
           /\ T!LockedOnlyAfterLoss /\ T!NoStaleSession /\ T!SinksOncePerTranscript
<1>0. /\ DaemonTypes /\ PumpTypes /\ TaskTypes /\ ViewInv /\ LockInv /\ SinkInv
      /\ tray \in TrayStates /\ dispatcher \in Calls /\ seen \in Seen
  BY DEF TrayInv, TrayTypes, PumpTypes, TaskTypes
<1>1. T!TypeOK
  <2>1. /\ bound \in Bounds /\ {up, compat, daemonReady, shutdown} \subseteq BOOLEAN
        /\ slot \in T!Session \union {None}
        /\ signalled \in T!WireState /\ status \in {"idle", "recording"}
        /\ pump \in Pump
    BY <1>0 DEF DaemonTypes, PumpTypes, TaskTypes, Maybe
  <2>2. /\ tray.icon \in T!IconState /\ tray.pending \in T!Command \union {None}
        /\ tray.session \in T!Session \union {None}
    BY <1>0 DEF TrayStates, Maybe
  <2>3. /\ cmdQueue \in Seq(T!Command) /\ Len(cmdQueue) <= CmdCapacity
        /\ sinkQueue \in Seq(T!Session) /\ Len(sinkQueue) <= SinkCapacity
        /\ dispatcher.pc \in Pc
    BY <1>0 DEF TaskTypes, Calls
  <2> QED
    BY <2>1, <2>2, <2>3 DEF T!TypeOK, Pump, Pc
<1>2. /\ T!CaughtUp => /\ Hears /\ pump = "loop" /\ queues.owner = << >>
                       /\ queues.state = << >> /\ \A V : ~Queued(V)
  <2>1. queues = T!NoQueues => queues.owner = << >> /\ queues.state = << >>
    BY EmptyQueues
  <2>2. queues.state = << >> => \A V : ~Queued(V)
    BY EmptyQueues DEF Queued
  <2> QED
    BY <2>1, <2>2 DEF T!CaughtUp, Hears, Connected
<1>3. T!CaughtUpShowsDaemon
  BY <1>0, <1>2 DEF T!CaughtUpShowsDaemon, ViewInv, SlotStatus, SomeReleased, Released
<1>4. T!AudioOfItsSession
  BY <1>0 DEF T!AudioOfItsSession, TrayStates
<1>5. T!NoStaleSession
  BY <1>0, <1>2 DEF T!NoStaleSession, ViewInv, SomeActive, Over
<1>6. T!LockedOnlyAfterLoss
  <2> SUFFICES ASSUME T!Quiet, tray.pending # None, ~seen.missed, ~seen.failed,
                      ~(seen.crashes > 0)
               PROVE  FALSE
    BY DEF T!LockedOnlyAfterLoss
  <2>1. Good
    BY <1>0 DEF Good, Seen
  <2>2. tray.pending \in {"start", "stop", "setActive"}
    BY <1>0 DEF TrayStates, T!Command, Maybe
  <2>3. /\ dispatcher.pc = "idle" /\ \A s \in T!Session : phase[s] \notin Stopping
        /\ \A V : ~Queued(V)
    BY <1>2 DEF T!Quiet, Stopping, Released
  <2> QED
    BY <1>0, <2>1, <2>2, <2>3 DEF LockInv
<1>7. T!SinksOncePerTranscript
  <2>1. DOMAIN sunk = 1 .. Len(sunk)
    <3>1. sunk \in Seq(T!Session)
      BY <1>0 DEF TaskTypes
    <3> QED
      BY <3>1
  <2> QED
    BY <1>0, <2>1 DEF T!SinksOncePerTranscript, SinkInv, Distinct, Complete
<1> QED
  BY <1>1, <1>3, <1>4, <1>5, <1>6, <1>7

-----------------------------------------------------------------------------
(* The processes                                                           *)

Down == {"off", "ok", "failed", "killed"}
Leaving == {"supervisor", "pump", "sinks"}

MainTypes ==
    /\ m_phase \in [Procs -> Down \union Leaving \union {"claim", "register", "watch"}]
    /\ m_up \in [Procs -> SUBSET M!Tasks]
    /\ online \in [Procs -> BOOLEAN] /\ sole \in [Procs -> BOOLEAN]
    /\ owner \in Procs \union {Nobody}
    /\ m_signalled \in [Procs -> BOOLEAN] /\ icon \in [Procs -> {"none", "shown", "dead"}]
    /\ fresh \in [Procs -> BOOLEAN]
    /\ host \in BOOLEAN /\ moves \in 0 .. HostMoves

(* A process that was told that it is the only one, and was not told to    *)
(* leave, owns the name.                                                   *)
ProcInv(p) ==
    /\ m_phase[p] \in Down => m_up[p] = {} /\ icon[p] = "none" /\ owner # p /\ ~sole[p]
    /\ m_phase[p] = "sinks" => m_up[p] \subseteq {"sinks"}
    /\ m_phase[p] \in Leaving => m_signalled[p]
    /\ sole[p] => owner = p \/ m_signalled[p]

MainInv == MainTypes /\ \A p \in Procs : ProcInv(p)

LEMMA MainMoves ==
    ASSUME MainInv, NEW p \in Procs, MainTypes', ProcInv(p)',
           \A q \in Procs \ {p} :
              /\ m_phase'[q] = m_phase[q] /\ m_up'[q] = m_up[q] /\ icon'[q] = icon[q]
              /\ sole'[q] = sole[q] /\ m_signalled'[q] = m_signalled[q],
           \/ owner' = owner
           \/ owner = p /\ owner' = Nobody
           \/ owner = Nobody /\ owner' = p
    PROVE  MainInv'
<1>1. ASSUME NEW q \in Procs \ {p} PROVE ProcInv(q)'
  <2>1. ProcInv(q) /\ q # p /\ q # Nobody
    BY TrayAssumption DEF MainInv
  <2> QED
    BY <2>1 DEF ProcInv
<1> QED
  BY <1>1 DEF MainInv

LEMMA MainInit == ASSUME M!Init PROVE MainInv
<1>1. HostMoves \in Nat /\ Nobody \notin Procs
  BY TrayAssumption
<1>2. MainTypes
  BY <1>1 DEF M!Init, MainTypes, Down
<1> QED
  BY <1>1, <1>2 DEF M!Init, MainInv, ProcInv, Down, Leaving

LEMMA MainEnds ==
    ASSUME MainInv, NEW p \in Procs, NEW how \in {"ok", "failed", "killed"}, M!End(p, how),
           UNCHANGED <<host, moves>>
    PROVE  MainInv'
<1>0. MainTypes /\ Nobody \notin Procs
  BY TrayAssumption DEF MainInv
<1>1. MainTypes'
  BY <1>0 DEF M!End, MainTypes, Down
<1>2. ProcInv(p)'
  BY <1>0 DEF M!End, MainTypes, ProcInv, Down, Leaving
<1>3. \A q \in Procs \ {p} :
         /\ m_phase'[q] = m_phase[q] /\ m_up'[q] = m_up[q] /\ icon'[q] = icon[q]
         /\ sole'[q] = sole[q] /\ m_signalled'[q] = m_signalled[q]
  BY <1>0 DEF M!End, MainTypes
<1>4. owner' = owner \/ (owner = p /\ owner' = Nobody)
  BY DEF M!End
<1> QED
  BY <1>1, <1>2, <1>3, <1>4, MainMoves

(* A step that leaves the name, the claim and the phase of p alone.        *)
LEMMA MainRuns ==
    ASSUME MainInv, NEW p \in Procs, m_phase[p] \notin Down,
           UNCHANGED <<m_phase, sole, host, moves, online>>,
           \/ m_up' = m_up
           \/ \E t : m_up' = [m_up EXCEPT ![p] = @ \ {t}],
           fresh' = fresh \/ fresh' = [fresh EXCEPT ![p] = TRUE]
              \/ fresh' = [fresh EXCEPT ![p] = FALSE],
           icon' = icon \/ icon' = [icon EXCEPT ![p] = "none"]
              \/ icon' = [icon EXCEPT ![p] = "dead"],
           m_signalled' = m_signalled \/ m_signalled' = [m_signalled EXCEPT ![p] = TRUE],
           \/ owner' = owner
           \/ owner = p /\ owner' = Nobody /\ m_signalled'[p]
    PROVE  MainInv'
<1>0. MainTypes /\ ProcInv(p)
  BY DEF MainInv
<1>1. MainTypes'
  <2>1. m_up' \in [Procs -> SUBSET M!Tasks]
    BY <1>0 DEF MainTypes
  <2>2. fresh' \in [Procs -> BOOLEAN] /\ m_signalled' \in [Procs -> BOOLEAN]
    BY <1>0 DEF MainTypes
  <2>3. icon' \in [Procs -> {"none", "shown", "dead"}]
    BY <1>0 DEF MainTypes
  <2>4. owner' \in Procs \union {Nobody}
    BY <1>0 DEF MainTypes
  <2> QED
    BY <1>0, <2>1, <2>2, <2>3, <2>4 DEF MainTypes
<1>2. ProcInv(p)'
  <2>1. /\ m_up'[p] \subseteq m_up[p] /\ (m_signalled[p] => m_signalled'[p])
    BY <1>0 DEF MainTypes
  <2> QED
    BY <1>0, <2>1 DEF ProcInv
<1>3. \A q \in Procs \ {p} :
         /\ m_phase'[q] = m_phase[q] /\ m_up'[q] = m_up[q] /\ icon'[q] = icon[q]
         /\ sole'[q] = sole[q] /\ m_signalled'[q] = m_signalled[q]
  <2> SUFFICES ASSUME NEW q \in Procs \ {p}
               PROVE  /\ m_up'[q] = m_up[q] /\ icon'[q] = icon[q]
                      /\ m_signalled'[q] = m_signalled[q]
    OBVIOUS
  <2>1. m_up'[q] = m_up[q]
    BY <1>0 DEF MainTypes
  <2>2. icon'[q] = icon[q]
    BY <1>0 DEF MainTypes
  <2>3. m_signalled'[q] = m_signalled[q]
    BY <1>0 DEF MainTypes
  <2> QED
    BY <2>1, <2>2, <2>3
<1> QED
  BY <1>1, <1>2, <1>3, MainMoves

LEMMA RunsWhen ==
    ASSUME MainInv, NEW p \in Procs, m_up[p] # {} \/ icon[p] # "none"
    PROVE  m_phase[p] \notin Down
BY DEF MainInv, ProcInv

LEMMA MainStarts ==
    ASSUME MainInv, NEW p \in Procs, M!Launch(p) \/ M!Claim(p) \/ M!Register(p)
    PROVE  MainInv'
<1>0. MainTypes /\ ProcInv(p) /\ Nobody \notin Procs
  BY TrayAssumption DEF MainInv
<1>1. CASE M!Launch(p)
  <2>1. /\ m_phase[p] = "off" /\ UNCHANGED <<online, sole, owner, m_signalled, icon, fresh,
                                              host, moves>>
        /\ \/ /\ m_phase' = [m_phase EXCEPT ![p] = "claim"]
              /\ m_up' = [m_up EXCEPT ![p] = {"sinks"}]
           \/ m_phase' = [m_phase EXCEPT ![p] = "failed"] /\ m_up' = m_up
    BY <1>1 DEF M!Launch, M!tray
  <2>2. MainTypes'
    BY <1>0, <2>1 DEF MainTypes, M!Tasks, Down
  <2>3. ProcInv(p)'
    BY <1>0, <2>1 DEF MainTypes, ProcInv, Down, Leaving
  <2>4. \A q \in Procs \ {p} : m_phase'[q] = m_phase[q] /\ m_up'[q] = m_up[q]
    BY <1>0, <2>1 DEF MainTypes
  <2> QED
    BY <2>1, <2>2, <2>3, <2>4, MainMoves
<1>2. CASE M!Claim(p)
  <2>1. CASE M!End(p, "ok") /\ UNCHANGED <<host, moves>>
    BY <2>1, MainEnds
  <2>2. CASE /\ m_phase[p] = "claim" /\ m_phase' = [m_phase EXCEPT ![p] = "register"]
             /\ m_up' = [m_up EXCEPT ![p] = M!Spawned]
             /\ UNCHANGED <<m_signalled, icon, fresh, host, moves>>
             /\ online' \in {online, [online EXCEPT ![p] = TRUE]}
             /\ \/ UNCHANGED <<owner, sole>>
                \/ owner = Nobody /\ owner' = p /\ sole' = [sole EXCEPT ![p] = TRUE]
    <3>1. MainTypes'
      BY <1>0, <2>2 DEF MainTypes, M!Tasks, M!Spawned
    <3>2. ProcInv(p)'
      BY <1>0, <2>2 DEF MainTypes, ProcInv, Down, Leaving
    <3>3. \A q \in Procs \ {p} : m_phase'[q] = m_phase[q] /\ m_up'[q] = m_up[q]
                                 /\ sole'[q] = sole[q]
      BY <1>0, <2>2 DEF MainTypes
    <3> QED
      BY <2>2, <3>1, <3>2, <3>3, MainMoves
  <2> QED
    BY <1>2, <2>1, <2>2 DEF M!Claim, M!classify, M!Registering, M!tray
<1>3. CASE M!Register(p)
  <2>1. CASE M!End(p, "failed") /\ UNCHANGED <<host, moves>>
    BY <2>1, MainEnds
  <2>2. CASE /\ m_phase[p] = "register" /\ m_phase' = [m_phase EXCEPT ![p] = "watch"]
             /\ icon' = [icon EXCEPT ![p] = "shown"] /\ fresh' = [fresh EXCEPT ![p] = TRUE]
             /\ m_up' = [m_up EXCEPT ![p] = m_up[p] \union {"supervisor", "quit"}]
             /\ UNCHANGED <<online, sole, owner, m_signalled, host, moves>>
    <3>1. MainTypes'
      BY <1>0, <2>2 DEF MainTypes, M!Tasks
    <3>2. ProcInv(p)'
      BY <1>0, <2>2 DEF MainTypes, ProcInv, Down, Leaving
    <3>3. \A q \in Procs \ {p} : m_phase'[q] = m_phase[q] /\ m_up'[q] = m_up[q]
                                 /\ icon'[q] = icon[q]
      BY <1>0, <2>2 DEF MainTypes
    <3> QED
      BY <2>2, <3>1, <3>2, <3>3, MainMoves
  <2> QED
    BY <1>3, <2>1, <2>2 DEF M!Register
<1> QED
  BY <1>1, <1>2, <1>3

LEMMA MainGoesOn ==
    ASSUME MainInv, NEW p \in Procs,
           \/ M!SuperviseShutdown(p) \/ M!SuperviseUpdate(p) \/ M!StateChanges(p)
           \/ M!IconDies(p)
    PROVE  MainInv'
<1>1. CASE M!SuperviseShutdown(p)
  <2>1. /\ m_up[p] # {} /\ icon' = [icon EXCEPT ![p] = "none"]
        /\ m_up' = [m_up EXCEPT ![p] = @ \ {"supervisor"}]
        /\ fresh' = [fresh EXCEPT ![p] = FALSE]
        /\ UNCHANGED <<m_phase, online, sole, owner, m_signalled, host, moves>>
    BY <1>1 DEF M!SuperviseShutdown, M!HandleShutdown
  <2> QED
    BY <2>1, RunsWhen, MainRuns
<1>2. CASE M!SuperviseUpdate(p)
  <2>1. CASE M!End(p, "failed") /\ UNCHANGED <<host, moves>>
    BY <2>1, MainEnds
  <2>2. CASE /\ m_up[p] # {} /\ fresh' = [fresh EXCEPT ![p] = FALSE]
             /\ UNCHANGED <<m_phase, m_up, online, sole, owner, m_signalled, icon, host, moves>>
    BY <2>2, RunsWhen, MainRuns
  <2> QED
    BY <1>2, <2>1, <2>2 DEF M!SuperviseUpdate
<1>3. CASE M!StateChanges(p)
  <2>1. /\ m_up[p] # {} /\ fresh' = [fresh EXCEPT ![p] = TRUE]
        /\ UNCHANGED <<m_phase, m_up, online, sole, owner, m_signalled, icon, host, moves>>
    BY <1>3 DEF M!StateChanges
  <2> QED
    BY <2>1, RunsWhen, MainRuns
<1>4. CASE M!IconDies(p)
  <2>1. /\ icon[p] # "none" /\ icon' = [icon EXCEPT ![p] = "dead"]
        /\ UNCHANGED <<m_phase, m_up, online, sole, owner, m_signalled, fresh, host, moves>>
    BY <1>4 DEF M!IconDies
  <2> QED
    BY <2>1, RunsWhen, MainRuns
<1> QED
  BY <1>1, <1>2, <1>3, <1>4

LEMMA MainStops ==
    ASSUME MainInv, NEW p \in Procs, NEW t,
           M!Quit(p) \/ M!Mismatch(p, t) \/ M!TaskEnds(p, t)
    PROVE  MainInv'
<1>1. /\ UNCHANGED <<m_phase, online, sole, icon, fresh, host, moves>>
      /\ m_up[p] # {}
      /\ \/ m_signalled' = m_signalled /\ m_signalled[p]
         \/ m_signalled' = [m_signalled EXCEPT ![p] = TRUE]
      /\ \E x : M!Stops(p, x)
  BY DEF M!Quit, M!Mismatch, M!TaskEnds, M!Signal
<1>2. PICK x : M!Stops(p, x)
  BY <1>1
<1>3. /\ m_up' = [m_up EXCEPT ![p] = @ \ {x}]
      /\ owner' = owner \/ (owner = p /\ owner' = Nobody)
  BY <1>2 DEF M!Stops
<1>4. m_signalled'[p]
  BY <1>1 DEF MainInv, MainTypes
<1> QED
  BY <1>1, <1>3, <1>4, RunsWhen, MainRuns

LEMMA MainLeaves ==
    ASSUME MainInv, NEW p \in Procs,
           M!CtrlC(p) \/ M!JoinSupervisor(p) \/ M!JoinPump(p) \/ M!JoinSinks(p)
    PROVE  MainInv'
<1>0. MainTypes /\ ProcInv(p)
  BY DEF MainInv
<1>1. CASE (M!End(p, "ok") \/ M!End(p, "killed")) /\ UNCHANGED <<host, moves>>
  BY <1>1, MainEnds
<1>2. ASSUME NEW to \in Leaving, m_phase' = [m_phase EXCEPT ![p] = to],
             m_phase[p] \in Leaving \union {"watch"},
             UNCHANGED <<online, sole, icon, fresh, host, moves>>,
             m_up' = m_up \/ m_up' = [m_up EXCEPT ![p] = @ \intersect {"sinks"}],
             to = "sinks" => m_up' = [m_up EXCEPT ![p] = @ \intersect {"sinks"}],
             owner' = owner \/ (owner = p /\ owner' = Nobody),
             \/ m_signalled' = m_signalled /\ m_phase[p] \in Leaving
             \/ m_signalled' = [m_signalled EXCEPT ![p] = TRUE]
      PROVE  MainInv'
  <2>1. m_up' \in [Procs -> SUBSET M!Tasks] /\ (to = "sinks" => m_up'[p] \subseteq {"sinks"})
    BY <1>0, <1>2 DEF MainTypes
  <2>2. m_signalled' \in [Procs -> BOOLEAN] /\ m_signalled'[p]
    BY <1>0, <1>2 DEF MainTypes, ProcInv
  <2>3. MainTypes'
    BY <1>0, <1>2, <2>1, <2>2 DEF MainTypes
  <2>4. m_phase'[p] = to
    BY <1>0, <1>2 DEF MainTypes
  <2>5. ProcInv(p)'
    BY <2>1, <2>2, <2>4 DEF ProcInv, Down, Leaving
  <2>6. \A q \in Procs \ {p} :
           m_phase'[q] = m_phase[q] /\ m_up'[q] = m_up[q] /\ m_signalled'[q] = m_signalled[q]
    BY <1>0, <1>2 DEF MainTypes
  <2> QED
    BY <1>2, <2>3, <2>5, <2>6, MainMoves
<1>3. CASE M!CtrlC(p)
  <2>1. \/ M!End(p, "killed") /\ UNCHANGED <<host, moves>>
        \/ /\ m_phase[p] = "watch" /\ m_phase' = [m_phase EXCEPT ![p] = "supervisor"]
           /\ m_signalled' = [m_signalled EXCEPT ![p] = TRUE]
           /\ UNCHANGED <<m_up, online, sole, owner, icon, fresh, host, moves>>
    BY <1>3 DEF M!CtrlC, M!Signal
  <2> QED
    BY <1>1, <1>2, <2>1 DEF Leaving
<1>4. CASE M!JoinSupervisor(p)
  <2>1. /\ m_phase[p] = "supervisor" /\ m_phase' = [m_phase EXCEPT ![p] = "pump"]
        /\ UNCHANGED <<m_up, online, sole, owner, m_signalled, icon, fresh, host, moves>>
    BY <1>4 DEF M!JoinSupervisor, M!tray
  <2> QED
    BY <1>2, <2>1 DEF Leaving
<1>5. CASE M!JoinPump(p)
  <2>1. /\ m_phase[p] = "pump" /\ m_phase' = [m_phase EXCEPT ![p] = "sinks"]
        /\ m_up' = [m_up EXCEPT ![p] = @ \intersect {"sinks"}]
        /\ owner' = owner \/ (owner = p /\ owner' = Nobody)
        /\ UNCHANGED <<online, sole, m_signalled, icon, fresh, host, moves>>
    BY <1>5 DEF M!JoinPump, M!tray
  <2> QED
    BY <1>2, <2>1 DEF Leaving
<1>6. CASE M!JoinSinks(p)
  <2>1. M!End(p, "ok") /\ UNCHANGED <<host, moves>>
    BY <1>6 DEF M!JoinSinks
  <2> QED
    BY <1>1, <2>1
<1> QED
  BY <1>3, <1>4, <1>5, <1>6

LEMMA MainStill == ASSUME MainInv, UNCHANGED mvars PROVE MainInv'
<1>1. MainTypes'
  BY DEF mvars, MainInv, MainTypes, M!Tasks
<1> QED
  BY <1>1 DEF mvars, MainInv, ProcInv

LEMMA MainStep == ASSUME MainInv, M!Next PROVE MainInv'
<1>1. CASE M!HostMove
  <2>1. /\ moves < HostMoves /\ moves' = moves + 1 /\ host' = ~host
        /\ UNCHANGED <<m_phase, m_up, online, sole, owner, m_signalled, icon, fresh>>
    BY <1>1 DEF M!HostMove, M!tray
  <2>2. moves' \in 0 .. HostMoves
    BY <2>1, TrayAssumption DEF MainInv, MainTypes
  <2>3. MainTypes'
    BY <2>1, <2>2 DEF MainInv, MainTypes
  <2> QED
    BY <2>1, <2>3 DEF MainInv, ProcInv
<1>2. ASSUME NEW p \in Procs, M!Events(p)
      PROVE  MainInv'
  BY <1>2, MainStarts, MainGoesOn, MainStops, MainLeaves DEF M!Events
<1>3. ASSUME NEW p \in Procs, NEW t, M!TaskStep(p, t)
      PROVE  MainInv'
  BY <1>3, MainStarts, MainGoesOn, MainStops, MainLeaves DEF M!TaskStep
<1> QED
  BY <1>1, <1>2, <1>3 DEF M!Next

LEMMA MainActs ==
    ASSUME MainInv
    PROVE  M!TypeOK /\ M!OneIcon
<1>0. MainTypes /\ \A p \in Procs : ProcInv(p)
  BY DEF MainInv
<1>1. ASSUME NEW p \in Procs
      PROVE  /\ ~M!Running(p) => m_up[p] = {} /\ icon[p] = "none" /\ owner # p
             /\ m_phase[p] = "sinks" => m_up[p] \subseteq {"sinks"}
  BY <1>0 DEF ProcInv, M!Running, M!Gone, Down
<1>2. M!TypeOK
  BY <1>0, <1>1 DEF MainTypes, M!TypeOK, M!Gone, Down, Leaving
<1>3. M!OneIcon
  BY <1>0 DEF M!OneIcon, ProcInv
<1> QED
  BY <1>2, <1>3

-----------------------------------------------------------------------------
(* The two parts together                                                  *)

Inv == TrayInv /\ MainInv

LEMMA InvHolds == Spec => []Inv
<1>1. Init => Inv
  BY TrayInit, MainInit DEF Init, Inv
<1>2. Inv /\ [Next]_vars => Inv'
  <2> SUFFICES ASSUME Inv, [Next]_vars PROVE Inv'
    OBVIOUS
  <2>1. (T!Next \/ UNCHANGED tvars) /\ (M!Next \/ UNCHANGED mvars)
    BY DEF Next, vars
  <2>2. TrayInv'
    BY <2>1, TrayStep, TrayStill DEF Inv
  <2>3. MainInv'
    BY <2>1, MainStep, MainStill DEF Inv
  <2> QED
    BY <2>2, <2>3 DEF Inv
<1> QED
  BY <1>1, <1>2, PTL DEF Spec

(* For any number of sessions, clicks, crashes and restarts of the daemon, *)
(* a tray that has handled what arrived shows the daemon's state and       *)
(* offers no Stop for a session that is over, unless a new daemon came up  *)
(* before the tray could hear of it and behind queued signals of the old   *)
(* one; it pairs no entry with another session's audio and stays locked    *)
(* only after a loss (pump.rs, state.rs, cmd.rs).                          *)
THEOREM TrayShowsDaemon == Spec => []ShowsDaemon
<1>1. Inv => ShowsDaemon
  BY TrayShows DEF Inv, ShowsDaemon
<1> QED
  BY <1>1, InvHolds, PTL

(* No transcript reaches the sinks twice or early, and of any number of    *)
(* tray processes no two that were told to be the only one and not told to *)
(* leave show an icon (sink/dispatch.rs, single_instance.rs, main.rs).     *)
THEOREM TrayActsOnce == Spec => []ActsOnce
<1>1. Inv => ActsOnce
  BY TrayShows, MainActs DEF Inv, ActsOnce
<1> QED
  BY <1>1, InvHolds, PTL
=============================================================================
