---------------------------- MODULE ClientsProofs ----------------------------
(***************************************************************************)
(* Proofs about the command line, for any number of sessions, crashes,     *)
(* jobs, consumers and faults: the exit code of `record`, the line of      *)
(* `status --watch`, and what a consumer of transcripts types, copies and  *)
(* says.  The three parts of MCClients share no state; each has its        *)
(* invariant here, and the theorems are about the specification of         *)
(* MCClients.                                                              *)
(***************************************************************************)
EXTENDS MCClients, FiniteSetTheorems, SequenceTheorems, TLAPS

-----------------------------------------------------------------------------
(* `zwhisper record` *)

Terminal == {"refused", "done", "failed"}
Phase == {"none", "starting", "recording", "draining", "stopping", "broken",
          "released", "finishing", "failing", "cut", "lost"} \union Terminal
Value == {"starting", "recording", "stopping", "idle", "failed", "audio", "text", ""}
Signal == [session : R!Session, value : Value, life : Nat]

(* What a terminal signal says of its session is so, and stays so.         *)
TrueOf(e, ph) ==
    /\ e.value = "idle" => ph[e.session] = "done"
    /\ e.value = "failed" => ph[e.session] \in {"refused", "failed"}

RecordTypes ==
    /\ phase \in [R!Session -> Phase] /\ crashes \in Nat
    /\ listening \in {{}, R!Streams}
    /\ queue \in [R!Kind -> Seq(Signal)]
    /\ slot \in R!Session \union {R!None}
    /\ mine \in R!Session \union {R!None}
    /\ pc \in {"start", "starting", "loop", "exited"}
    /\ pc = "exited" <=> code # ""

RecordInv ==
    /\ RecordTypes
    /\ \A k \in R!Kind : \A i \in 1 .. Len(queue[k]) : TrueOf(queue[k][i], phase)
    /\ pc \in {"starting", "loop"} => mine # R!None
    /\ code \in {"EXIT_OK", "EXIT_RECORDING_FAILED"} => mine # R!None
    /\ R!ExitTellsOutcome

(* The bounds.                                                             *)
LEMMA Bounds ==
    /\ Sessions \in Nat /\ Crashes \in Nat /\ Faults \in Nat /\ Jobs \in Nat
    /\ Consumers \in Nat /\ MaxFaults \in Nat
BY ClientAssumption

(* The steps of a session and the signals they send, one by one.           *)
IsMove(m, from, to, k, v) == m[1] = from /\ m[2] = to /\ m[3] = k /\ m[4] = v

LEMMA MovesAre ==
    ASSUME NEW m \in R!Moves
    PROVE  \/ IsMove(m, "starting", "recording", "state", "recording")
           \/ IsMove(m, "starting", "refused", "state", "failed")
           \/ IsMove(m, "recording", "draining", "none", "")
           \/ IsMove(m, "draining", "stopping", "state", "stopping")
           \/ IsMove(m, "draining", "broken", "none", "")
           \/ IsMove(m, "stopping", "released", "recorded", "audio")
           \/ IsMove(m, "broken", "failing", "recorded", "audio")
           \/ IsMove(m, "released", "finishing", "none", "")
           \/ IsMove(m, "released", "finishing", "transcribed", "text")
           \/ IsMove(m, "released", "failing", "none", "")
           \/ IsMove(m, "finishing", "done", "state", "idle")
           \/ IsMove(m, "failing", "failed", "state", "failed")
<1>1. \A a, b, c, d : m = <<a, b, c, d>> => IsMove(m, a, b, c, d)
  BY DEF IsMove
<1>2. \/ m = <<"starting", "recording", "state", "recording">>
      \/ m = <<"starting", "refused", "state", "failed">>
      \/ m = <<"recording", "draining", "none", "">>
      \/ m = <<"draining", "stopping", "state", "stopping">>
      \/ m = <<"draining", "broken", "none", "">>
      \/ m = <<"stopping", "released", "recorded", "audio">>
      \/ m = <<"broken", "failing", "recorded", "audio">>
      \/ m = <<"released", "finishing", "none", "">>
      \/ m = <<"released", "finishing", "transcribed", "text">>
      \/ m = <<"released", "failing", "none", "">>
      \/ m = <<"finishing", "done", "state", "idle">>
      \/ m = <<"failing", "failed", "state", "failed">>
  BY DEF R!Moves
<1> QED
  BY <1>1, <1>2

LEMMA RecordMoves ==
    ASSUME NEW m \in R!Moves
    PROVE  /\ m[1] \in Phase \ (Terminal \union {"none", "cut", "lost"})
           /\ m[2] \in Phase
           /\ m[3] \in {"state", "none", "recorded", "transcribed"} /\ m[4] \in Value
           /\ m[4] = "idle" => m[2] = "done"
           /\ m[4] = "failed" => m[2] \in {"refused", "failed"}
<1>1. m[1] \in Phase \ (Terminal \union {"none", "cut", "lost"})
  BY MovesAre DEF IsMove, Phase, Terminal
<1>2. m[2] \in Phase
  BY MovesAre DEF IsMove, Phase, Terminal
<1>3. m[3] \in {"state", "none", "recorded", "transcribed"}
  BY MovesAre DEF IsMove
<1>4. m[4] \in Value
  BY MovesAre DEF IsMove, Value
<1>5. /\ m[4] = "idle" => m[2] = "done"
      /\ m[4] = "failed" => m[2] \in {"refused", "failed"}
  BY MovesAre DEF IsMove
<1> QED
  BY <1>1, <1>2, <1>3, <1>4, <1>5

(* A queue that grows at one end by a signal that is true.                 *)
LEMMA AppendTrue ==
    ASSUME NEW q \in Seq(Signal), NEW e \in Signal, NEW ph, TrueOf(e, ph),
           \A i \in 1 .. Len(q) : TrueOf(q[i], ph)
    PROVE  /\ Append(q, e) \in Seq(Signal)
           /\ \A i \in 1 .. Len(Append(q, e)) : TrueOf(Append(q, e)[i], ph)
<1>1. Append(q, e) \in Seq(Signal) /\ Len(Append(q, e)) = Len(q) + 1
  OBVIOUS
<1>2. \A i \in 1 .. Len(q) + 1 : Append(q, e)[i] = IF i = Len(q) + 1 THEN e ELSE q[i]
  OBVIOUS
<1>3. \A i \in 1 .. Len(q) + 1 : i # Len(q) + 1 => i \in 1 .. Len(q)
  OBVIOUS
<1> HIDE DEF TrueOf
<1> QED
  BY <1>1, <1>2, <1>3

(* A step of the daemon that moves some sessions, ends none twice, and     *)
(* sends one signal.                                                       *)
LEMMA RecordSends ==
    ASSUME RecordInv, NEW k, NEW s \in R!Session, NEW v \in Value,
           R!Send(k, s, v), phase' \in [R!Session -> Phase],
           \A t \in R!Session : phase[t] \in Terminal => phase'[t] = phase[t],
           v = "idle" => phase'[s] = "done",
           v = "failed" => phase'[s] \in {"refused", "failed"},
           slot' \in R!Session \union {R!None},
           UNCHANGED <<listening, crashes>>,
           UNCHANGED <<pc, mine, code>> \/
              /\ pc = "start" /\ pc' = "starting" /\ mine' = s /\ code' = code
    PROVE  RecordInv'
<1> DEFINE e == [session |-> s, value |-> v, life |-> crashes]
<1>1. e \in Signal /\ TrueOf(e, phase')
  BY DEF RecordInv, RecordTypes, Signal, TrueOf
<1>2. \A kk \in R!Kind : /\ queue[kk] \in Seq(Signal)
                         /\ \A i \in 1 .. Len(queue[kk]) : TrueOf(queue[kk][i], phase')
  <2> SUFFICES ASSUME NEW kk \in R!Kind
               PROVE  /\ queue[kk] \in Seq(Signal)
                      /\ \A i \in 1 .. Len(queue[kk]) : TrueOf(queue[kk][i], phase')
    OBVIOUS
  <2>1. queue[kk] \in Seq(Signal)
    BY DEF RecordInv, RecordTypes
  <2>2. \A i \in 1 .. Len(queue[kk]) :
           queue[kk][i] \in Signal /\ TrueOf(queue[kk][i], phase)
    BY <2>1 DEF RecordInv
  <2> QED
    BY <2>1, <2>2 DEF TrueOf, Signal, Terminal
<1>3. \A kk \in R!Kind : queue'[kk] \in {queue[kk], Append(queue[kk], e)}
  BY DEF R!Send, RecordInv, RecordTypes
<1>4. queue' \in [R!Kind -> Seq(Signal)]
  <2>1. \A kk \in R!Kind : queue'[kk] \in Seq(Signal)
    BY <1>1, <1>2, <1>3, AppendTrue
  <2> QED
    BY <2>1 DEF R!Send, RecordInv, RecordTypes
<1>5. \A kk \in R!Kind : \A i \in 1 .. Len(queue'[kk]) : TrueOf(queue'[kk][i], phase')
  <2> SUFFICES ASSUME NEW kk \in R!Kind
               PROVE  \A i \in 1 .. Len(queue'[kk]) : TrueOf(queue'[kk][i], phase')
    OBVIOUS
  <2> HIDE DEF e
  <2>1. CASE queue'[kk] = queue[kk]
    BY <1>2, <2>1
  <2>2. CASE queue'[kk] = Append(queue[kk], e)
    BY <1>1, <1>2, <2>2, AppendTrue
  <2> QED
    BY <1>3, <2>1, <2>2
<1>6. RecordTypes'
  BY <1>4 DEF RecordInv, RecordTypes
<1>7. R!ExitTellsOutcome'
  BY DEF RecordInv, RecordTypes, R!ExitTellsOutcome, Terminal
<1>8. s # R!None
  BY Bounds DEF R!Session, R!None
<1> QED
  BY <1>5, <1>6, <1>7, <1>8 DEF RecordInv

LEMMA RecordAdvance ==
    ASSUME RecordInv, NEW s \in R!Session, R!Advance(s), UNCHANGED <<pc, mine, code>>
    PROVE  RecordInv'
<1>1. PICK m \in R!Moves :
        /\ phase[s] = m[1] /\ phase' = [phase EXCEPT ![s] = m[2]]
        /\ R!Send(m[3], s, m[4]) /\ slot' \in {R!None, slot}
        /\ UNCHANGED <<up, listening, crashes>>
  BY DEF R!Advance
<1>2. /\ phase' \in [R!Session -> Phase] /\ phase'[s] = m[2]
      /\ \A t \in R!Session : phase[t] \in Terminal => phase'[t] = phase[t]
  BY <1>1, RecordMoves DEF RecordInv, RecordTypes, Terminal
<1>3. slot' \in R!Session \union {R!None}
  BY <1>1 DEF RecordInv, RecordTypes
<1> QED
  BY <1>1, <1>2, <1>3, RecordMoves, RecordSends

LEMMA RecordAdmit ==
    ASSUME RecordInv, NEW s \in R!Session, R!Admit(s),
           UNCHANGED <<pc, mine, code>> \/
              /\ pc = "start" /\ pc' = "starting" /\ mine' = s /\ code' = code
    PROVE  RecordInv'
<1>1. /\ phase' \in [R!Session -> Phase]
      /\ \A t \in R!Session : phase[t] \in Terminal => phase'[t] = phase[t]
  BY DEF R!Admit, RecordInv, RecordTypes, Phase, Terminal
<1>2. R!Send("state", s, "starting") /\ slot' = s /\ UNCHANGED <<listening, crashes>>
  BY DEF R!Admit
<1>3. "starting" \in Value
  BY DEF Value
<1>4. slot' \in R!Session \union {R!None}
  BY <1>2
<1> QED
  BY <1>1, <1>2, <1>3, <1>4, RecordSends

(* The daemon dies or appears: nobody listens for that.                    *)
LEMMA RecordOwner ==
    ASSUME RecordInv, R!Crash \/ R!Appear, UNCHANGED <<pc, mine, code>>
    PROVE  RecordInv'
<1>1. /\ UNCHANGED listening /\ queue' = queue
      /\ slot' \in R!Session \union {R!None} /\ crashes' \in Nat
  <2>1. "owner" \notin listening
    <3>1. listening = {} \/ listening = R!Streams
      BY DEF RecordInv, RecordTypes
    <3> QED
      BY <3>1 DEF R!Streams
  <2>2. slot \in R!Session \union {R!None} /\ crashes \in Nat
    BY DEF RecordInv, RecordTypes
  <2> QED
    BY <2>1, <2>2 DEF R!Crash, R!Appear, R!Send
<1>2. /\ phase' \in [R!Session -> Phase]
      /\ \A t \in R!Session : phase[t] \in Terminal => phase'[t] = phase[t]
  BY DEF R!Crash, R!Appear, R!InFlight, RecordInv, RecordTypes, Phase, Terminal
<1>3. RecordTypes'
  BY <1>1, <1>2 DEF RecordInv, RecordTypes
<1>4. \A k \in R!Kind : \A i \in 1 .. Len(queue[k]) : TrueOf(queue[k][i], phase')
  <2> SUFFICES ASSUME NEW k \in R!Kind, NEW i \in 1 .. Len(queue[k])
               PROVE  TrueOf(queue[k][i], phase')
    OBVIOUS
  <2>1. queue[k] \in Seq(Signal)
    BY DEF RecordInv, RecordTypes
  <2>2. queue[k][i] \in Signal /\ TrueOf(queue[k][i], phase)
    BY <2>1 DEF RecordInv
  <2> QED
    BY <1>2, <2>2 DEF TrueOf, Signal, Terminal
<1>5. R!ExitTellsOutcome'
  BY <1>2 DEF RecordInv, RecordTypes, R!ExitTellsOutcome, Terminal
<1> QED
  BY <1>1, <1>3, <1>4, <1>5 DEF RecordInv

(* The head of a stream is taken.                                          *)
LEMMA TailTrue ==
    ASSUME NEW q \in Seq(Signal), q # << >>
    PROVE  /\ Head(q) = q[1] /\ 1 \in 1 .. Len(q) /\ Head(q) \in Signal
           /\ Tail(q) \in Seq(Signal) /\ Len(Tail(q)) = Len(q) - 1
           /\ \A i \in 1 .. Len(q) - 1 : Tail(q)[i] = q[i + 1] /\ i + 1 \in 1 .. Len(q)
OBVIOUS

LEMMA RecordTake ==
    ASSUME RecordInv, NEW k \in R!Streams, R!Take(k)
    PROVE  RecordInv'
<1> DEFINE e == Head(queue[k])
<1>1. /\ pc = "loop" /\ queue[k] # << >> /\ k \in R!Kind
      /\ queue' = [queue EXCEPT ![k] = Tail(queue[k])]
      /\ UNCHANGED <<phase, slot, listening, crashes, mine>>
      /\ \/ R!Own(e) /\ e.value = "idle" /\ pc' = "exited" /\ code' = "EXIT_OK"
         \/ /\ R!Own(e) /\ e.value = "failed" /\ pc' = "exited"
            /\ code' = "EXIT_RECORDING_FAILED"
         \/ UNCHANGED <<pc, code>>
  BY DEF R!Take, R!Exit, R!Streams, R!Kind
<1>2. queue[k] \in Seq(Signal)
  BY <1>1 DEF RecordInv, RecordTypes
<1>3. e = queue[k][1] /\ 1 \in 1 .. Len(queue[k])
  BY <1>1, <1>2, TailTrue
<1>4. TrueOf(e, phase)
  BY <1>1, <1>3 DEF RecordInv
<1>5. queue' \in [R!Kind -> Seq(Signal)]
  BY <1>1, <1>2, TailTrue DEF RecordInv, RecordTypes
<1>6. \A kk \in R!Kind : \A i \in 1 .. Len(queue'[kk]) : TrueOf(queue'[kk][i], phase)
  <2> SUFFICES ASSUME NEW kk \in R!Kind, NEW i \in 1 .. Len(queue'[kk])
               PROVE  TrueOf(queue'[kk][i], phase)
    OBVIOUS
  <2>0. DOMAIN queue = R!Kind
    BY DEF RecordInv, RecordTypes
  <2>1. CASE kk # k
    BY <1>1, <2>0, <2>1 DEF RecordInv
  <2>2. CASE kk = k
    <3>1. queue'[k] = Tail(queue[k]) /\ i \in 1 .. Len(queue[k]) - 1
      BY <1>1, <1>2, <2>0, <2>2, TailTrue
    <3>2. queue'[k][i] = queue[k][i + 1] /\ i + 1 \in 1 .. Len(queue[k])
      BY <1>1, <1>2, <3>1, TailTrue
    <3> QED
      BY <1>1, <2>2, <3>2 DEF RecordInv
  <2> QED
    BY <2>1, <2>2
<1> HIDE DEF e
<1>7. RecordTypes'
  BY <1>1, <1>5 DEF RecordInv, RecordTypes
<1>8. R!ExitTellsOutcome'
  BY <1>1, <1>4 DEF R!ExitTellsOutcome, R!Own, TrueOf, RecordInv
<1> QED
  BY <1>1, <1>6, <1>7, <1>8 DEF RecordInv

LEMMA RecordCalls ==
    ASSUME RecordInv, R!Subscribe \/ R!Call \/ R!DaemonDown \/ R!Reply \/ R!CtrlC
    PROVE  RecordInv'
<1>1. CASE R!Subscribe
  BY <1>1 DEF R!Subscribe, R!clientVars, RecordInv, RecordTypes, R!ExitTellsOutcome
<1>2. CASE R!Call
  <2>1. CASE \E s \in R!Session : R!Admit(s) /\ mine' = s /\ pc' = "starting" /\ UNCHANGED code
    BY <1>2, <2>1, RecordAdmit DEF R!Call
  <2>2. CASE R!Exit("EXIT_PROTOCOL_ERROR") /\ UNCHANGED <<mine, R!daemonVars>>
    BY <1>2, <2>2 DEF R!Call, R!Exit, R!daemonVars, RecordInv, RecordTypes,
                      R!ExitTellsOutcome
  <2> QED
    BY <1>2, <2>1, <2>2 DEF R!Call
<1>3. CASE R!DaemonDown
  BY <1>3 DEF R!DaemonDown, R!Exit, R!daemonVars, RecordInv, RecordTypes,
              R!ExitTellsOutcome
<1>4. CASE R!Reply
  <2>1. /\ pc = "starting" /\ UNCHANGED <<phase, slot, queue, listening, crashes, mine>>
        /\ \/ pc' = "exited" /\ code' = "EXIT_IPC_FAILURE"
           \/ /\ phase[mine] = "refused" /\ pc' = "exited"
              /\ code' = "EXIT_RECORDING_FAILED"
           \/ pc' = "loop" /\ UNCHANGED code
    BY <1>4 DEF R!Reply, R!Exit, R!daemonVars, R!NeverRecorded
  <2>2. R!ExitTellsOutcome'
    BY <2>1 DEF RecordInv, R!ExitTellsOutcome
  <2>3. RecordTypes'
    BY <2>1 DEF RecordInv, RecordTypes
  <2> QED
    BY <2>1, <2>2, <2>3 DEF RecordInv
<1>5. CASE R!CtrlC
  <2>1. mine \in R!Session
    BY <1>5 DEF R!CtrlC, RecordInv, RecordTypes
  <2>2. CASE R!Advance(mine)
    BY <1>5, <2>1, <2>2, RecordAdvance DEF R!CtrlC
  <2>3. CASE UNCHANGED R!daemonVars
    BY <1>5, <2>3 DEF R!CtrlC, R!daemonVars, RecordInv, RecordTypes, R!ExitTellsOutcome
  <2> QED
    BY <1>5, <2>2, <2>3 DEF R!CtrlC
<1> QED
  BY <1>1, <1>2, <1>3, <1>4, <1>5

LEMMA RecordStep == RecordInv /\ [R!Next]_(R!vars) => RecordInv'
<1> SUFFICES ASSUME RecordInv, [R!Next]_(R!vars) PROVE RecordInv'
  OBVIOUS
<1>1. CASE \E k \in R!Streams : R!Take(k)
  BY <1>1, RecordTake
<1>2. CASE R!Environment
  <2>1. UNCHANGED <<pc, mine, code>>
    BY <1>2 DEF R!Environment, R!clientVars
  <2> QED
    BY <1>2, <2>1, RecordAdmit, RecordAdvance, RecordOwner DEF R!Environment, R!Daemon
<1>3. CASE UNCHANGED R!vars
  BY <1>3 DEF R!vars, R!daemonVars, R!clientVars, RecordInv, RecordTypes,
              R!ExitTellsOutcome
<1> QED
  BY <1>1, <1>2, <1>3, RecordCalls DEF R!Next

LEMMA RecordInit == R!Init => RecordInv
<1> SUFFICES ASSUME R!Init PROVE RecordInv
  OBVIOUS
<1>1. << >> \in Seq(Signal) /\ Len(<< >>) = 0
  OBVIOUS
<1>2. RecordTypes
  BY <1>1 DEF R!Init, R!DaemonInit, RecordTypes, Phase
<1>3. \A k \in R!Kind : \A i \in 1 .. Len(queue[k]) : TrueOf(queue[k][i], phase)
  <2>1. \A k \in R!Kind : Len(queue[k]) = 0
    BY <1>1 DEF R!Init, R!DaemonInit
  <2> QED
    BY <2>1
<1>4. pc = "start" /\ code = ""
  BY DEF R!Init
<1> QED
  BY <1>2, <1>3, <1>4 DEF RecordInv, R!ExitTellsOutcome

LEMMA RecordKept == RecordInv => R!TypeOK /\ R!ExitTellsOutcome
<1> SUFFICES ASSUME RecordInv PROVE R!TypeOK
  BY DEF RecordInv
<1>1. \A k \in R!Kind : \A i \in DOMAIN queue[k] : queue[k][i].session \in R!Session
  <2> SUFFICES ASSUME NEW k \in R!Kind, NEW i \in DOMAIN queue[k]
               PROVE  queue[k][i].session \in R!Session
    OBVIOUS
  <2>1. queue[k] \in Seq(Signal)
    BY DEF RecordInv, RecordTypes
  <2>2. queue[k][i] \in Signal
    BY <2>1
  <2> QED
    BY <2>2 DEF Signal
<1>2. mine \in 0 .. Sessions
  <2>1. mine \in (1 .. Sessions) \union {0}
    BY DEF RecordInv, RecordTypes, R!Session, R!None
  <2> QED
    BY <2>1, Bounds
<1> QED
  BY <1>1, <1>2 DEF R!TypeOK, RecordInv, RecordTypes

-----------------------------------------------------------------------------
(* `zwhisper status --watch` *)

Active == {"starting", "recording", "stopping"}
Sent == w_queue["state"]
News == w_queue["owner"]
Notice == [session : W!Session \union {W!None},
           value : Value \union {"gone", "here"}, life : Nat]
Over(e) == e.value \in {"idle", "failed"}
DeathPending == \E i \in 1 .. Len(News) : News[i].value = "gone"

WatchTypes ==
    /\ w_up \in BOOLEAN /\ w_phase \in [W!Session -> Phase] /\ w_crashes \in Nat
    /\ w_slot \in W!Session \union {W!None}
    /\ w_queue \in [W!Kind -> Seq(Notice)]
    /\ w_pc \in {"attach", "snapshot", "loop"}
    /\ w_listening = IF w_pc = "attach" THEN {} ELSE {"state", "owner"}
    /\ recorder_state \in Active \union {"idle", "failed"}
    /\ last_line \in Active \union {"", "idle", "failed"}
    /\ w_pc = "loop" => last_line = recorder_state
    /\ current_session \in W!Session \union {W!None}
    /\ stale \in BOOLEAN /\ blind \in BOOLEAN /\ faults \in 0 .. Faults
    /\ failures \in Nat /\ due \in Nat /\ failures >= due

(* Before it subscribes, and before the first snapshot, the watch knows    *)
(* nothing of any session.                                                 *)
NotYet ==
    /\ w_pc = "attach" => Sent = << >> /\ News = << >> /\ ~stale
    /\ w_pc # "loop" => recorder_state = "idle"
    /\ w_pc = "attach" => current_session = W!None
    /\ w_pc = "snapshot" => current_session = W!None

(* One session holds the slot; a daemon that is down runs none.            *)
SlotInv ==
    /\ \A s \in W!Session : w_phase[s] \in W!SlotHeldIn <=> w_slot = s
    /\ ~w_up => \A s \in W!Session : ~W!InFlight(s)

(* The signals under way.  One that does not end its session is followed by*)
(* the end, unless the session still runs; and those of the session in the *)
(* slot are followed by ends of others only.                               *)
SignalInv(i) ==
    LET e == Sent[i] IN
    /\ e.session \in W!Session /\ e.value \in Active \union {"idle", "failed"}
    /\ w_phase[e.session] # "none" /\ e.life <= w_crashes
    /\ W!InFlight(e.session) => e.life = w_crashes
    /\ ~Over(e) /\ e.life = w_crashes =>
          \/ W!InFlight(e.session)
          \/ \E k \in i + 1 .. Len(Sent) : Sent[k].session = e.session /\ Over(Sent[k])
    /\ e.session = w_slot =>
          /\ ~Over(e)
          /\ \A k \in i + 1 .. Len(Sent) : Sent[k].session = w_slot \/ Over(Sent[k])

(* What the line shows: the session in the slot has a signal on its way, or*)
(* is the one that is shown, or was found by the snapshot and is alone.    *)
SlotShown ==
    w_slot # W!None /\ w_pc # "attach" =>
       \/ \E i \in 1 .. Len(Sent) : Sent[i].session = w_slot
       \/ /\ ~DeathPending /\ current_session = w_slot /\ recorder_state \in Active
          /\ \A i \in 1 .. Len(Sent) : Over(Sent[i])
       \/ /\ ~DeathPending /\ current_session = W!None /\ Sent = << >>
          /\ \A t \in W!Session : t # w_slot => ~W!InFlight(t)
          /\ recorder_state \in Active \/ stale \/ w_pc = "snapshot"

(* The session that is shown has not ended, or its end is on its way; and  *)
(* a recording without a session was found by a snapshot and will end.     *)
EndComes ==
    ~DeathPending =>
       /\ current_session # W!None =>
             \/ W!InFlight(current_session)
             \/ \E i \in 1 .. Len(Sent) :
                   Sent[i].session = current_session /\ Over(Sent[i])
       /\ current_session = W!None /\ recorder_state \in Active =>
             \/ \E s \in W!Session : W!InFlight(s)
             \/ \E i \in 1 .. Len(Sent) : Over(Sent[i])

WatchInv ==
    /\ WatchTypes /\ NotYet /\ SlotInv
    /\ \A i \in 1 .. Len(Sent) : SignalInv(i)
    /\ ~blind => SlotShown /\ EndComes

Running == Phase \ (Terminal \union {"none", "cut", "lost"})
Ended(v) == v \in {"idle", "failed"}

LEMMA WatchMoves ==
    ASSUME NEW m \in W!Moves
    PROVE  /\ m[1] \in Running /\ m[2] \in Running \union Terminal
           /\ m[3] \in {"state", "none", "recorded", "transcribed"}
           /\ m[3] = "state" => m[4] \in {"recording", "stopping", "idle", "failed"}
           /\ m[2] \in Terminal <=> (m[3] = "state" /\ Ended(m[4]))
           /\ m[2] \in W!SlotHeldIn => m[1] \in W!SlotHeldIn
           /\ m[3] = "state" /\ ~Ended(m[4]) => m[2] \in W!SlotHeldIn
<1>1. m \in R!Moves
  BY DEF W!Moves, R!Moves
<1>2. m[1] \in Running
  BY <1>1, MovesAre DEF IsMove, Running, Phase, Terminal
<1>3. m[2] \in Running \union Terminal
  BY <1>1, MovesAre DEF IsMove, Running, Phase, Terminal
<1>4. m[3] \in {"state", "none", "recorded", "transcribed"}
  BY <1>1, MovesAre DEF IsMove
<1>5. m[3] = "state" => m[4] \in {"recording", "stopping", "idle", "failed"}
  BY <1>1, MovesAre DEF IsMove
<1>6. m[2] \in Terminal <=> (m[3] = "state" /\ Ended(m[4]))
  BY <1>1, MovesAre DEF IsMove, Ended, Terminal
<1>7. m[2] \in W!SlotHeldIn => m[1] \in W!SlotHeldIn
  BY <1>1, MovesAre DEF IsMove, W!SlotHeldIn
<1>8. m[3] = "state" /\ ~Ended(m[4]) => m[2] \in W!SlotHeldIn
  BY <1>1, MovesAre DEF IsMove, Ended, W!SlotHeldIn
<1> QED
  BY <1>2, <1>3, <1>4, <1>5, <1>6, <1>7, <1>8

(* A session runs in the phases of the steps.                              *)
LEMMA RunningIs ==
    ASSUME NEW ph \in Phase
    PROVE  /\ ph \in Running <=>
                ph \notin {"none", "refused", "done", "failed", "cut", "lost"}
           /\ ph \in Running => ph # "none"
           /\ ph \in W!SlotHeldIn => ph \in Running
           /\ ph \in Terminal => ph \notin Running /\ ph # "none"
BY DEF Phase, Running, Terminal, W!SlotHeldIn

LEMMA Grows ==
    ASSUME NEW q \in Seq(Notice), NEW e \in Notice
    PROVE  /\ Len(q) \in Nat /\ Len(Append(q, e)) = Len(q) + 1
           /\ Append(q, e) \in Seq(Notice) /\ Append(q, e)[Len(q) + 1] = e
           /\ Len(q) + 1 \in 1 .. Len(q) + 1
           /\ \A i \in 1 .. Len(q) : i \in 1 .. Len(q) + 1 /\ Append(q, e)[i] = q[i]
           /\ \A i \in 1 .. Len(q) + 1 : i \in 1 .. Len(q) \/ i = Len(q) + 1
           /\ \A i \in 1 .. Len(q) : \A k \in i + 1 .. Len(q) :
                 k \in i + 1 .. Len(q) + 1 /\ k \in 1 .. Len(q)
           /\ \A i \in 1 .. Len(q) : /\ Len(q) + 1 \in i + 1 .. Len(q) + 1
                                     /\ \A k \in i + 1 .. Len(q) + 1 :
                                           k \in i + 1 .. Len(q) \/ k = Len(q) + 1
           /\ Len(q) + 1 + 1 .. Len(q) + 1 = {}
OBVIOUS

LEMMA Shrinks ==
    ASSUME NEW q \in Seq(Notice), q # << >>
    PROVE  /\ Head(q) = q[1] /\ 1 \in 1 .. Len(q) /\ Head(q) \in Notice
           /\ Tail(q) \in Seq(Notice) /\ Len(q) \in Nat
           /\ Len(Tail(q)) = Len(q) - 1
           /\ \A i \in 1 .. Len(q) - 1 : Tail(q)[i] = q[i + 1] /\ i + 1 \in 1 .. Len(q)
           /\ \A k \in 1 .. Len(q) :
                 \/ k = 1
                 \/ k - 1 \in 1 .. Len(q) - 1 /\ Tail(q)[k - 1] = q[k] /\ k \in 1 + 1 .. Len(q)
           /\ \A i \in 1 .. Len(q) - 1 : \A k \in i + 1 .. Len(q) - 1 :
                 k + 1 \in i + 1 + 1 .. Len(q) /\ Tail(q)[k] = q[k + 1]
           /\ \A i \in 1 .. Len(q) - 1 : \A k \in i + 1 + 1 .. Len(q) :
                 k - 1 \in i + 1 .. Len(q) - 1 /\ Tail(q)[k - 1] = q[k]
           /\ \A i \in 1 .. Len(q) - 1 : i + 1 \in 1 + 1 .. Len(q)
OBVIOUS

(* What a signal of a session does to the watch's queues.                  *)
Said(s, v) == [session |-> s, value |-> v, life |-> w_crashes]

LEMMA WatchSend ==
    ASSUME WatchTypes, NEW s \in W!Session, NEW v \in Value, W!Send("state", s, v)
    PROVE  /\ News' = News /\ w_queue' \in [W!Kind -> Seq(Notice)]
           /\ Said(s, v) \in Notice
           /\ Sent' = IF w_pc = "attach" THEN Sent ELSE Append(Sent, Said(s, v))
<1>1. /\ "state" \in W!Kind /\ "owner" \in W!Kind
      /\ w_queue \in [W!Kind -> Seq(Notice)]
      /\ "state" \in w_listening <=> w_pc # "attach"
  BY DEF WatchTypes, W!Kind
<1>2. Said(s, v) \in Notice
  BY DEF WatchTypes, Notice, Said
<1>3. w_queue' = IF w_pc = "attach" THEN w_queue
                 ELSE [w_queue EXCEPT !["state"] = Append(w_queue["state"], Said(s, v))]
  BY <1>1 DEF W!Send, Said
<1>4. Append(w_queue["state"], Said(s, v)) \in Seq(Notice)
  BY <1>1, <1>2
<1> QED
  BY <1>1, <1>2, <1>3, <1>4 DEF Sent, News

LEMMA WatchSilent ==
    ASSUME WatchTypes, NEW k \in {"none", "recorded", "transcribed"}, NEW s, NEW v,
           W!Send(k, s, v)
    PROVE  w_queue' = w_queue /\ Sent' = Sent /\ News' = News
<1>1. k \notin w_listening
  BY DEF WatchTypes
<1> QED
  BY <1>1 DEF W!Send, Sent, News

WatchSame == UNCHANGED <<w_pc, recorder_state, current_session, stale, last_line,
                         failures, due, faults, blind>>

(* A session begins: its first signal is on the way.                       *)
LEMMA WatchAdmit ==
    ASSUME WatchInv, NEW s \in W!Session, W!Admit(s), WatchSame
    PROVE  WatchInv'
<1> DEFINE e == Said(s, "starting")
<1>0. PICK n : n = Len(Sent)
  OBVIOUS
<1>1. /\ w_slot = W!None /\ w_phase[s] = "none" /\ w_up
      /\ w_phase' = [w_phase EXCEPT ![s] = "starting"] /\ w_slot' = s
      /\ W!Send("state", s, "starting") /\ UNCHANGED <<w_up, w_listening, w_crashes>>
  BY DEF W!Admit
<1>2. WatchTypes /\ "starting" \in Value /\ w_phase \in [W!Session -> Phase]
  BY DEF WatchInv, WatchTypes, Value
<1>3. /\ News' = News /\ w_queue' \in [W!Kind -> Seq(Notice)] /\ e \in Notice
      /\ Sent' = IF w_pc = "attach" THEN Sent ELSE Append(Sent, e)
  BY <1>1, <1>2, WatchSend
<1>4. /\ w_phase' \in [W!Session -> Phase] /\ w_phase'[s] = "starting"
      /\ \A t \in W!Session : t # s => w_phase'[t] = w_phase[t]
  BY <1>1, <1>2 DEF Phase
<1>5. /\ \A t \in W!Session : W!InFlight(t) => W!InFlight(t)' /\ t # s
      /\ W!InFlight(s)'
      /\ \A t \in W!Session : W!InFlight(t)' => W!InFlight(t) \/ t = s
  BY <1>1, <1>4 DEF W!InFlight
<1>6. WatchTypes'
  BY <1>1, <1>2, <1>3, <1>4 DEF WatchTypes, WatchSame
<1>7. NotYet'
  BY <1>3 DEF NotYet, WatchInv, WatchSame
<1>8. SlotInv'
  <2>1. \A t \in W!Session : w_phase[t] \in W!SlotHeldIn <=> w_slot = t
    BY DEF WatchInv, SlotInv
  <2>2. s # W!None /\ "starting" \in W!SlotHeldIn
    BY Bounds DEF W!Session, W!None, W!SlotHeldIn
  <2>3. \A t \in W!Session : t # W!None
    BY Bounds DEF W!Session, W!None
  <2> QED
    BY <1>1, <1>4, <2>1, <2>2, <2>3 DEF SlotInv
<1>9. Sent \in Seq(Notice)
  BY <1>2 DEF WatchTypes, W!Kind, Sent
<1>10. \A i \in 1 .. n : Sent[i].session # s
  BY <1>0, <1>1 DEF WatchInv, SignalInv
<1>11. \A i \in 1 .. Len(Sent') : SignalInv(i)'
  <2>1. CASE w_pc = "attach"
    <3>1. Len(Sent') = 0
      BY <1>3, <2>1 DEF WatchInv, NotYet
    <3> QED
      BY <3>1
  <2>2. CASE w_pc # "attach"
    <3>0. /\ n \in Nat /\ Len(Sent') = n + 1 /\ Sent'[n + 1] = e
          /\ \A i \in 1 .. n : i \in 1 .. n + 1 /\ Sent'[i] = Sent[i]
          /\ \A i \in 1 .. n + 1 : i \in 1 .. n \/ i = n + 1
          /\ \A i \in 1 .. n : \A k \in i + 1 .. n : k \in i + 1 .. n + 1 /\ k \in 1 .. n
          /\ n + 1 + 1 .. n + 1 = {}
      BY <1>0, <1>3, <1>9, <2>2, Grows
    <3>1. SignalInv(n + 1)'
      <4>1. /\ e.session = s /\ e.value = "starting" /\ e.life = w_crashes
            /\ ~Over(e)
        BY DEF Said, Over
      <4>2. w_crashes \in Nat
        BY <1>2 DEF WatchTypes
      <4> HIDE DEF e
      <4>3. e.life <= w_crashes'
        BY <1>1, <4>1, <4>2
      <4> QED
        BY <1>1, <1>4, <1>5, <3>0, <4>1, <4>3 DEF SignalInv, Active, Over
    <3>2. ASSUME NEW i \in 1 .. n PROVE SignalInv(i)'
      <4>1. SignalInv(i) /\ Sent'[i] = Sent[i] /\ Sent[i].session # s
        BY <1>0, <1>10, <3>0, <3>2 DEF WatchInv
      <4>2. \A k \in i + 1 .. n : Sent'[k] = Sent[k] /\ k \in i + 1 .. n + 1
        BY <3>0, <3>2
      <4> QED
        BY <1>0, <1>1, <1>4, <1>5, <3>0, <4>1, <4>2 DEF SignalInv, Over
    <3> QED
      BY <3>0, <3>1, <3>2
  <2> QED
    BY <2>1, <2>2
<1>12. ~blind => SlotShown' /\ EndComes'
  <2>1. CASE w_pc = "attach"
    BY <1>5, <2>1 DEF WatchInv, NotYet, SlotShown, EndComes, WatchSame, Active
  <2>2. CASE w_pc # "attach"
    <3>0. /\ n \in Nat /\ Len(Sent') = n + 1 /\ Sent'[n + 1] = e
          /\ n + 1 \in 1 .. n + 1 /\ e.session = s
          /\ \A i \in 1 .. n : i \in 1 .. n + 1 /\ Sent'[i] = Sent[i]
      BY <1>0, <1>3, <1>9, <2>2, Grows DEF Said
    <3>1. SlotShown'
      BY <1>1, <3>0 DEF SlotShown
    <3>2. ~blind => EndComes'
      <4>1. DeathPending' <=> DeathPending
        BY <1>3 DEF DeathPending
      <4> QED
        BY <1>0, <1>5, <3>0, <4>1 DEF EndComes, WatchInv, WatchTypes, WatchSame, Over
    <3> QED
      BY <3>1, <3>2
  <2> QED
    BY <2>1, <2>2
<1> QED
  BY <1>6, <1>7, <1>8, <1>11, <1>12 DEF WatchInv, WatchSame

(* A session goes on: it says nothing, or what follows in its order.       *)
LEMMA WatchAdvance ==
    ASSUME WatchInv, NEW s \in W!Session, W!Advance(s), WatchSame
    PROVE  WatchInv'
<1>0. PICK n : n = Len(Sent)
  OBVIOUS
<1>1. PICK m \in W!Moves :
        /\ w_phase[s] = m[1] /\ w_phase' = [w_phase EXCEPT ![s] = m[2]]
        /\ W!Send(m[3], s, m[4])
        /\ w_slot' = IF m[1] \in W!SlotHeldIn /\ m[2] \notin W!SlotHeldIn THEN W!None
                     ELSE w_slot
        /\ UNCHANGED <<w_up, w_listening, w_crashes>>
  BY DEF W!Advance
<1>2. WatchTypes /\ w_phase \in [W!Session -> Phase]
  BY DEF WatchInv, WatchTypes
<1> DEFINE e == Said(s, m[4])  says == m[3] = "state"
<1>3. /\ News' = News /\ w_queue' \in [W!Kind -> Seq(Notice)]
      /\ Sent' = IF w_pc = "attach" \/ ~says THEN Sent ELSE Append(Sent, e)
      /\ says => e \in Notice
  <2>1. CASE says
    <3>1. m[4] \in Value
      BY <2>1, WatchMoves DEF Value
    <3> QED
      BY <1>1, <1>2, <2>1, <3>1, WatchSend
  <2>2. CASE ~says
    BY <1>1, <1>2, <2>2, WatchMoves, WatchSilent DEF WatchTypes
  <2> QED
    BY <2>1, <2>2
<1>4. /\ w_phase' \in [W!Session -> Phase] /\ w_phase'[s] = m[2]
      /\ \A t \in W!Session : t # s => w_phase'[t] = w_phase[t]
  BY <1>1, <1>2, WatchMoves DEF Running, Terminal, Phase
<1>5. /\ W!InFlight(s) /\ m[2] # "none"
      /\ W!InFlight(s)' <=> ~(says /\ Ended(m[4]))
      /\ \A t \in W!Session : t # s => (W!InFlight(t)' <=> W!InFlight(t))
  <2>1. m[1] \in Running /\ m[1] \in Phase /\ m[2] \in Phase
    BY WatchMoves DEF Running, Terminal, Phase
  <2>2. m[2] \in Running <=> ~(says /\ Ended(m[4]))
    BY <2>1, WatchMoves, RunningIs
  <2>3. m[2] # "none"
    BY <2>1, WatchMoves, RunningIs
  <2> HIDE DEF says
  <2> QED
    BY <1>1, <1>4, <2>1, <2>2, <2>3, RunningIs DEF W!InFlight
<1>6. /\ \A t \in W!Session : w_phase[t] \in W!SlotHeldIn <=> w_slot = t
      /\ \A t \in W!Session : t # W!None
      /\ w_slot' \in {w_slot, W!None}
  BY <1>1, Bounds DEF WatchInv, SlotInv, W!Session, W!None
<1>7. /\ says /\ ~Ended(m[4]) => w_slot = s /\ w_slot' = s
      /\ says /\ w_slot' = s => ~Ended(m[4])
  <2>1. says /\ ~Ended(m[4]) => m[2] \in W!SlotHeldIn /\ m[1] \in W!SlotHeldIn
    BY WatchMoves
  <2>2. m[2] \in Terminal => m[2] \notin W!SlotHeldIn
    BY DEF Terminal, W!SlotHeldIn
  <2>3. says /\ Ended(m[4]) => m[2] \notin W!SlotHeldIn
    BY <2>2, WatchMoves
  <2> QED
    BY <1>1, <1>6, <2>1, <2>3
<1>8. WatchTypes'
  BY <1>1, <1>2, <1>3, <1>4, <1>6 DEF WatchTypes, WatchSame
<1>9. NotYet'
  BY <1>3 DEF NotYet, WatchInv, WatchSame
<1>10. SlotInv'
  <2>1. \A t \in W!Session : w_phase'[t] \in W!SlotHeldIn <=> w_slot' = t
    BY <1>1, <1>4, <1>6, WatchMoves
  <2>2. w_up
    BY <1>5 DEF WatchInv, SlotInv
  <2> QED
    BY <1>1, <2>1, <2>2 DEF SlotInv
<1>11. Sent \in Seq(Notice)
  BY <1>2 DEF WatchTypes, W!Kind, Sent
<1> HIDE DEF says
<1>12. CASE w_pc = "attach"
  <2>1. Len(Sent') = 0
    BY <1>3, <1>12 DEF WatchInv, NotYet
  <2>2. SlotShown' /\ EndComes'
    BY <1>12 DEF WatchInv, NotYet, SlotShown, EndComes, WatchSame, Active
  <2> QED
    BY <1>8, <1>9, <1>10, <2>1, <2>2 DEF WatchInv
<1>13. CASE w_pc # "attach" /\ ~says
  <2>1. Sent' = Sent
    BY <1>3, <1>13
  <2>2. \A i \in 1 .. Len(Sent') : SignalInv(i)'
    BY <1>1, <1>4, <1>5, <1>6, <1>13, <2>1 DEF WatchInv, SignalInv, Over
  <2>3. DeathPending' <=> DeathPending
    BY <1>3 DEF DeathPending
  <2>4. \A t \in W!Session : W!InFlight(t)' <=> W!InFlight(t)
    BY <1>5, <1>13
  <2>5. SlotShown => SlotShown'
    BY <1>6, <2>1, <2>3, <2>4 DEF SlotShown, WatchSame, Over
  <2>6. EndComes => EndComes'
    BY <2>1, <2>3, <2>4, <1>2 DEF WatchTypes, EndComes, WatchSame, Over
  <2> QED
    BY <1>8, <1>9, <1>10, <2>2, <2>5, <2>6 DEF WatchInv, WatchSame
<1>14. CASE w_pc # "attach" /\ says
  <2>1. /\ n \in Nat /\ Len(Sent') = n + 1 /\ Sent'[n + 1] = e
        /\ \A i \in 1 .. n : i \in 1 .. n + 1 /\ Sent'[i] = Sent[i]
        /\ \A i \in 1 .. n + 1 : i \in 1 .. n \/ i = n + 1
        /\ \A i \in 1 .. n : \A k \in i + 1 .. n : k \in i + 1 .. n + 1 /\ k \in 1 .. n
        /\ \A i \in 1 .. n : /\ n + 1 \in i + 1 .. n + 1
                             /\ \A k \in i + 1 .. n + 1 : k \in i + 1 .. n \/ k = n + 1
        /\ n + 1 + 1 .. n + 1 = {} /\ n + 1 \in 1 .. n + 1
    BY <1>0, <1>3, <1>11, <1>14, Grows
  <2>2. /\ e.session = s /\ e.value = m[4] /\ e.life = w_crashes
        /\ Over(e) <=> Ended(m[4])
        /\ m[4] \in Active \union {"idle", "failed"}
    BY <1>14, WatchMoves DEF Said, Over, Ended, says, Active
  <2>3. w_crashes \in Nat /\ w_crashes' = w_crashes
    BY <1>1, <1>2 DEF WatchTypes
  <2> HIDE DEF e
  <2>4. SignalInv(n + 1)'
    <3>1. e.life <= w_crashes'
      BY <2>2, <2>3
    <3>2. w_phase'[s] # "none"
      BY <1>4, <1>5
    <3> QED
      BY <1>5, <1>7, <1>14, <2>1, <2>2, <2>3, <3>1, <3>2 DEF SignalInv, Over
  <2>5. ASSUME NEW i \in 1 .. n PROVE SignalInv(i)'
    <3>1. SignalInv(i) /\ Sent'[i] = Sent[i]
      BY <1>0, <2>1, <2>5 DEF WatchInv
    <3>2. \A k \in i + 1 .. n : Sent'[k] = Sent[k] /\ k \in i + 1 .. n + 1
      BY <2>1, <2>5
    <3>3. n + 1 \in i + 1 .. n + 1 /\ \A k \in i + 1 .. n + 1 : k \in i + 1 .. n \/ k = n + 1
      BY <2>1, <2>5
    <3>0. PICK x : x = Sent[i]
      OBVIOUS
    <3>5. x.session \in W!Session /\ w_phase'[x.session] # "none"
      BY <1>4, <1>5, <3>0, <3>1 DEF SignalInv
    <3>6. W!InFlight(x.session)' => W!InFlight(x.session)
      BY <1>5, <3>5
    <3>7. W!InFlight(x.session) => W!InFlight(x.session)' \/ (x.session = s /\ Over(e))
      BY <1>5, <2>2, <3>5
    <3>8. ~Over(x) /\ x.life = w_crashes =>
             \/ W!InFlight(x.session)'
             \/ \E k \in i + 1 .. n + 1 : Sent'[k].session = x.session /\ Over(Sent'[k])
      <4>1. CASE W!InFlight(x.session)
        BY <2>1, <2>2, <3>3, <3>7, <4>1
      <4>2. ASSUME ~Over(x), NEW k \in i + 1 .. n, Sent[k].session = x.session, Over(Sent[k])
            PROVE  \E kk \in i + 1 .. n + 1 : Sent'[kk].session = x.session /\ Over(Sent'[kk])
        BY <3>2, <4>2
      <4> QED
        BY <1>0, <3>0, <3>1, <4>1, <4>2 DEF SignalInv
    <3>9. x.session = w_slot' =>
             /\ ~Over(x)
             /\ \A k \in i + 1 .. n + 1 : Sent'[k].session = w_slot' \/ Over(Sent'[k])
      <4> SUFFICES ASSUME x.session = w_slot' PROVE
             /\ ~Over(x)
             /\ \A k \in i + 1 .. n + 1 : Sent'[k].session = w_slot' \/ Over(Sent'[k])
        OBVIOUS
      <4>1. w_slot' = w_slot /\ x.session = w_slot
        BY <1>6, <3>5
      <4>2. e.session = w_slot' \/ Over(e)
        BY <1>7, <1>14, <2>2
      <4> QED
        BY <1>0, <2>1, <3>0, <3>1, <3>2, <3>3, <4>1, <4>2 DEF SignalInv
    <3> QED
      BY <2>1, <2>3, <3>0, <3>1, <3>5, <3>6, <3>8, <3>9 DEF SignalInv, Over
  <2>6. \A i \in 1 .. Len(Sent') : SignalInv(i)'
    BY <2>1, <2>4, <2>5
  <2>7. DeathPending' <=> DeathPending
    BY <1>3 DEF DeathPending
  <2>8. \A x : Over(x)' <=> Over(x)
    BY DEF Over
  <2>9. SlotShown => SlotShown'
    <3> SUFFICES ASSUME SlotShown, w_slot' # W!None PROVE SlotShown'
      BY DEF SlotShown
    <3>1. w_slot' = w_slot
      BY <1>6
    <3>2. CASE \E i \in 1 .. Len(Sent) : Sent[i].session = w_slot
      BY <1>0, <2>1, <3>1, <3>2 DEF SlotShown
    <3>3. CASE s = w_slot
      BY <2>1, <2>2, <3>1, <3>3 DEF SlotShown
    <3>4. CASE /\ ~DeathPending /\ current_session = w_slot /\ recorder_state \in Active
               /\ \A i \in 1 .. Len(Sent) : Over(Sent[i])
               /\ s # w_slot
      <4>1. Over(e)
        BY <1>7, <1>14, <2>2, <3>4
      <4>2. \A i \in 1 .. Len(Sent') : Over(Sent'[i])
        BY <1>0, <2>1, <3>4, <4>1
      <4> QED
        BY <2>7, <3>1, <3>4, <4>2 DEF SlotShown, WatchSame, Over
    <3>5. CASE \A t \in W!Session : t # w_slot => ~W!InFlight(t)
      BY <1>5, <3>3, <3>5
    <3> QED
      BY <1>14, <3>1, <3>2, <3>3, <3>4, <3>5 DEF SlotShown
  <2>10. EndComes => EndComes'
    <3> SUFFICES ASSUME EndComes, ~DeathPending PROVE EndComes'
      BY <2>7 DEF EndComes
    <3>1. \A t \in W!Session : W!InFlight(t) => W!InFlight(t)' \/ (t = s /\ Over(e))
      BY <1>5, <2>2
    <3>2. current_session' = current_session /\ recorder_state' = recorder_state
      BY DEF WatchSame
    <3>3. current_session # W!None => current_session \in W!Session
      BY <1>2 DEF WatchTypes
    <3>4. n + 1 \in 1 .. Len(Sent') /\ Sent'[n + 1] = e
      BY <2>1
    <3>5. \A i \in 1 .. Len(Sent) : i \in 1 .. Len(Sent') /\ Sent'[i] = Sent[i]
      BY <1>0, <2>1
    <3> QED
      BY <2>2, <2>8, <3>1, <3>2, <3>3, <3>4, <3>5 DEF EndComes
  <2> QED
    BY <1>8, <1>9, <1>10, <2>6, <2>9, <2>10 DEF WatchInv, WatchSame
<1> QED
  BY <1>12, <1>13, <1>14

(* The daemon dies: nothing runs any more, and the news is on its way.     *)
LEMMA WatchCrash ==
    ASSUME WatchInv, W!Crash, WatchSame
    PROVE  WatchInv'
<1>0. PICK n : n = Len(News)
  OBVIOUS
<1> DEFINE e == [session |-> W!None, value |-> "gone", life |-> w_crashes]
<1>1. /\ w_up' = FALSE /\ w_crashes' = w_crashes + 1 /\ w_slot' = W!None
      /\ UNCHANGED w_listening /\ W!Send("owner", W!None, "gone")
      /\ w_phase' = [s \in W!Session |->
                       IF w_phase[s] = "starting" THEN "cut"
                       ELSE IF W!InFlight(s) THEN "lost" ELSE w_phase[s]]
  BY DEF W!Crash
<1>2. WatchTypes /\ w_phase \in [W!Session -> Phase] /\ w_crashes \in Nat
      /\ w_queue \in [W!Kind -> Seq(Notice)]
  BY DEF WatchInv, WatchTypes
<1>3. /\ w_phase' \in [W!Session -> Phase]
      /\ \A t \in W!Session : /\ ~W!InFlight(t)'
                              /\ w_phase[t] # "none" => w_phase'[t] # "none"
                              /\ w_phase'[t] \notin W!SlotHeldIn
  BY <1>1, <1>2 DEF W!InFlight, Phase, Terminal, W!SlotHeldIn
<1>4. e \in Notice /\ "state" \in W!Kind /\ "owner" \in W!Kind
  BY <1>2 DEF Notice, W!Kind
<1>5. w_queue' = IF w_pc = "attach" THEN w_queue
                 ELSE [w_queue EXCEPT !["owner"] = Append(w_queue["owner"], e)]
  BY <1>1, <1>2 DEF W!Send, WatchTypes
<1>6. News \in Seq(Notice) /\ Append(News, e) \in Seq(Notice)
  BY <1>2, <1>4 DEF News
<1>7. /\ w_queue' \in [W!Kind -> Seq(Notice)] /\ Sent' = Sent
      /\ News' = IF w_pc = "attach" THEN News ELSE Append(News, e)
  BY <1>2, <1>4, <1>5, <1>6 DEF News, Sent
<1>8. WatchTypes'
  <2>1. w_crashes' = w_crashes + 1 /\ w_crashes \in Nat
    BY <1>1, <1>2
  <2>2. w_crashes' \in Nat
    BY <2>1
  <2>3. w_up' = FALSE
    BY <1>1
  <2> QED
    BY <1>1, <1>2, <1>3, <1>7, <2>2, <2>3 DEF WatchTypes, WatchSame
<1>9. NotYet'
  BY <1>7 DEF NotYet, WatchInv, WatchSame
<1>10. SlotInv'
  <2>1. \A t \in W!Session : t # W!None
    BY Bounds DEF W!Session, W!None
  <2> QED
    BY <1>1, <1>3, <2>1 DEF SlotInv
<1>11. \A i \in 1 .. Len(Sent') : SignalInv(i)'
  <2> SUFFICES ASSUME NEW i \in 1 .. Len(Sent) PROVE SignalInv(i)'
    BY <1>7
  <2>1. SignalInv(i) /\ Sent'[i] = Sent[i]
    BY <1>7 DEF WatchInv
  <2>2. PICK x : x = Sent[i]
    OBVIOUS
  <2>3. /\ x.session \in W!Session /\ w_phase'[x.session] # "none"
        /\ ~W!InFlight(x.session)' /\ x.session # w_slot'
    BY <1>1, <1>3, <2>1, <2>2, Bounds DEF SignalInv, W!Session, W!None
  <2>4. x.life <= w_crashes' /\ x.life # w_crashes'
    <3>1. Sent \in Seq(Notice)
      BY <1>2, <1>4 DEF Sent
    <3>2. x.life \in Nat
      <4>1. x \in Notice
        BY <2>2, <3>1
      <4> QED
        BY <4>1 DEF Notice
    <3>3. x.life <= w_crashes
      BY <2>1, <2>2 DEF SignalInv
    <3> QED
      BY <1>1, <1>2, <3>2, <3>3
  <2> QED
    BY <2>1, <2>2, <2>3, <2>4 DEF SignalInv
<1>12. SlotShown' /\ EndComes'
  <2>1. SlotShown'
    BY <1>1 DEF SlotShown
  <2>2. CASE w_pc = "attach"
    BY <2>1, <2>2 DEF WatchInv, NotYet, EndComes, WatchSame, Active
  <2>3. CASE w_pc # "attach"
    <3>1. Len(News') = n + 1 /\ News'[n + 1] = e /\ n + 1 \in 1 .. n + 1
      BY <1>0, <1>4, <1>6, <1>7, <2>3, Grows
    <3>2. DeathPending'
      BY <3>1 DEF DeathPending
    <3> QED
      BY <2>1, <3>2 DEF EndComes
  <2> QED
    BY <2>2, <2>3
<1> QED
  BY <1>8, <1>9, <1>10, <1>11, <1>12 DEF WatchInv

(* Steps that touch neither the sessions nor the signals under way.        *)
LEMMA SignalsSame ==
    ASSUME WatchInv, Sent' = Sent, UNCHANGED <<w_phase, w_slot, w_crashes>>
    PROVE  \A i \in 1 .. Len(Sent') : SignalInv(i)'
<1>1. \A t : W!InFlight(t)' <=> W!InFlight(t)
  BY DEF W!InFlight
<1> QED
  BY <1>1 DEF WatchInv, SignalInv, Over

LEMMA WatchAppear ==
    ASSUME WatchInv, W!Appear, WatchSame
    PROVE  WatchInv'
<1>0. PICK n : n = Len(News)
  OBVIOUS
<1> DEFINE e == [session |-> W!None, value |-> "here", life |-> w_crashes]
<1>1. /\ ~w_up /\ w_up' = TRUE /\ W!Send("owner", W!None, "here")
      /\ UNCHANGED <<w_phase, w_slot, w_listening, w_crashes>>
  BY DEF W!Appear
<1>2. WatchTypes /\ w_crashes \in Nat /\ w_queue \in [W!Kind -> Seq(Notice)]
  BY DEF WatchInv, WatchTypes
<1>3. e \in Notice /\ "state" \in W!Kind /\ "owner" \in W!Kind
  BY <1>2 DEF Notice, W!Kind
<1>4. w_queue' = IF w_pc = "attach" THEN w_queue
                 ELSE [w_queue EXCEPT !["owner"] = Append(w_queue["owner"], e)]
  BY <1>1, <1>2 DEF W!Send, WatchTypes
<1>5. News \in Seq(Notice) /\ Append(News, e) \in Seq(Notice)
  BY <1>2, <1>3 DEF News
<1>6. /\ w_queue' \in [W!Kind -> Seq(Notice)] /\ Sent' = Sent
      /\ News' = IF w_pc = "attach" THEN News ELSE Append(News, e)
  BY <1>2, <1>3, <1>4, <1>5 DEF News, Sent
<1>7. DeathPending' <=> DeathPending
  <2>1. CASE w_pc = "attach"
    BY <1>6, <2>1 DEF DeathPending
  <2>2. CASE w_pc # "attach"
    <3>1. /\ n \in Nat /\ Len(News') = n + 1 /\ News'[n + 1] = e
          /\ \A i \in 1 .. n : i \in 1 .. n + 1 /\ News'[i] = News[i]
          /\ \A i \in 1 .. n + 1 : i \in 1 .. n \/ i = n + 1
      BY <1>0, <1>3, <1>5, <1>6, <2>2, Grows
    <3> QED
      BY <1>0, <3>1 DEF DeathPending
  <2> QED
    BY <2>1, <2>2
<1>8. WatchTypes'
  BY <1>1, <1>2, <1>6 DEF WatchTypes, WatchSame
<1>9. NotYet'
  BY <1>6 DEF NotYet, WatchInv, WatchSame
<1>10. \A t : W!InFlight(t)' <=> W!InFlight(t)
  BY <1>1 DEF W!InFlight
<1>11. SlotInv'
  BY <1>1 DEF WatchInv, SlotInv
<1>12. (SlotShown => SlotShown') /\ (EndComes => EndComes')
  BY <1>1, <1>6, <1>7, <1>10 DEF SlotShown, EndComes, WatchSame, Over
<1> QED
  BY <1>1, <1>6, <1>8, <1>9, <1>11, <1>12, SignalsSame DEF WatchInv, WatchSame

(* The watch subscribes.                                                   *)
LEMMA WatchSubscribe ==
    ASSUME WatchInv, W!Subscribe
    PROVE  WatchInv'
<1>1. /\ w_pc = "attach" /\ w_pc' = "snapshot" /\ w_listening' = {"state", "owner"}
      /\ blind' = (W!Finishing # {})
      /\ UNCHANGED <<w_up, w_phase, w_slot, w_queue, w_crashes, recorder_state,
                     current_session, stale, last_line, failures, due, faults>>
  BY DEF W!Subscribe
<1>2. Sent' = Sent /\ Sent = << >> /\ recorder_state = "idle" /\ current_session = W!None
  BY <1>1 DEF Sent, WatchInv, NotYet
<1>3. WatchTypes'
  <2>1. blind' \in BOOLEAN
    BY <1>1
  <2> QED
    BY <1>1, <2>1 DEF WatchInv, WatchTypes
<1>4. NotYet' /\ SlotInv'
  BY <1>1, <1>2 DEF WatchInv, NotYet, SlotInv, W!InFlight
<1>5. \A t : W!InFlight(t)' <=> W!InFlight(t)
  BY <1>1 DEF W!InFlight
<1>6. EndComes'
  BY <1>1, <1>2 DEF EndComes, Active
<1>7. ~blind' => SlotShown'
  <2> SUFFICES ASSUME ~blind', w_slot # W!None PROVE SlotShown'
    BY <1>1 DEF SlotShown
  <2>1. \A t \in W!Session : t # w_slot => ~W!InFlight(t)
    BY <1>1 DEF W!Finishing
  <2>2. ~DeathPending'
    <3>1. News = << >> /\ News' = News
      BY <1>1 DEF WatchInv, NotYet, News
    <3>2. Len(News') = 0
      BY <3>1
    <3> QED
      BY <3>2 DEF DeathPending
  <2> QED
    BY <1>1, <1>2, <1>5, <2>1, <2>2 DEF SlotShown
<1> QED
  BY <1>1, <1>2, <1>3, <1>4, <1>6, <1>7, SignalsSame DEF WatchInv

(* The first snapshot; and what emit_if_changed prints.                    *)
LEMMA EmitIs ==
    ASSUME WatchTypes, W!Emit, recorder_state' \in Active \union {"idle", "failed"}
    PROVE  /\ last_line' = recorder_state'
           /\ last_line' \in Active \union {"", "idle", "failed"}
           /\ failures' \in Nat /\ failures' >= failures
           /\ recorder_state' = "failed" => failures' = failures + 1
<1>1. failures \in Nat
  BY DEF WatchTypes
<1>2. /\ last_line' = recorder_state'
      /\ failures' = failures + IF recorder_state' = "failed" THEN 1 ELSE 0
  BY DEF W!Emit, W!is_discrete_state
<1>3. last_line' \in Active \union {"", "idle", "failed"}
  BY <1>2
<1>4. failures' = failures \/ failures' = failures + 1
  BY <1>1, <1>2
<1>5. failures' \in Nat /\ failures' >= failures
  BY <1>1, <1>4
<1>6. recorder_state' = "failed" => failures' = failures + 1
  BY <1>2
<1> QED
  BY <1>2, <1>3, <1>5, <1>6

LEMMA FaultsCount ==
    ASSUME WatchTypes, faults' = faults \/ (faults < Faults /\ faults' = faults + 1)
    PROVE  faults' \in 0 .. Faults
<1>1. faults \in 0 .. Faults /\ Faults \in Nat
  BY Bounds DEF WatchTypes
<1> QED
  BY <1>1

(* A step that leaves the queues alone and only adopts what the daemon     *)
(* says, or forgets a daemon that is gone.                                 *)
Adopts == recorder_state' = W!GetStatus /\ stale' = FALSE /\ current_session' = current_session
Forgets == W!daemon_gone
Stays == UNCHANGED <<recorder_state, current_session>>

DaemonSame == UNCHANGED <<w_up, w_phase, w_slot, w_listening, w_crashes>>

LEMMA ShownBy ==
    ASSUME WatchInv, DaemonSame, Sent' = Sent, DeathPending' => DeathPending, blind' = blind,
           w_pc # "attach", w_pc' = "loop",
           \/ Adopts /\ w_up /\ (DeathPending => DeathPending')
           \/ Forgets /\ (~w_up \/ DeathPending)
           \/ Stays /\ (stale' \/ (w_pc = "loop" /\ stale' = stale) \/ ~w_up)
                    /\ (DeathPending => DeathPending')
    PROVE  blind \/ (SlotShown' /\ EndComes')
<1> SUFFICES ASSUME ~blind PROVE SlotShown' /\ EndComes'
  OBVIOUS
<1>0. SlotShown /\ EndComes /\ WatchTypes /\ SlotInv /\ NotYet
  BY DEF WatchInv
<1>1. \A t : W!InFlight(t)' <=> W!InFlight(t)
  BY DEF W!InFlight, DaemonSame
<1>2. /\ \A t \in W!Session : t # W!None
      /\ w_slot \in W!Session \union {W!None}
      /\ w_slot # W!None => W!InFlight(w_slot) /\ w_up
  <2>1. \A t \in W!Session : t # W!None
    BY Bounds DEF W!Session, W!None
  <2>2. w_slot \in W!Session \union {W!None}
    BY <1>0 DEF WatchTypes
  <2>3. w_slot \in W!Session => w_phase[w_slot] \in W!SlotHeldIn
    BY <1>0 DEF SlotInv
  <2>4. w_slot \in W!Session => W!InFlight(w_slot)
    BY <2>3 DEF W!InFlight, W!SlotHeldIn
  <2> QED
    BY <1>0, <2>1, <2>2, <2>4 DEF SlotInv
<1>3. CASE Adopts /\ w_up /\ (DeathPending => DeathPending')
  <2>1. recorder_state' = IF w_slot = W!None THEN "idle" ELSE "recording"
    BY <1>3 DEF Adopts, W!GetStatus
  <2>2. SlotShown'
    BY <1>0, <1>1, <1>3, <2>1 DEF SlotShown, Adopts, DaemonSame, Active, Over
  <2>3. EndComes'
    BY <1>0, <1>1, <1>2, <1>3, <2>1 DEF EndComes, Adopts, DaemonSame, Active, Over
  <2> QED
    BY <2>2, <2>3
<1>4. CASE Forgets /\ (~w_up \/ DeathPending)
  <2>1. recorder_state' = "idle" /\ current_session' = W!None
    BY <1>4 DEF Forgets, W!daemon_gone
  <2>2. SlotShown'
    <3> SUFFICES ASSUME w_slot # W!None PROVE SlotShown'
      BY DEF SlotShown, DaemonSame
    <3>1. \E i \in 1 .. Len(Sent) : Sent[i].session = w_slot
      BY <1>0, <1>2, <1>4 DEF SlotShown
    <3> QED
      BY <3>1 DEF SlotShown, DaemonSame
  <2>3. EndComes'
    BY <2>1 DEF EndComes, Active
  <2> QED
    BY <2>2, <2>3
<1>5. CASE Stays /\ (stale' \/ (w_pc = "loop" /\ stale' = stale) \/ ~w_up)
                 /\ (DeathPending => DeathPending')
  <2>1. SlotShown'
    BY <1>0, <1>1, <1>2, <1>5 DEF SlotShown, Stays, DaemonSame, Over
  <2>2. EndComes'
    BY <1>0, <1>1, <1>5 DEF EndComes, Stays, DaemonSame, Over
  <2> QED
    BY <2>1, <2>2
<1> QED
  BY <1>3, <1>4, <1>5

LEMMA GetStatusIs == W!GetStatus \in Active \union {"idle"}
BY DEF W!GetStatus, Active

(* The rest of the invariant, after such a step.                           *)
LEMMA RestBy ==
    ASSUME WatchInv, DaemonSame, Sent' = Sent, w_queue' \in [W!Kind -> Seq(Notice)],
           w_pc # "attach", w_pc' = "loop", blind' = blind, due' = due, stale' \in BOOLEAN,
           recorder_state' \in Active \union {"idle", "failed"},
           current_session' \in {current_session, W!None}, W!Emit,
           faults' = faults \/ (faults < Faults /\ faults' = faults + 1)
    PROVE  /\ WatchTypes' /\ NotYet' /\ SlotInv'
           /\ \A i \in 1 .. Len(Sent') : SignalInv(i)'
<1>1. WatchTypes
  BY DEF WatchInv
<1>2. /\ last_line' = recorder_state' /\ last_line' \in Active \union {"", "idle", "failed"}
      /\ failures' \in Nat /\ failures' >= due'
  <2>1. failures \in Nat /\ due \in Nat /\ failures >= due
    BY <1>1 DEF WatchTypes
  <2>2. /\ last_line' = recorder_state' /\ last_line' \in Active \union {"", "idle", "failed"}
        /\ failures' \in Nat /\ failures' >= failures
    BY <1>1, EmitIs
  <2>3. failures' \in Nat /\ failures' >= failures
    BY <2>2
  <2>4. failures' >= due
    BY <2>1, <2>3
  <2> QED
    BY <2>2, <2>4
<1>3. faults' \in 0 .. Faults
  BY <1>1, FaultsCount
<1>4. WatchTypes'
  BY <1>1, <1>2, <1>3 DEF WatchTypes, DaemonSame
<1>5. NotYet'
  BY DEF NotYet
<1>6. SlotInv'
  BY DEF WatchInv, SlotInv, DaemonSame, W!InFlight
<1> QED
  BY <1>4, <1>5, <1>6, SignalsSame DEF DaemonSame

LEMMA WatchSnapshot ==
    ASSUME WatchInv, W!Snapshot \/ W!Tick
    PROVE  WatchInv'
<1>1. /\ w_pc # "attach" /\ w_pc' = "loop" /\ UNCHANGED W!daemonVars /\ W!Emit
      /\ blind' = blind /\ due' = due
      /\ \/ Adopts /\ w_up /\ faults' = faults
         \/ Forgets /\ ~w_up /\ faults' = faults
         \/ /\ Stays /\ (stale' = TRUE \/ (w_pc = "loop" /\ stale' = stale)
                         \/ (~w_up /\ stale' = stale))
            /\ faults' = faults \/ (faults < Faults /\ faults' = faults + 1)
  <2>1. CASE W!Snapshot
    BY <2>1 DEF W!Snapshot, W!Resync, W!adopt, Adopts, Stays
  <2>2. CASE W!Tick
    BY <2>2 DEF W!Tick, W!Resync, W!adopt, W!daemon_gone, Adopts, Forgets, Stays
  <2> QED
    BY <2>1, <2>2
<1>2. /\ DaemonSame /\ Sent' = Sent /\ News' = News /\ w_queue' = w_queue
      /\ w_queue' \in [W!Kind -> Seq(Notice)]
  BY <1>1 DEF W!daemonVars, DaemonSame, Sent, News, WatchInv, WatchTypes
<1>3. DeathPending' <=> DeathPending
  BY <1>2 DEF DeathPending
<1>4. /\ recorder_state' \in Active \union {"idle", "failed"}
      /\ current_session' \in {current_session, W!None} /\ stale' \in BOOLEAN
  BY <1>1, GetStatusIs DEF Adopts, Forgets, Stays, W!daemon_gone, WatchInv, WatchTypes
<1>5. blind \/ (SlotShown' /\ EndComes')
  BY <1>1, <1>2, <1>3, ShownBy
<1>6. /\ WatchTypes' /\ NotYet' /\ SlotInv'
      /\ \A i \in 1 .. Len(Sent') : SignalInv(i)'
  BY <1>1, <1>2, <1>4, RestBy
<1> QED
  BY <1>1, <1>5, <1>6 DEF WatchInv

LEMMA WatchOwnerSignal ==
    ASSUME WatchInv, W!OwnerSignal
    PROVE  WatchInv'
<1> DEFINE gone == Head(News).value = "gone"
<1>0. /\ News # << >> /\ News \in Seq(Notice)
      /\ w_queue \in [W!Kind -> Seq(Notice)] /\ "owner" \in W!Kind /\ "state" \in W!Kind
  BY DEF W!OwnerSignal, News, WatchInv, WatchTypes, W!Kind
<1>1. /\ w_pc = "loop" /\ w_pc' = "loop" /\ DaemonSame /\ W!Emit
      /\ blind' = blind /\ due' = due
      /\ w_queue' = [w_queue EXCEPT !["owner"] = Tail(News)]
  BY DEF W!OwnerSignal, W!TakeFrom, DaemonSame, News
<1>2. IF gone THEN Forgets /\ faults' = faults
      ELSE \/ Adopts /\ w_up /\ faults' = faults
           \/ /\ Stays /\ stale' = TRUE
              /\ faults' = faults \/ (faults < Faults /\ faults' = faults + 1)
  BY DEF W!OwnerSignal, W!Resync, W!adopt, W!daemon_gone, Adopts, Forgets, Stays, News
<1>3. /\ Tail(News) \in Seq(Notice) /\ News' = Tail(News) /\ Sent' = Sent
      /\ w_queue' \in [W!Kind -> Seq(Notice)]
  <2>1. Tail(News) \in Seq(Notice)
    BY <1>0, Shrinks
  <2> QED
    BY <1>0, <1>1, <2>1 DEF News, Sent
<1>4. /\ DeathPending' => DeathPending
      /\ gone => DeathPending
      /\ ~gone /\ DeathPending => DeathPending'
  <2>0. PICK n : n = Len(News)
    OBVIOUS
  <2>1. /\ Head(News) = News[1] /\ 1 \in 1 .. n /\ Len(News') = n - 1
        /\ \A i \in 1 .. n - 1 : News'[i] = News[i + 1] /\ i + 1 \in 1 .. n
        /\ \A k \in 1 .. n : k = 1 \/ (k - 1 \in 1 .. n - 1 /\ News'[k - 1] = News[k])
    BY <1>0, <1>3, <2>0, Shrinks
  <2>2. DeathPending' <=> \E i \in 1 .. n - 1 : News'[i].value = "gone"
    BY <2>1 DEF DeathPending
  <2>3. DeathPending <=> \E i \in 1 .. n : News[i].value = "gone"
    BY <2>0 DEF DeathPending
  <2> QED
    BY <2>1, <2>2, <2>3
<1> HIDE DEF gone
<1>5. /\ recorder_state' \in Active \union {"idle", "failed"}
      /\ current_session' \in {current_session, W!None} /\ stale' \in BOOLEAN
  BY <1>2, GetStatusIs DEF Adopts, Forgets, Stays, W!daemon_gone, WatchInv, WatchTypes
<1>6. blind \/ (SlotShown' /\ EndComes')
  BY <1>1, <1>2, <1>3, <1>4, ShownBy
<1>7. /\ WatchTypes' /\ NotYet' /\ SlotInv'
      /\ \A i \in 1 .. Len(Sent') : SignalInv(i)'
  BY <1>1, <1>2, <1>3, <1>5, RestBy
<1> QED
  BY <1>1, <1>6, <1>7 DEF WatchInv

LEMMA WatchCounts == \A s : W!Cardinality(s) = Cardinality(s)
  BY Zenon DEF W!Cardinality, Cardinality

(* Without a death to hear of the watch knows the daemon that runs; with   *)
(* one, it still believes in an earlier daemon.                            *)
LEMMA DeathsAre ==
    ASSUME WatchTypes
    PROVE  /\ ~DeathPending => w_crashes - W!Cardinality(W!DeathNews) = w_crashes
           /\ DeathPending => w_crashes - W!Cardinality(W!DeathNews) # w_crashes
<1>1. w_crashes \in Nat /\ News \in Seq(Notice)
  BY DEF WatchTypes, News, W!Kind
<1>2. W!DeathNews = {i \in 1 .. Len(News) : News[i].value = "gone"}
  BY <1>1 DEF W!DeathNews, News
<1>3. IsFiniteSet(W!DeathNews)
  <2>1. IsFiniteSet(1 .. Len(News))
    BY <1>1, FS_Interval
  <2> QED
    BY <1>2, <2>1, FS_Subset
<1>4. DeathPending <=> W!DeathNews # {}
  BY <1>2 DEF DeathPending
<1>5. Cardinality(W!DeathNews) \in Nat /\ (Cardinality(W!DeathNews) = 0 <=> ~DeathPending)
  BY <1>3, <1>4, FS_CardinalityType, FS_EmptySet
<1>6. W!Cardinality(W!DeathNews) = Cardinality(W!DeathNews)
  BY WatchCounts
<1>7. \A d \in Nat : (d = 0 => w_crashes - d = w_crashes) /\ (d # 0 => w_crashes - d # w_crashes)
  BY <1>1
<1> QED
  BY <1>5, <1>6, <1>7

LEMMA WatchStateSignal ==
    ASSUME WatchInv, W!StateSignal
    PROVE  WatchInv'
<1>0. PICK n : n = Len(Sent)
  OBVIOUS
<1>1. PICK e : e = Head(Sent)
  OBVIOUS
<1>2. /\ Sent # << >> /\ Sent \in Seq(Notice) /\ WatchTypes
      /\ w_queue \in [W!Kind -> Seq(Notice)] /\ "owner" \in W!Kind /\ "state" \in W!Kind
  BY DEF W!StateSignal, Sent, WatchInv, WatchTypes, W!Kind
<1>3. /\ w_pc = "loop" /\ w_pc' = "loop"
      /\ UNCHANGED <<w_up, w_phase, w_slot, w_listening, w_crashes>>
      /\ w_queue' = [w_queue EXCEPT !["state"] = Tail(Sent)]
      /\ blind' = (blind \/ e.life # w_crashes - W!Cardinality(W!DeathNews))
  BY <1>1 DEF W!StateSignal, W!TakeFrom, Sent
<1>4. IF Over(e) /\ current_session \notin {W!None, e.session}
      THEN UNCHANGED <<recorder_state, current_session, stale, faults, last_line,
                       failures, due>>
      ELSE /\ recorder_state' = e.value
           /\ current_session' = IF Over(e) THEN W!None ELSE e.session
           /\ due' = due + IF e.value = "failed" THEN 1 ELSE 0
           /\ faults' = faults \/ (faults < Faults /\ faults' = faults + 1)
           /\ stale' = stale \/ stale' = TRUE
           /\ W!Emit
  <2>1. W!superseded(e) <=> Over(e) /\ current_session \notin {W!None, e.session}
    BY DEF W!superseded, W!is_terminal_state, Over
  <2>2. W!is_terminal_state(e.value) <=> Over(e)
    BY DEF W!is_terminal_state, Over
  <2> HIDE DEF Over
  <2> QED
    BY <1>1, <2>1, <2>2 DEF W!StateSignal, Sent, W!Resync
<1>5. /\ n \in Nat /\ e = Sent[1] /\ 1 \in 1 .. n /\ Len(Sent') = n - 1
      /\ \A i \in 1 .. n - 1 : Sent'[i] = Sent[i + 1] /\ i + 1 \in 1 .. n
      /\ \A k \in 1 .. n : \/ k = 1
                           \/ k - 1 \in 1 .. n - 1 /\ Sent'[k - 1] = Sent[k] /\ k \in 1 + 1 .. n
      /\ \A i \in 1 .. n - 1 : \A k \in i + 1 .. n - 1 :
            k + 1 \in i + 1 + 1 .. n /\ Sent'[k] = Sent[k + 1]
      /\ \A i \in 1 .. n - 1 : \A k \in i + 1 + 1 .. n :
            k - 1 \in i + 1 .. n - 1 /\ Sent'[k - 1] = Sent[k]
      /\ \A i \in 1 .. n - 1 : i + 1 \in 1 + 1 .. n
      /\ Tail(Sent) \in Seq(Notice) /\ Sent' = Tail(Sent)
  <2>1. Sent' = Tail(Sent)
    BY <1>2, <1>3 DEF Sent
  <2> QED
    BY <1>0, <1>1, <1>2, <2>1, Shrinks
<1>6. News' = News /\ (DeathPending' <=> DeathPending)
  BY <1>2, <1>3 DEF News, DeathPending
<1>7. SignalInv(1) /\ \A i \in 1 .. n - 1 : SignalInv(i + 1)
  BY <1>0, <1>5 DEF WatchInv
<1>8. \A t : W!InFlight(t)' <=> W!InFlight(t)
  BY <1>3 DEF W!InFlight
<1>9. /\ recorder_state' \in Active \union {"idle", "failed"}
      /\ current_session' \in W!Session \union {W!None} /\ stale' \in BOOLEAN
      /\ faults' \in 0 .. Faults /\ last_line' = recorder_state'
      /\ failures' \in Nat /\ due' \in Nat /\ failures' >= due'
  <2>1. CASE Over(e) /\ current_session \notin {W!None, e.session}
    BY <1>2, <1>3, <1>4, <2>1 DEF WatchTypes
  <2>2. CASE ~(Over(e) /\ current_session \notin {W!None, e.session})
    <3>1. recorder_state' = e.value /\ e.value \in Active \union {"idle", "failed"}
      BY <1>4, <1>5, <1>7, <2>2 DEF SignalInv
    <3>2. current_session' \in W!Session \union {W!None}
      BY <1>4, <1>5, <1>7, <2>2 DEF SignalInv
    <3>3. faults' \in 0 .. Faults
      BY <1>2, <1>4, <2>2, FaultsCount
    <3>4. /\ last_line' = recorder_state' /\ failures' \in Nat /\ failures' >= failures
          /\ recorder_state' = "failed" => failures' = failures + 1
      BY <1>2, <1>4, <2>2, <3>1, EmitIs
    <3>5. failures' \in Nat /\ due' \in Nat /\ failures' >= due'
      <4>1. failures \in Nat /\ due \in Nat /\ failures >= due
        BY <1>2 DEF WatchTypes
      <4>2. CASE e.value = "failed"
        <5>1. failures' = failures + 1 /\ due' = due + 1
          BY <1>4, <2>2, <3>1, <3>4, <4>2
        <5> QED
          BY <4>1, <5>1
      <4>3. CASE e.value # "failed"
        <5>1. due' = due + 0
          BY <1>4, <2>2, <4>3
        <5>2. failures' \in Nat /\ failures' >= failures
          BY <3>4
        <5> QED
          BY <4>1, <5>1, <5>2
      <4> QED
        BY <4>2, <4>3
    <3>6. stale' \in BOOLEAN
      BY <1>2, <1>4, <2>2 DEF WatchTypes
    <3> QED
      BY <3>1, <3>2, <3>3, <3>4, <3>5, <3>6
  <2> QED
    BY <2>1, <2>2
<1>10. WatchTypes'
  <2>1. w_queue' \in [W!Kind -> Seq(Notice)]
    BY <1>2, <1>3, <1>5
  <2>2. blind' \in BOOLEAN
    BY <1>2, <1>3 DEF WatchTypes
  <2>3. last_line' \in Active \union {"", "idle", "failed"}
    BY <1>9
  <2> QED
    BY <1>2, <1>3, <1>9, <2>1, <2>2, <2>3 DEF WatchTypes
<1>11. NotYet' /\ SlotInv'
  BY <1>3, <1>8 DEF WatchInv, NotYet, SlotInv
<1>12. ASSUME NEW i \in 1 .. n - 1 PROVE SignalInv(i)'
  <2>1. SignalInv(i + 1) /\ Sent'[i] = Sent[i + 1]
    BY <1>5, <1>7, <1>12
  <2>2. PICK x : x = Sent[i + 1]
    OBVIOUS
  <2>3. \A k \in i + 1 .. n - 1 : k + 1 \in i + 1 + 1 .. n /\ Sent'[k] = Sent[k + 1]
    BY <1>5, <1>12
  <2>4. \A k \in i + 1 + 1 .. n : k - 1 \in i + 1 .. n - 1 /\ Sent'[k - 1] = Sent[k]
    BY <1>5, <1>12
  <2>5. /\ x.session \in W!Session /\ x.value \in Active \union {"idle", "failed"}
        /\ w_phase[x.session] # "none" /\ x.life <= w_crashes
        /\ W!InFlight(x.session) => x.life = w_crashes
        /\ x.session = w_slot => ~Over(x)
    BY <2>1, <2>2 DEF SignalInv
  <2>6. ~Over(x) /\ x.life = w_crashes =>
          \/ W!InFlight(x.session)
          \/ \E k \in i + 1 .. n - 1 : Sent'[k].session = x.session /\ Over(Sent'[k])
    <3>1. ASSUME NEW k \in i + 1 + 1 .. n, Sent[k].session = x.session, Over(Sent[k])
          PROVE  \E kk \in i + 1 .. n - 1 : Sent'[kk].session = x.session /\ Over(Sent'[kk])
      BY <2>4, <3>1
    <3> QED
      BY <1>0, <2>1, <2>2, <3>1 DEF SignalInv
  <2>7. x.session = w_slot =>
          \A k \in i + 1 .. n - 1 : Sent'[k].session = w_slot \/ Over(Sent'[k])
    BY <1>0, <2>1, <2>2, <2>3 DEF SignalInv
  <2> QED
    BY <1>3, <1>5, <1>8, <2>1, <2>2, <2>5, <2>6, <2>7 DEF SignalInv, Over
<1>13. \A i \in 1 .. Len(Sent') : SignalInv(i)'
  BY <1>5, <1>12
<1>14. ASSUME ~blind' PROVE SlotShown' /\ EndComes'
  <2>1. SlotShown /\ EndComes /\ e.life = w_crashes - W!Cardinality(W!DeathNews)
    BY <1>3, <1>14 DEF WatchInv
  <2>2. DeathPending <=> e.life # w_crashes
    BY <1>2, <2>1, DeathsAre
  <2>3. /\ \A k \in 1 .. n : k # 1 =>
              \E i \in 1 .. Len(Sent') : Sent'[i] = Sent[k]
        /\ \A i \in 1 .. Len(Sent') : Sent'[i] = Sent[i + 1] /\ i + 1 \in 1 + 1 .. n
                                      /\ i + 1 \in 1 .. n
    BY <1>5
  <2>4. /\ w_slot \in W!Session \union {W!None}
        /\ w_slot # W!None => w_slot \in W!Session /\ W!InFlight(w_slot)
    <3>1. w_slot \in W!Session \union {W!None}
      BY <1>2 DEF WatchTypes
    <3>2. w_slot \in W!Session => W!InFlight(w_slot)
      BY DEF WatchInv, SlotInv, W!InFlight, W!SlotHeldIn
    <3> QED
      BY <3>1, <3>2
  <2>5. \A t \in W!Session : t # W!None
    BY Bounds DEF W!Session, W!None
  <2>6. e.session \in W!Session /\ (Over(e) \/ e.value \in Active)
    BY <1>5, <1>7 DEF SignalInv, Over
  <2>7. SlotShown'
    <3> SUFFICES ASSUME w_slot # W!None PROVE SlotShown'
      BY <1>3 DEF SlotShown
    <3>1. CASE e.session = w_slot
      <4>1. ~Over(e) /\ \A k \in 1 + 1 .. n : Sent[k].session = w_slot \/ Over(Sent[k])
        BY <1>0, <1>5, <1>7, <3>1 DEF SignalInv
      <4>2. e.life = w_crashes
        BY <1>5, <1>7, <2>4, <3>1 DEF SignalInv
      <4>3. ~DeathPending' /\ current_session' = w_slot /\ recorder_state' \in Active
        BY <1>4, <1>6, <2>2, <2>6, <3>1, <4>1, <4>2
      <4>4. \A i \in 1 .. Len(Sent') : Sent'[i].session = w_slot \/ Over(Sent'[i])
        BY <2>3, <4>1
      <4> QED
        BY <1>3, <4>3, <4>4 DEF SlotShown, Over
    <3>2. CASE e.session # w_slot /\ \E i \in 1 .. Len(Sent) : Sent[i].session = w_slot
      <4>1. PICK k \in 1 .. n : Sent[k].session = w_slot
        BY <1>0, <3>2
      <4>2. k # 1
        BY <1>5, <3>2, <4>1
      <4>3. PICK i \in 1 .. Len(Sent') : Sent'[i] = Sent[k]
        BY <2>3, <4>1, <4>2
      <4> QED
        BY <1>3, <4>1, <4>3 DEF SlotShown
    <3>3. CASE /\ e.session # w_slot
               /\ ~DeathPending /\ current_session = w_slot /\ recorder_state \in Active
               /\ \A i \in 1 .. Len(Sent) : Over(Sent[i])
      <4>1. Over(e) /\ current_session \notin {W!None, e.session}
        BY <1>0, <1>5, <3>3
      <4>2. current_session' = w_slot /\ recorder_state' \in Active
        BY <1>4, <3>3, <4>1
      <4>3. \A i \in 1 .. Len(Sent') : Over(Sent'[i])
        BY <1>0, <2>3, <3>3
      <4> QED
        BY <1>3, <1>6, <3>3, <4>2, <4>3 DEF SlotShown, Over
    <3> QED
      BY <1>2, <1>3, <2>1, <3>1, <3>2, <3>3 DEF SlotShown
  <2>8. EndComes'
    <3> SUFFICES ASSUME ~DeathPending PROVE EndComes'
      BY <1>6 DEF EndComes
    <3>1. e.life = w_crashes
      BY <2>2
    <3>2. CASE ~Over(e)
      <4>1. current_session' = e.session
        BY <1>4, <3>2
      <4>2. \/ W!InFlight(e.session)
            \/ \E k \in 1 + 1 .. n : Sent[k].session = e.session /\ Over(Sent[k])
        BY <1>0, <1>5, <1>7, <3>1, <3>2 DEF SignalInv
      <4>3. ASSUME NEW k \in 1 + 1 .. n, Sent[k].session = e.session, Over(Sent[k])
            PROVE  \E i \in 1 .. Len(Sent') : Sent'[i].session = e.session /\ Over(Sent'[i])
        <5>1. k \in 1 .. n /\ k # 1
          BY <1>5, <4>3
        <5>2. PICK i \in 1 .. Len(Sent') : Sent'[i] = Sent[k]
          BY <2>3, <5>1
        <5> QED
          BY <4>3, <5>2
      <4> QED
        BY <1>8, <2>5, <2>6, <4>1, <4>2, <4>3 DEF EndComes, Over
    <3>3. CASE Over(e) /\ current_session \in {W!None, e.session}
      <4>1. current_session' = W!None /\ recorder_state' \notin Active
        BY <1>4, <3>3 DEF Over, Active
      <4> QED
        BY <4>1 DEF EndComes
    <3>4. CASE Over(e) /\ current_session \notin {W!None, e.session}
      <4>1. current_session' = current_session /\ recorder_state' = recorder_state
        BY <1>4, <3>4
      <4>2. \/ W!InFlight(current_session)
            \/ \E k \in 1 .. n : Sent[k].session = current_session /\ Over(Sent[k])
        BY <1>0, <2>1, <3>4 DEF EndComes
      <4>3. ASSUME NEW k \in 1 .. n, Sent[k].session = current_session, Over(Sent[k])
            PROVE  \E i \in 1 .. Len(Sent') : Sent'[i].session = current_session /\ Over(Sent'[i])
        <5>1. k # 1
          BY <1>5, <3>4, <4>3
        <5>2. PICK i \in 1 .. Len(Sent') : Sent'[i] = Sent[k]
          BY <2>3, <5>1
        <5> QED
          BY <4>3, <5>2
      <4> QED
        BY <1>8, <3>4, <4>1, <4>2, <4>3 DEF EndComes, Over
    <3> QED
      BY <3>2, <3>3, <3>4
  <2> QED
    BY <2>7, <2>8
<1> QED
  BY <1>10, <1>11, <1>13, <1>14 DEF WatchInv

LEMMA WatchStep == WatchInv /\ [W!Next]_(W!vars) => WatchInv'
<1> SUFFICES ASSUME WatchInv, [W!Next]_(W!vars) PROVE WatchInv'
  OBVIOUS
<1>1. CASE W!Watch
  BY <1>1, WatchSubscribe, WatchSnapshot, WatchStateSignal, WatchOwnerSignal DEF W!Watch
<1>2. CASE W!Environment
  <2>1. WatchSame
    BY <1>2 DEF W!Environment, W!watchVars, WatchSame
  <2> QED
    BY <1>2, <2>1, WatchAdmit, WatchAdvance, WatchCrash, WatchAppear
       DEF W!Environment, W!Daemon
<1>3. CASE UNCHANGED W!vars
  <2>1. /\ WatchSame /\ DaemonSame /\ w_queue' = w_queue
    BY <1>3 DEF W!vars, W!daemonVars, W!watchVars, WatchSame, DaemonSame
  <2>2. Sent' = Sent /\ News' = News /\ (DeathPending' <=> DeathPending)
    BY <2>1 DEF Sent, News, DeathPending
  <2>3. \A t : W!InFlight(t)' <=> W!InFlight(t)
    BY <2>1 DEF W!InFlight, DaemonSame
  <2>4. WatchTypes' /\ NotYet' /\ SlotInv'
    BY <2>1, <2>2, <2>3 DEF WatchInv, WatchTypes, NotYet, SlotInv, WatchSame, DaemonSame
  <2>5. \A i \in 1 .. Len(Sent') : SignalInv(i)'
    BY <2>1, <2>2, SignalsSame DEF DaemonSame
  <2>6. (SlotShown => SlotShown') /\ (EndComes => EndComes')
    BY <2>1, <2>2, <2>3 DEF SlotShown, EndComes, WatchSame, DaemonSame, Over
  <2> QED
    BY <2>1, <2>4, <2>5, <2>6 DEF WatchInv, WatchSame
<1> QED
  BY <1>1, <1>2, <1>3 DEF W!Next

LEMMA WatchInit == W!Init => WatchInv
<1> SUFFICES ASSUME W!Init PROVE WatchInv
  OBVIOUS
<1>1. << >> \in Seq(Notice) /\ Len(<< >>) = 0
  OBVIOUS
<1>2. /\ w_pc = "attach" /\ recorder_state = "idle" /\ current_session = W!None
      /\ stale = FALSE /\ last_line = "" /\ failures = 0 /\ due = 0 /\ faults = 0
      /\ blind = FALSE /\ w_up \in BOOLEAN /\ w_slot = W!None /\ w_crashes = 0
      /\ w_phase = [s \in W!Session |-> "none"] /\ w_listening = {}
      /\ w_queue = [k \in W!Kind |-> << >>]
  BY DEF W!Init, W!DaemonInit
<1>3. Sent = << >> /\ News = << >> /\ w_queue \in [W!Kind -> Seq(Notice)]
  BY <1>1, <1>2 DEF Sent, News, W!Kind
<1>4. WatchTypes
  <2>1. 0 \in 0 .. Faults
    BY Bounds
  <2>2. w_phase \in [W!Session -> Phase]
    BY <1>2 DEF Phase
  <2>3. /\ w_pc \in {"attach", "snapshot", "loop"} /\ w_crashes \in Nat
        /\ w_slot \in W!Session \union {W!None}
        /\ current_session \in W!Session \union {W!None}
    BY <1>2
  <2>4. /\ recorder_state \in Active \union {"idle", "failed"}
        /\ last_line \in Active \union {"", "idle", "failed"}
        /\ w_pc = "loop" => last_line = recorder_state
    BY <1>2
  <2>5. failures \in Nat /\ due \in Nat /\ failures >= due
    <3>1. failures = 0 /\ due = 0
      BY <1>2
    <3> QED
      BY <3>1
  <2> QED
    BY <1>2, <1>3, <2>1, <2>2, <2>3, <2>4, <2>5 DEF WatchTypes
<1>5. NotYet
  BY <1>2, <1>3 DEF NotYet
<1>6. \A s \in W!Session : /\ ~W!InFlight(s) /\ w_phase[s] \notin W!SlotHeldIn
                           /\ s # W!None
  <2>1. ASSUME NEW s \in W!Session PROVE s # W!None
    BY Bounds DEF W!Session, W!None
  <2>2. \A s \in W!Session : w_phase[s] = "none"
    BY <1>2
  <2>3. \A s \in W!Session : w_phase[s] \notin W!SlotHeldIn
    BY <2>2 DEF W!SlotHeldIn
  <2>4. \A s \in W!Session : ~W!InFlight(s)
    BY <2>2, <2>3 DEF W!InFlight
  <2> QED
    BY <2>1, <2>3, <2>4
<1>7. SlotInv
  BY <1>2, <1>6 DEF SlotInv
<1>8. \A i \in 1 .. Len(Sent) : SignalInv(i)
  <2>1. Len(Sent) = 0
    BY <1>1, <1>3
  <2> QED
    BY <2>1
<1>9. SlotShown /\ EndComes
  BY <1>2 DEF SlotShown, EndComes, Active
<1> QED
  BY <1>4, <1>5, <1>7, <1>8, <1>9 DEF WatchInv

LEMMA WatchKept == WatchInv => /\ W!TypeOK /\ W!CaughtUpShowsRecorder
                               /\ W!EveryFailureHasLine
<1> SUFFICES ASSUME WatchInv
             PROVE  /\ W!TypeOK /\ W!CaughtUpShowsRecorder /\ W!EveryFailureHasLine
  OBVIOUS
<1>1. W!TypeOK
  <2>1. current_session \in 0 .. Sessions
    <3>1. current_session \in (1 .. Sessions) \union {0}
      BY DEF WatchInv, WatchTypes, W!Session, W!None
    <3> QED
      BY <3>1, Bounds
  <2> QED
    BY <2>1 DEF WatchInv, WatchTypes, W!TypeOK, Active
<1>2. W!EveryFailureHasLine
  BY DEF WatchInv, WatchTypes, W!EveryFailureHasLine
<1>3. W!CaughtUpShowsRecorder
  <2> SUFFICES ASSUME W!CaughtUp, ~blind PROVE W!ShowsRecorder
    BY DEF W!CaughtUpShowsRecorder
  <2>1. w_pc = "loop" /\ ~stale /\ Sent = << >> /\ News = << >>
    BY DEF W!CaughtUp, Sent, News
  <2>2. Len(Sent) = 0 /\ Len(News) = 0
    BY <2>1
  <2>3. ~DeathPending
    BY <2>2 DEF DeathPending
  <2>4. w_slot # W!None => recorder_state \in {"starting", "recording", "stopping"}
    BY <2>1, <2>2, <2>3 DEF WatchInv, SlotShown, Active
  <2>5. (\A s \in W!Session : ~W!InFlight(s)) => recorder_state \in {"idle", "failed"}
    <3> SUFFICES ASSUME \A s \in W!Session : ~W!InFlight(s)
                 PROVE  recorder_state \in {"idle", "failed"}
      OBVIOUS
    <3>1. current_session \in W!Session \union {W!None}
          /\ recorder_state \in Active \union {"idle", "failed"}
      BY DEF WatchInv, WatchTypes
    <3> QED
      BY <2>2, <2>3, <3>1 DEF WatchInv, EndComes
  <2> QED
    BY <2>4, <2>5 DEF W!ShowsRecorder
<1> QED
  BY <1>1, <1>2, <1>3

-----------------------------------------------------------------------------
(* `zwhisper deliver` and the commands that wait *)

Consumer == 1 .. Consumers
Event == [job : D!Job, ok : BOOLEAN]
EventTrue(e) == job[e.job] = IF e.ok THEN "completed" ELSE "failed"
Spoken(j) == typed[j] > 0 \/ j \in told \union unheard \/ \E i \in injected : i.job = j

(* How often the first n outputs ask for keystrokes.                       *)
Keys(o, n) == Cardinality({i \in 1 .. n : o[i] = "type_at_cursor"})

DeliveryTypes ==
    /\ kind \in [D!Job -> Kinds]
    /\ job \in [D!Job -> {"none", "queued", "completed", "failed", "lost"}]
    /\ waiter \in [D!Job -> {"none", "waiting", "gone", "EXIT_OK",
                             "EXIT_RECORDING_FAILED", "EXIT_JOB_TIMEOUT"}]
    /\ inbox \in [D!Job -> Seq(Event)] /\ wtype \in BOOLEAN
    /\ owner \in Consumer \union {D!Nobody}
    /\ d_pc \in [Consumer -> {"off", "claimed", "idle", "busy", "typing"}]
    /\ d_queue \in [Consumer -> Seq(Event)]
    /\ work \in [Consumer -> [job : D!Job \union {D!Nobody}, todo : Seq(Output)]]
    /\ typed \in [D!Job -> Nat]
    /\ injected \subseteq [job : D!Job, why : {"clipboard", "fallback"}]
    /\ told \subseteq D!Job /\ unheard \subseteq D!Job /\ handled \subseteq D!Job /\ d_faults \in Nat

(* What a waiting command has received is so.                              *)
InboxTrue(j) == \A i \in 1 .. Len(inbox[j]) : EventTrue(inbox[j][i])

(* The consumer that runs owns the name, listens once it has subscribed,   *)
(* and has a job in hand only while it delivers.                           *)
Owns(c) ==
    /\ d_pc[c] # "off" => owner = c
    /\ d_pc[c] \in {"off", "claimed"} => d_queue[c] = << >>
    /\ d_pc[c] \notin {"busy", "typing"} => work[c].job = D!Nobody

(* What a consumer has not taken is so, tells of each job once, and comes  *)
(* before anything of the job is typed.                                    *)
Ahead(c) ==
    \A i \in 1 .. Len(d_queue[c]) :
       /\ EventTrue(d_queue[c][i])
       /\ typed[d_queue[c][i].job] = 0
       /\ d_queue[c][i].job # work[c].job
       /\ \A k \in 1 .. i - 1 : d_queue[c][k].job # d_queue[c][i].job

(* How far the job in hand has come: of the outputs behind it, each but a  *)
(* file left something, and only they were typed.                          *)
InHand(c, n) ==
    LET j == work[c].job  o == kind[j].outputs IN
    /\ work[c].todo = SubSeq(o, n + 1, Len(o))
    /\ typed[j] <= Keys(o, n)
    /\ \A i \in 1 .. n : o[i] # "file" => Spoken(j)

AtWork(c) ==
    /\ d_pc[c] \in {"busy", "typing"} =>
          /\ work[c].job \in D!Job /\ job[work[c].job] = "completed"
          /\ \E n \in 0 .. Len(kind[work[c].job].outputs) : InHand(c, n)
    /\ d_pc[c] = "typing" =>
          /\ work[c].todo # << >> /\ Head(work[c].todo) = "type_at_cursor"
          /\ D!decide_type(kind[work[c].job]) = "Type"

(* Only what has ended is typed or finished with.                          *)
EndedOnly ==
    /\ \A j \in D!Job : typed[j] > 0 => job[j] = "completed"
    /\ \A j \in handled : job[j] \in {"completed", "failed"}

DeliveryInv ==
    /\ DeliveryTypes /\ EndedOnly
    /\ \A j \in D!Job : InboxTrue(j)
    /\ \A c \in Consumer : Owns(c) /\ Ahead(c) /\ AtWork(c)
    /\ D!IntentGuarded /\ D!TypedOnce /\ D!NothingSwallowed /\ D!WaiterTellsOutcome

LEMMA DeliveryCounts == \A s : D!Cardinality(s) = Cardinality(s)
  BY Zenon DEF D!Cardinality, Cardinality

(* Keystrokes are counted one output at a time, and up to what is asked.   *)
LEMMA KeysGrow ==
    ASSUME NEW o, NEW n \in Nat
    PROVE  /\ Keys(o, n) \in Nat /\ Keys(o, n + 1) \in Nat
           /\ Keys(o, n) <= Keys(o, n + 1)
           /\ o[n + 1] = "type_at_cursor" => Keys(o, n + 1) = Keys(o, n) + 1
<1> DEFINE S(m) == {i \in 1 .. m : o[i] = "type_at_cursor"}
<1>1. \A m \in Nat : IsFiniteSet(S(m))
  <2> SUFFICES ASSUME NEW m \in Nat PROVE IsFiniteSet(S(m))
    OBVIOUS
  <2>1. IsFiniteSet(1 .. m)
    BY FS_Interval
  <2> QED
    BY <2>1, FS_Subset
<1>2. IsFiniteSet(S(n)) /\ IsFiniteSet(S(n + 1)) /\ n + 1 \in Nat
  BY <1>1
<1>3. Cardinality(S(n)) \in Nat /\ Cardinality(S(n + 1)) \in Nat
  BY <1>2, FS_CardinalityType
<1>4. CASE o[n + 1] = "type_at_cursor"
  <2>1. S(n + 1) = S(n) \union {n + 1} /\ n + 1 \notin S(n)
    BY <1>4
  <2>2. Cardinality(S(n + 1)) = Cardinality(S(n)) + 1
    BY <1>2, <2>1, FS_AddElement
  <2> QED
    BY <1>3, <2>2 DEF Keys
<1>5. CASE o[n + 1] # "type_at_cursor"
  <2>1. S(n + 1) = S(n)
    BY <1>5
  <2> QED
    BY <1>3, <1>5, <2>1 DEF Keys
<1> QED
  BY <1>4, <1>5

LEMMA KeysAsked ==
    ASSUME NEW j \in D!Job, kind[j].outputs \in Seq(Output),
           NEW n \in 0 .. Len(kind[j].outputs)
    PROVE  /\ Keys(kind[j].outputs, n) \in Nat /\ D!Asked(j) \in Nat
           /\ Keys(kind[j].outputs, n) <= D!Asked(j)
<1>0. PICK o : o = kind[j].outputs
  OBVIOUS
<1>1. DOMAIN o = 1 .. Len(o) /\ Len(o) \in Nat
  BY <1>0
<1>2. PICK a : a = {i \in DOMAIN o : o[i] = "type_at_cursor"}
  OBVIOUS
<1>3. PICK b : b = {i \in 1 .. n : o[i] = "type_at_cursor"}
  OBVIOUS
<1>4. D!Asked(j) = Cardinality(a)
  <2>1. D!Asked(j) = D!Cardinality(a)
    BY <1>0, <1>2 DEF D!Asked
  <2> QED
    BY <2>1, DeliveryCounts
<1>5. IsFiniteSet(a)
  <2>1. IsFiniteSet(1 .. Len(o)) /\ a \subseteq 1 .. Len(o)
    BY <1>1, <1>2, FS_Interval
  <2> QED
    BY <2>1, FS_Subset
<1>6. b \subseteq a
  BY <1>0, <1>1, <1>2, <1>3
<1>7. /\ Cardinality(b) <= Cardinality(a)
      /\ Cardinality(a) \in Nat /\ Cardinality(b) \in Nat
  <2>1. IsFiniteSet(b)
    BY <1>5, <1>6, FS_Subset
  <2> QED
    BY <1>5, <1>6, <2>1, FS_Subset, FS_CardinalityType
<1> QED
  BY <1>0, <1>3, <1>4, <1>7 DEF Keys

(* What is to go of a list of outputs.                                     *)
LEMMA TodoIs ==
    ASSUME NEW o \in Seq(Output), NEW n \in 0 .. Len(o)
    PROVE  /\ SubSeq(o, n + 1, Len(o)) \in Seq(Output)
           /\ SubSeq(o, n + 1, Len(o)) = << >> => n = Len(o)
           /\ SubSeq(o, n + 1, Len(o)) # << >> =>
                 /\ n + 1 \in 0 .. Len(o) /\ n + 1 \in 1 .. Len(o) /\ n \in Nat
                 /\ Head(SubSeq(o, n + 1, Len(o))) = o[n + 1] /\ o[n + 1] \in Output
                 /\ Tail(SubSeq(o, n + 1, Len(o))) = SubSeq(o, n + 1 + 1, Len(o))
                 /\ Tail(SubSeq(o, n + 1, Len(o))) \in Seq(Output)
<1>1. Len(o) \in Nat /\ n \in Nat /\ n <= Len(o)
  OBVIOUS
<1>2. PICK t : t = SubSeq(o, n + 1, Len(o))
  OBVIOUS
<1>3. t \in Seq(Output) /\ Len(t) = Len(o) - n /\ \A i \in 1 .. Len(o) - n : t[i] = o[n + i]
  BY <1>1, <1>2
<1>4. t = << >> => n = Len(o)
  BY <1>1, <1>3
<1>5. ASSUME t # << >>
      PROVE  /\ n + 1 \in 1 .. Len(o) /\ Head(t) = o[n + 1] /\ o[n + 1] \in Output
             /\ Tail(t) = SubSeq(o, n + 1 + 1, Len(o)) /\ Tail(t) \in Seq(Output)
  <2>1. Len(t) # 0
    BY <1>3, <1>5
  <2>2. n + 1 \in 1 .. Len(o) /\ 1 \in 1 .. Len(o) - n
    BY <1>1, <1>3, <2>1
  <2>3. Head(t) = o[n + 1] /\ o[n + 1] \in Output
    BY <1>3, <1>5, <2>2
  <2>4. Tail(t) = SubSeq(o, n + 1 + 1, Len(o))
    BY <1>1, <1>2, <2>2, HeadTailOfSubSeq
  <2> QED
    BY <1>3, <1>5, <2>2, <2>3, <2>4
<1> QED
  BY <1>1, <1>2, <1>3, <1>4, <1>5

(* Steps that end no consumer's work: what has ended stays as it is.       *)
OutcomesStay ==
    \A j \in D!Job : job[j] \in {"completed", "failed"} => job'[j] = job[j]

LEMMA OutcomesAre ==
    ASSUME DeliveryTypes, OutcomesStay, NEW e \in Event, EventTrue(e)
    PROVE  EventTrue(e)' /\ job[e.job] \in {"completed", "failed"}
<1>1. e.job \in D!Job
  BY DEF Event
<1>2. job[e.job] \in {"completed", "failed"}
  BY DEF EventTrue
<1>3. job'[e.job] = job[e.job]
  BY <1>1, <1>2 DEF OutcomesStay
<1> QED
  BY <1>2, <1>3 DEF EventTrue

LEMMA DeliveryQueueSteps ==
    ASSUME DeliveryInv, DeliveryTypes', OutcomesStay,
           UNCHANGED <<kind, owner, d_pc, work, typed, injected, told, unheard,
                       handled>>,
           \A j \in D!Job : InboxTrue(j)', \A c \in Consumer : Ahead(c)',
           \A c \in Consumer : d_queue[c] = << >> =>
               d_queue'[c] = << >> \/ d_pc[c] \notin {"off", "claimed"},
           D!WaiterTellsOutcome'
    PROVE  DeliveryInv'
<1>1. EndedOnly'
  <2>1. \A j \in D!Job : typed'[j] > 0 => job'[j] = "completed"
    BY DEF DeliveryInv, EndedOnly, OutcomesStay
  <2>2. \A j \in handled' : job'[j] \in {"completed", "failed"}
    BY DEF DeliveryInv, EndedOnly, OutcomesStay, DeliveryTypes
  <2> QED
    BY <2>1, <2>2 DEF EndedOnly
<1>2. ASSUME NEW c \in Consumer PROVE Owns(c)'
  BY <1>2 DEF DeliveryInv, Owns
<1>3. ASSUME NEW c \in Consumer PROVE AtWork(c)'
  <2>1. AtWork(c)
    BY <1>3 DEF DeliveryInv
  <2>2. \A n : InHand(c, n)' <=> InHand(c, n)
    BY DEF InHand, Spoken
  <2>3. work[c].job \in D!Job /\ job[work[c].job] = "completed" => job'[work[c].job] = "completed"
    BY DEF OutcomesStay
  <2>4. D!decide_type(kind[work[c].job])' = D!decide_type(kind[work[c].job])
    BY DEF D!decide_type
  <2> QED
    BY <2>1, <2>2, <2>3, <2>4 DEF AtWork
<1>4. D!IntentGuarded' /\ D!TypedOnce'
  BY DEF DeliveryInv, D!IntentGuarded, D!TypedOnce, D!Foreground, D!Asked
<1>5. D!NothingSwallowed'
  <2> SUFFICES ASSUME NEW j \in handled,
                      (\E i \in DOMAIN kind[j].outputs : kind[j].outputs[i] # "file")
                         \/ job'[j] = "failed"
               PROVE  typed[j] > 0 \/ j \in told \union unheard \/ \E i \in injected : i.job = j
    BY DEF D!NothingSwallowed
  <2>1. job'[j] = job[j]
    BY DEF DeliveryInv, EndedOnly, OutcomesStay, DeliveryTypes
  <2> QED
    BY <2>1 DEF DeliveryInv, D!NothingSwallowed
<1> QED
  BY <1>1, <1>2, <1>3, <1>4, <1>5 DEF DeliveryInv

LEMMA DeliverySilent ==
    ASSUME DeliveryInv, OutcomesStay, UNCHANGED <<inbox, d_queue, work, typed>>
    PROVE  (\A i \in D!Job : InboxTrue(i)') /\ (\A c \in Consumer : Ahead(c)')
<1>1. \A i \in D!Job : InboxTrue(i)'
  <2> SUFFICES ASSUME NEW i \in D!Job, NEW k \in 1 .. Len(inbox[i])
               PROVE  EventTrue(inbox[i][k])'
    BY DEF InboxTrue
  <2>1. inbox[i][k] \in Event /\ EventTrue(inbox[i][k])
    BY DEF DeliveryInv, DeliveryTypes, InboxTrue
  <2>2. PICK e : e = inbox[i][k]
    OBVIOUS
  <2>3. EventTrue(e)'
    BY <2>1, <2>2, OutcomesAre DEF DeliveryInv
  <2> QED
    BY <2>2, <2>3 DEF EventTrue
<1>2. ASSUME NEW c \in Consumer PROVE Ahead(c)'
  <2>1. Ahead(c) /\ d_queue[c] \in Seq(Event)
    BY <1>2 DEF DeliveryInv, DeliveryTypes
  <2>2. ASSUME NEW i \in 1 .. Len(d_queue[c]) PROVE EventTrue(d_queue[c][i])'
    <3>1. d_queue[c][i] \in Event /\ EventTrue(d_queue[c][i])
      BY <2>1, <2>2 DEF Ahead
    <3>2. PICK e : e = d_queue[c][i]
      OBVIOUS
    <3>3. EventTrue(e)'
      BY <3>1, <3>2, OutcomesAre DEF DeliveryInv
    <3> QED
      BY <3>2, <3>3 DEF EventTrue
  <2> QED
    BY <2>1, <2>2 DEF Ahead
<1> QED
  BY <1>1, <1>2

LEMMA DeliverySubmit ==
    ASSUME DeliveryInv, NEW j \in D!Job, D!Submit(j)
    PROVE  DeliveryInv'
<1>1. /\ job[j] = "none" /\ job' = [job EXCEPT ![j] = "queued"]
      /\ \E w \in {"waiting", "none"} : waiter' = [waiter EXCEPT ![j] = w]
      /\ UNCHANGED <<kind, inbox, wtype, owner, d_pc, d_queue, work, typed, injected,
                     told, unheard, handled, d_faults>>
  BY DEF D!Submit, D!consumerVars, D!effects
<1>2. OutcomesStay /\ DeliveryTypes'
  BY <1>1 DEF OutcomesStay, DeliveryInv, DeliveryTypes
<1>3. (\A i \in D!Job : InboxTrue(i)') /\ (\A c \in Consumer : Ahead(c)')
  BY <1>1, <1>2, DeliverySilent
<1>4. D!WaiterTellsOutcome'
  <2> SUFFICES ASSUME NEW i \in D!Job
               PROVE  /\ waiter'[i] = "EXIT_OK" => job'[i] = "completed"
                      /\ waiter'[i] = "EXIT_RECORDING_FAILED" => job'[i] = "failed"
    BY DEF D!WaiterTellsOutcome
  <2>1. CASE i = j
    BY <1>1, <2>1 DEF DeliveryInv, DeliveryTypes
  <2>2. CASE i # j
    BY <1>1, <2>2 DEF DeliveryInv, DeliveryTypes, D!WaiterTellsOutcome
  <2> QED
    BY <2>1, <2>2
<1> QED
  BY <1>1, <1>2, <1>3, <1>4, DeliveryQueueSteps

LEMMA DeliveryDaemonDies ==
    ASSUME DeliveryInv, D!DaemonDies
    PROVE  DeliveryInv'
<1>1. /\ job' = [j \in D!Job |-> IF job[j] = "queued" THEN "lost" ELSE job[j]]
      /\ UNCHANGED <<kind, waiter, inbox, wtype, owner, d_pc, d_queue, work, typed,
                     injected, told, unheard, handled>>
      /\ d_faults' \in Nat
  BY DEF D!DaemonDies, D!Fault, D!consumerVars, D!effects, DeliveryInv, DeliveryTypes
<1>2. OutcomesStay /\ DeliveryTypes'
  BY <1>1 DEF OutcomesStay, DeliveryInv, DeliveryTypes
<1>3. (\A i \in D!Job : InboxTrue(i)') /\ (\A c \in Consumer : Ahead(c)')
  BY <1>1, <1>2, DeliverySilent
<1>4. D!WaiterTellsOutcome'
  BY <1>1 DEF DeliveryInv, D!WaiterTellsOutcome
<1> QED
  BY <1>1, <1>2, <1>3, <1>4, DeliveryQueueSteps

LEMMA DeliveryWaitEnds ==
    ASSUME DeliveryInv, NEW j \in D!Job, D!WaitEnds(j)
    PROVE  DeliveryInv'
<1>1. /\ \E w \in {"EXIT_JOB_TIMEOUT", "gone"} : waiter' = [waiter EXCEPT ![j] = w]
      /\ UNCHANGED <<kind, job, inbox, wtype, owner, d_pc, d_queue, work, typed,
                     injected, told, unheard, handled>>
      /\ d_faults' \in Nat
  BY DEF D!WaitEnds, D!Fault, D!consumerVars, D!effects, DeliveryInv, DeliveryTypes
<1>2. OutcomesStay /\ DeliveryTypes'
  BY <1>1 DEF OutcomesStay, DeliveryInv, DeliveryTypes
<1>3. (\A i \in D!Job : InboxTrue(i)') /\ (\A c \in Consumer : Ahead(c)')
  BY <1>1, <1>2, DeliverySilent
<1>4. D!WaiterTellsOutcome'
  BY <1>1 DEF DeliveryInv, DeliveryTypes, D!WaiterTellsOutcome
<1> QED
  BY <1>1, <1>2, <1>3, <1>4, DeliveryQueueSteps

(* A received event, and those behind it.                                  *)
LEMMA Received ==
    ASSUME NEW q \in Seq(Event), q # << >>
    PROVE  /\ Head(q) = q[1] /\ 1 \in 1 .. Len(q) /\ Head(q) \in Event
           /\ Tail(q) \in Seq(Event) /\ Len(q) \in Nat
           /\ Len(Tail(q)) = Len(q) - 1
           /\ \A i \in 1 .. Len(q) - 1 :
                 /\ Tail(q)[i] = q[i + 1] /\ i + 1 \in 1 .. Len(q) /\ 1 \in 1 .. (i + 1) - 1
                 /\ \A k \in 1 .. i - 1 :
                       k + 1 \in 1 .. (i + 1) - 1 /\ Tail(q)[k] = q[k + 1]
OBVIOUS

LEMMA DeliveryWaitTakes ==
    ASSUME DeliveryInv, NEW j \in D!Job, D!WaitTakes(j)
    PROVE  DeliveryInv'
<1>0. PICK q : q = inbox[j]
  OBVIOUS
<1>1. /\ q # << >> /\ inbox' = [inbox EXCEPT ![j] = Tail(q)]
      /\ waiter' = [waiter EXCEPT ![j] =
                        IF Head(q).job # j THEN waiter[j]
                        ELSE IF Head(q).ok THEN "EXIT_OK" ELSE "EXIT_RECORDING_FAILED"]
      /\ UNCHANGED <<kind, job, wtype, owner, d_pc, d_queue, work, typed, injected,
                     told, unheard, handled, d_faults>>
  BY <1>0 DEF D!WaitTakes, D!consumerVars, D!effects
<1>2. q \in Seq(Event) /\ \A i \in 1 .. Len(q) : EventTrue(q[i])
  BY <1>0 DEF DeliveryInv, DeliveryTypes, InboxTrue
<1>3. /\ Head(q) = q[1] /\ 1 \in 1 .. Len(q) /\ Tail(q) \in Seq(Event)
      /\ \A i \in 1 .. Len(Tail(q)) : Tail(q)[i] = q[i + 1] /\ i + 1 \in 1 .. Len(q)
  BY <1>1, <1>2, Received
<1>4. OutcomesStay
  BY <1>1 DEF OutcomesStay
<1>5. DeliveryTypes'
  <2>1. /\ inbox' \in [D!Job -> Seq(Event)]
        /\ waiter' \in [D!Job -> {"none", "waiting", "gone", "EXIT_OK",
                                  "EXIT_RECORDING_FAILED", "EXIT_JOB_TIMEOUT"}]
    BY <1>1, <1>3 DEF DeliveryInv, DeliveryTypes
  <2> QED
    BY <1>1, <2>1 DEF DeliveryInv, DeliveryTypes
<1>6. \A i \in D!Job : InboxTrue(i)'
  <2> SUFFICES ASSUME NEW i \in D!Job PROVE InboxTrue(i)'
    OBVIOUS
  <2>1. CASE i # j
    <3>1. inbox'[i] = inbox[i] /\ InboxTrue(i)
      BY <1>1, <2>1 DEF DeliveryInv, DeliveryTypes
    <3> QED
      BY <1>1, <3>1 DEF InboxTrue, EventTrue
  <2>2. CASE i = j
    <3>1. inbox'[i] = Tail(q)
      BY <1>1, <2>2 DEF DeliveryInv, DeliveryTypes
    <3>2. \A k \in 1 .. Len(Tail(q)) : EventTrue(Tail(q)[k])
      BY <1>2, <1>3
    <3> QED
      BY <1>1, <3>1, <3>2 DEF InboxTrue, EventTrue
  <2> QED
    BY <2>1, <2>2
<1>7. \A c \in Consumer : Ahead(c)'
  BY <1>1 DEF DeliveryInv, Ahead, EventTrue
<1>8. D!WaiterTellsOutcome'
  <2> SUFFICES ASSUME NEW i \in D!Job
               PROVE  /\ waiter'[i] = "EXIT_OK" => job'[i] = "completed"
                      /\ waiter'[i] = "EXIT_RECORDING_FAILED" => job'[i] = "failed"
    BY DEF D!WaiterTellsOutcome
  <2>1. CASE i = j /\ Head(q).job = j
    <3>1. waiter'[i] = IF Head(q).ok THEN "EXIT_OK" ELSE "EXIT_RECORDING_FAILED"
      BY <1>1, <2>1 DEF DeliveryInv, DeliveryTypes
    <3>2. job[j] = IF Head(q).ok THEN "completed" ELSE "failed"
      BY <1>2, <1>3, <2>1 DEF EventTrue
    <3> QED
      BY <1>1, <2>1, <3>1, <3>2
  <2>2. CASE ~(i = j /\ Head(q).job = j)
    <3>1. waiter'[i] = waiter[i]
      BY <1>1, <2>2 DEF DeliveryInv, DeliveryTypes
    <3> QED
      BY <1>1, <3>1 DEF DeliveryInv, D!WaiterTellsOutcome
  <2> QED
    BY <2>1, <2>2
<1> QED
  BY <1>1, <1>4, <1>5, <1>6, <1>7, <1>8, DeliveryQueueSteps

(* The end of a job is sent to everybody who listens.                      *)
LEMMA Sends ==
    ASSUME NEW q \in Seq(Event), NEW e \in Event
    PROVE  /\ Append(q, e) \in Seq(Event) /\ Len(Append(q, e)) = Len(q) + 1
           /\ Len(q) \in Nat /\ Append(q, e)[Len(q) + 1] = e
           /\ \A i \in 1 .. Len(q) + 1 : i \in 1 .. Len(q) \/ i = Len(q) + 1
           /\ \A i \in 1 .. Len(q) : /\ Append(q, e)[i] = q[i]
                                     /\ \A k \in 1 .. i - 1 : k \in 1 .. Len(q)
           /\ \A k \in 1 .. (Len(q) + 1) - 1 : k \in 1 .. Len(q)
OBVIOUS

LEMMA DeliveryJobEnds ==
    ASSUME DeliveryInv, NEW j \in D!Job, D!JobEnds(j)
    PROVE  DeliveryInv'
<1>0. d_faults \in Nat
  BY DEF DeliveryInv, DeliveryTypes
<1>1. PICK ok \in BOOLEAN :
         /\ job[j] = "queued"
         /\ job' = [job EXCEPT ![j] = IF ok THEN "completed" ELSE "failed"]
         /\ D!Signal(j, ok) /\ (d_faults' = d_faults \/ d_faults' = d_faults + 1)
         /\ UNCHANGED <<kind, waiter, wtype, owner, d_pc, work, typed, injected, told,
                        unheard, handled>>
  BY DEF D!JobEnds, D!Fault, D!effects
<1>2. PICK e \in Event : e = [job |-> j, ok |-> ok]
  BY DEF Event
<1>3. /\ inbox' = [i \in D!Job |-> IF waiter[i] = "waiting"
                                   THEN Append(inbox[i], e) ELSE inbox[i]]
      /\ d_queue' = [c \in Consumer |-> IF d_pc[c] \in {"idle", "busy", "typing"}
                                        THEN Append(d_queue[c], e) ELSE d_queue[c]]
  BY <1>1, <1>2 DEF D!Signal, Consumer
<1>4. OutcomesStay
  BY <1>1 DEF OutcomesStay, DeliveryInv, DeliveryTypes
<1>5. DeliveryTypes'
  <2>1. inbox' \in [D!Job -> Seq(Event)] /\ d_queue' \in [Consumer -> Seq(Event)]
    <3>1. ASSUME NEW i \in D!Job PROVE inbox'[i] \in Seq(Event)
      BY <1>3, Sends DEF DeliveryInv, DeliveryTypes
    <3>2. ASSUME NEW c \in Consumer PROVE d_queue'[c] \in Seq(Event)
      BY <1>3, Sends DEF DeliveryInv, DeliveryTypes
    <3> QED
      BY <1>3, <3>1, <3>2
  <2>2. job' \in [D!Job -> {"none", "queued", "completed", "failed", "lost"}]
    BY <1>1 DEF DeliveryInv, DeliveryTypes
  <2>3. d_faults' \in Nat
    BY <1>0, <1>1
  <2> QED
    BY <1>1, <2>1, <2>2, <2>3 DEF DeliveryInv, DeliveryTypes
<1>6. PICK jb : jb = job'
  OBVIOUS
<1>7. e.job = j /\ jb[j] = IF e.ok THEN "completed" ELSE "failed"
  BY <1>1, <1>2, <1>6 DEF DeliveryInv, DeliveryTypes
<1>8. ASSUME NEW x \in Event, EventTrue(x)
      PROVE  x.job # j /\ jb[x.job] = IF x.ok THEN "completed" ELSE "failed"
  <2>1. EventTrue(x)' /\ job[x.job] \in {"completed", "failed"}
    BY <1>4, <1>8, OutcomesAre DEF DeliveryInv
  <2> QED
    BY <1>1, <1>6, <2>1 DEF EventTrue
<1>9. \A i \in D!Job : InboxTrue(i)'
  <2> SUFFICES ASSUME NEW i \in D!Job PROVE InboxTrue(i)'
    OBVIOUS
  <2>1. PICK q \in Seq(Event) : q = inbox[i]
    BY DEF DeliveryInv, DeliveryTypes
  <2>2. \A k \in 1 .. Len(q) : jb[q[k].job] = IF q[k].ok THEN "completed" ELSE "failed"
    <3>1. \A k \in 1 .. Len(q) : q[k] \in Event /\ EventTrue(q[k])
      BY <2>1 DEF DeliveryInv, InboxTrue
    <3> QED
      BY <1>8, <3>1
  <2>3. inbox'[i] = q \/ inbox'[i] = Append(q, e)
    BY <1>3, <2>1
  <2>4. \A k \in 1 .. Len(inbox'[i]) :
           jb[inbox'[i][k].job] = IF inbox'[i][k].ok THEN "completed" ELSE "failed"
    <3>1. CASE inbox'[i] = q
      BY <2>2, <3>1
    <3>2. CASE inbox'[i] = Append(q, e)
      <4>1. \A k \in 1 .. Len(q) + 1 :
               jb[Append(q, e)[k].job] = IF Append(q, e)[k].ok THEN "completed" ELSE "failed"
        BY <1>7, <2>2, Sends
      <4>2. Len(Append(q, e)) = Len(q) + 1
        BY Sends
      <4> QED
        BY <3>2, <4>1, <4>2
    <3> QED
      BY <2>3, <3>1, <3>2
  <2> QED
    BY <1>6, <2>4 DEF InboxTrue, EventTrue
<1>10. typed[j] = 0
  <2>1. typed[j] \in Nat /\ ~(typed[j] > 0)
    BY <1>1 DEF DeliveryInv, EndedOnly, DeliveryTypes
  <2> QED
    BY <2>1
<1>11. ASSUME NEW c \in Consumer PROVE work[c].job # j
  <2>1. CASE d_pc[c] \in {"busy", "typing"}
    BY <1>1, <1>11, <2>1 DEF DeliveryInv, AtWork
  <2>2. CASE d_pc[c] \notin {"busy", "typing"}
    BY <1>11, <2>2, Bounds DEF DeliveryInv, Owns, D!Nobody, D!Job
  <2> QED
    BY <2>1, <2>2
<1>12. ASSUME NEW c \in Consumer PROVE Ahead(c)'
  <2>1. PICK q \in Seq(Event) : q = d_queue[c]
    BY <1>12 DEF DeliveryInv, DeliveryTypes
  <2>2. PICK w : w = work[c].job
    OBVIOUS
  <2>3. ASSUME NEW i \in 1 .. Len(q)
        PROVE  /\ jb[q[i].job] = IF q[i].ok THEN "completed" ELSE "failed"
               /\ typed[q[i].job] = 0 /\ q[i].job # w /\ q[i].job # j
               /\ \A k \in 1 .. i - 1 : q[k].job # q[i].job
    <3>1. /\ q[i] \in Event /\ EventTrue(q[i]) /\ typed[q[i].job] = 0 /\ q[i].job # w
          /\ \A k \in 1 .. i - 1 : q[k].job # q[i].job
      BY <1>12, <2>1, <2>2, <2>3 DEF DeliveryInv, Ahead
    <3> QED
      BY <1>8, <3>1
  <2>4. PICK p : p = d_queue'[c]
    OBVIOUS
  <2>5. p = q \/ p = Append(q, e)
    BY <1>3, <1>12, <2>1, <2>4
  <2>6. \A i \in 1 .. Len(p) :
           /\ jb[p[i].job] = IF p[i].ok THEN "completed" ELSE "failed"
           /\ typed[p[i].job] = 0 /\ p[i].job # w
           /\ \A k \in 1 .. i - 1 : p[k].job # p[i].job
    <3>1. CASE p = q
      BY <2>3, <3>1
    <3>2. CASE p = Append(q, e)
      <4>1. ASSUME NEW i \in 1 .. Len(q)
            PROVE  /\ jb[p[i].job] = IF p[i].ok THEN "completed" ELSE "failed"
                   /\ typed[p[i].job] = 0 /\ p[i].job # w
                   /\ \A k \in 1 .. i - 1 : p[k].job # p[i].job
        <5>1. p[i] = q[i] /\ \A k \in 1 .. i - 1 : p[k] = q[k]
          BY <3>2, <4>1, Sends
        <5> QED
          BY <2>3, <4>1, <5>1
      <4>2. /\ p[Len(q) + 1] = e
            /\ \A k \in 1 .. (Len(q) + 1) - 1 : p[k].job # j
        <5>1. \A k \in 1 .. (Len(q) + 1) - 1 : k \in 1 .. Len(q) /\ p[k] = q[k]
          BY <3>2, Sends
        <5>2. p[Len(q) + 1] = e
          BY <3>2, Sends
        <5> QED
          BY <2>3, <5>1, <5>2
      <4>3. /\ Len(p) = Len(q) + 1
            /\ \A i \in 1 .. Len(q) + 1 : i \in 1 .. Len(q) \/ i = Len(q) + 1
        BY <3>2, Sends
      <4>4. w # j
        BY <1>11, <1>12, <2>2
      <4> QED
        BY <1>7, <1>10, <4>1, <4>2, <4>3, <4>4
    <3> QED
      BY <2>5, <3>1, <3>2
  <2> QED
    BY <1>1, <1>6, <2>2, <2>4, <2>6 DEF Ahead, EventTrue
<1>13. \A c \in Consumer : d_queue[c] = << >> =>
           d_queue'[c] = << >> \/ d_pc[c] \notin {"off", "claimed"}
  BY <1>3
<1>14. D!WaiterTellsOutcome'
  <2> SUFFICES ASSUME NEW i \in D!Job
               PROVE  /\ waiter[i] = "EXIT_OK" => job'[i] = "completed"
                      /\ waiter[i] = "EXIT_RECORDING_FAILED" => job'[i] = "failed"
    BY <1>1 DEF D!WaiterTellsOutcome
  <2> QED
    BY <1>1 DEF DeliveryInv, DeliveryTypes, D!WaiterTellsOutcome
<1> QED
  BY <1>1, <1>4, <1>5, <1>9, <1>12, <1>13, <1>14, DeliveryQueueSteps

(* A step of the consumer c alone: nobody else runs.                       *)
LEMMA OthersOff ==
    ASSUME DeliveryInv, NEW c \in Consumer, owner = c \/ owner = D!Nobody,
           NEW x \in Consumer, x # c
    PROVE  d_pc[x] = "off" /\ d_queue[x] = << >> /\ work[x].job = D!Nobody
<1>1. owner # x
  BY Bounds DEF Consumer, D!Nobody
<1> QED
  BY <1>1 DEF DeliveryInv, Owns

LEMMA DeliveryConsumerSteps ==
    ASSUME DeliveryInv, DeliveryTypes', NEW c \in Consumer,
           owner = c \/ owner = D!Nobody, UNCHANGED <<kind, job, waiter, inbox>>,
           \A x \in Consumer : x # c => /\ d_pc'[x] = d_pc[x] /\ work'[x] = work[x]
                                        /\ d_queue'[x] = d_queue[x],
           (Owns(c) /\ Ahead(c) /\ AtWork(c))', EndedOnly',
           (D!IntentGuarded /\ D!TypedOnce /\ D!NothingSwallowed)'
    PROVE  DeliveryInv'
<1>1. ASSUME NEW x \in Consumer PROVE (Owns(x) /\ Ahead(x) /\ AtWork(x))'
  <2>1. CASE x # c
    <3>1. /\ d_pc'[x] = "off" /\ d_queue'[x] = << >> /\ work'[x].job = D!Nobody
      BY <2>1, OthersOff
    <3>2. Owns(x)' /\ AtWork(x)'
      BY <3>1 DEF Owns, AtWork
    <3>3. Len(d_queue'[x]) = 0
      BY <3>1
    <3>4. Ahead(x)'
      BY <3>3 DEF Ahead
    <3> QED
      BY <3>2, <3>4
  <2> QED
    BY <2>1
<1>2. D!WaiterTellsOutcome' /\ \A j \in D!Job : InboxTrue(j)'
  BY DEF DeliveryInv, D!WaiterTellsOutcome, InboxTrue, EventTrue
<1> QED
  BY <1>1, <1>2 DEF DeliveryInv

(* What the consumer leaves behind stays as it is.                         *)
Effects == <<typed, injected, told, unheard, handled>>

LEMMA EffectsSame ==
    ASSUME DeliveryInv, UNCHANGED <<kind, job>>, UNCHANGED Effects
    PROVE  (EndedOnly /\ D!IntentGuarded /\ D!TypedOnce /\ D!NothingSwallowed)'
<1>1. /\ typed' = typed /\ injected' = injected /\ told' = told /\ handled' = handled
      /\ unheard' = unheard /\ kind' = kind /\ job' = job
  BY DEF Effects
<1> QED
  BY <1>1 DEF DeliveryInv, EndedOnly, D!IntentGuarded, D!TypedOnce, D!NothingSwallowed,
              D!Foreground, D!Asked

LEMMA DeliveryLaunch ==
    ASSUME DeliveryInv, NEW c \in Consumer, D!Launch(c)
    PROVE  DeliveryInv'
<1>1. /\ d_pc[c] = "off" /\ owner = D!Nobody /\ owner' = c
      /\ d_pc' = [d_pc EXCEPT ![c] = "claimed"]
      /\ UNCHANGED <<kind, job, waiter, inbox, wtype, d_queue, work, d_faults>>
      /\ UNCHANGED Effects
  BY DEF D!Launch, D!classify_name_reply, D!jobVars, D!effects, Effects
<1>2. DeliveryTypes'
  BY <1>1 DEF DeliveryInv, DeliveryTypes, Effects
<1>3. d_queue[c] = << >> /\ work[c].job = D!Nobody
  BY <1>1 DEF DeliveryInv, Owns
<1>4. d_pc'[c] = "claimed"
  BY <1>1 DEF DeliveryInv, DeliveryTypes
<1>5. Len(d_queue'[c]) = 0
  BY <1>1, <1>3
<1>6. (Owns(c) /\ Ahead(c) /\ AtWork(c))'
  BY <1>1, <1>3, <1>4, <1>5 DEF Owns, Ahead, AtWork
<1> QED
  BY <1>1, <1>2, <1>6, EffectsSame, DeliveryConsumerSteps DEF DeliveryInv, DeliveryTypes

LEMMA DeliverySubscribe ==
    ASSUME DeliveryInv, NEW c \in Consumer, D!Subscribe(c)
    PROVE  DeliveryInv'
<1>1. /\ d_pc[c] = "claimed" /\ d_pc' = [d_pc EXCEPT ![c] = "idle"]
      /\ UNCHANGED <<kind, job, waiter, inbox, wtype, owner, d_queue, work, d_faults>>
      /\ UNCHANGED Effects
  BY DEF D!Subscribe, D!jobVars, D!effects, Effects
<1>2. DeliveryTypes'
  BY <1>1 DEF DeliveryInv, DeliveryTypes, Effects
<1>3. owner = c /\ d_queue[c] = << >> /\ work[c].job = D!Nobody
  BY <1>1 DEF DeliveryInv, Owns
<1>4. d_pc'[c] = "idle"
  BY <1>1 DEF DeliveryInv, DeliveryTypes
<1>5. Len(d_queue'[c]) = 0
  BY <1>1, <1>3
<1>6. (Owns(c) /\ Ahead(c) /\ AtWork(c))'
  BY <1>1, <1>3, <1>4, <1>5 DEF Owns, Ahead, AtWork
<1> QED
  BY <1>1, <1>2, <1>3, <1>6, EffectsSame, DeliveryConsumerSteps DEF DeliveryInv, DeliveryTypes

LEMMA DeliveryConsumerDies ==
    ASSUME DeliveryInv, NEW c \in Consumer, D!ConsumerDies(c)
    PROVE  DeliveryInv'
<1>1. /\ d_pc[c] # "off" /\ d_pc' = [d_pc EXCEPT ![c] = "off"]
      /\ owner' = IF owner = c THEN D!Nobody ELSE owner
      /\ d_queue' = [d_queue EXCEPT ![c] = << >>]
      /\ work' = [work EXCEPT ![c] = [job |-> D!Nobody, todo |-> << >>]]
      /\ d_faults' = d_faults + 1
      /\ UNCHANGED <<kind, job, waiter, inbox, wtype>> /\ UNCHANGED Effects
  BY DEF D!ConsumerDies, D!Fault, D!jobVars, D!effects, Effects
<1>2. DeliveryTypes'
  <2>1. << >> \in Seq(Event) /\ << >> \in Seq(Output)
    OBVIOUS
  <2>2. [job |-> D!Nobody, todo |-> << >>] \in [job : D!Job \union {D!Nobody}, todo : Seq(Output)]
    BY <2>1
  <2>3. work' \in [Consumer -> [job : D!Job \union {D!Nobody}, todo : Seq(Output)]]
    BY <1>1, <2>2 DEF DeliveryInv, DeliveryTypes
  <2>4. d_queue' \in [Consumer -> Seq(Event)] /\ d_faults' \in Nat
    BY <1>1, <2>1 DEF DeliveryInv, DeliveryTypes
  <2> QED
    BY <1>1, <2>3, <2>4 DEF DeliveryInv, DeliveryTypes, Effects
<1>3. owner = c
  BY <1>1 DEF DeliveryInv, Owns
<1>4. d_pc'[c] = "off" /\ d_queue'[c] = << >> /\ work'[c].job = D!Nobody
  BY <1>1 DEF DeliveryInv, DeliveryTypes
<1>5. Len(d_queue'[c]) = 0
  BY <1>4
<1>6. (Owns(c) /\ Ahead(c) /\ AtWork(c))'
  BY <1>4, <1>5 DEF Owns, Ahead, AtWork
<1> QED
  BY <1>1, <1>2, <1>3, <1>6, EffectsSame, DeliveryConsumerSteps DEF DeliveryInv, DeliveryTypes

LEMMA DeliveryDone ==
    ASSUME DeliveryInv, NEW c \in Consumer, D!Done(c)
    PROVE  DeliveryInv'
<1>0. PICK j : j = work[c].job
  OBVIOUS
<1>1. /\ d_pc[c] = "busy" /\ work[c].todo = << >> /\ d_pc' = [d_pc EXCEPT ![c] = "idle"]
      /\ handled' = handled \union {j}
      /\ work' = [work EXCEPT ![c] = [job |-> D!Nobody, todo |-> << >>]]
      /\ UNCHANGED <<kind, job, waiter, inbox, wtype, owner, d_queue, typed, injected,
                     told, unheard, d_faults>>
  BY <1>0 DEF D!Done, D!jobVars
<1>2. owner = c /\ j \in D!Job /\ job[j] = "completed"
  BY <1>0, <1>1 DEF DeliveryInv, Owns, AtWork
<1>3. PICK n \in 0 .. Len(kind[j].outputs) : InHand(c, n)
  BY <1>0, <1>1 DEF DeliveryInv, AtWork
<1>4. PICK o \in Seq(Output) : o = kind[j].outputs
  BY <1>2, ClientAssumption DEF DeliveryInv, DeliveryTypes
<1>5. n = Len(o) /\ DOMAIN o = 1 .. Len(o)
  <2>1. SubSeq(o, n + 1, Len(o)) = << >>
    BY <1>0, <1>1, <1>3, <1>4 DEF InHand
  <2>2. n \in 0 .. Len(o)
    BY <1>3, <1>4
  <2>3. n = Len(o)
    BY <2>1, <2>2, TodoIs
  <2> QED
    BY <2>3
<1>6. (\E i \in DOMAIN o : o[i] # "file") => Spoken(j)
  BY <1>0, <1>3, <1>4, <1>5 DEF InHand
<1>7. DeliveryTypes'
  <2>1. [job |-> D!Nobody, todo |-> << >>] \in [job : D!Job \union {D!Nobody}, todo : Seq(Output)]
    <3>1. << >> \in Seq(Output)
      OBVIOUS
    <3> QED
      BY <3>1
  <2>2. work' \in [Consumer -> [job : D!Job \union {D!Nobody}, todo : Seq(Output)]]
    BY <1>1, <2>1 DEF DeliveryInv, DeliveryTypes
  <2> QED
    BY <1>1, <1>2, <2>2 DEF DeliveryInv, DeliveryTypes
<1>8. /\ d_pc'[c] = "idle" /\ work'[c].job = D!Nobody
      /\ \A x \in Consumer : x # c => d_pc'[x] = d_pc[x] /\ work'[x] = work[x]
  BY <1>1 DEF DeliveryInv, DeliveryTypes
<1>9. Ahead(c)'
  <2>1. \A i \in 1 .. Len(d_queue[c]) : d_queue[c][i] \in Event
    BY DEF DeliveryInv, DeliveryTypes
  <2>2. \A i \in 1 .. Len(d_queue[c]) : d_queue[c][i].job # D!Nobody
    BY <2>1, Bounds DEF Event, D!Job, D!Nobody
  <2> QED
    BY <1>1, <1>8, <2>2 DEF DeliveryInv, Ahead, EventTrue
<1>10. Owns(c)' /\ AtWork(c)'
  BY <1>1, <1>2, <1>8 DEF Owns, AtWork
<1>11. EndedOnly'
  BY <1>1, <1>2 DEF DeliveryInv, EndedOnly
<1>12. D!IntentGuarded' /\ D!TypedOnce'
  BY <1>1 DEF DeliveryInv, D!IntentGuarded, D!TypedOnce, D!Foreground, D!Asked
<1>13. D!NothingSwallowed'
  <2> SUFFICES ASSUME NEW i \in handled \union {j},
                      (\E k \in DOMAIN kind[i].outputs : kind[i].outputs[k] # "file")
                         \/ job[i] = "failed"
               PROVE  typed[i] > 0 \/ i \in told \union unheard \/ \E k \in injected : k.job = i
    BY <1>1 DEF D!NothingSwallowed
  <2>1. CASE i \in handled
    BY <2>1 DEF DeliveryInv, D!NothingSwallowed
  <2>2. CASE i = j
    BY <1>2, <1>4, <1>6, <2>2 DEF Spoken
  <2> QED
    BY <2>1, <2>2
<1> QED
  BY <1>1, <1>2, <1>7, <1>8, <1>9, <1>10, <1>11, <1>12, <1>13, DeliveryConsumerSteps

(* A notification adds its job to those heard of or to those that failed.  *)
LogGrows(j) ==
    /\ told \subseteq told' /\ told' \subseteq told \union {j}
    /\ unheard \subseteq unheard' /\ unheard' \subseteq unheard \union {j}

LEMMA NotifyIs ==
    ASSUME NEW j, D!Notify(j)
    PROVE  LogGrows(j) /\ j \in told' \union unheard'
BY DEF D!Notify, LogGrows

LEMMA SilentIs ==
    ASSUME NEW j, D!Silent
    PROVE  LogGrows(j)
BY DEF D!Silent, LogGrows

LEMMA DeliveryTake ==
    ASSUME DeliveryInv, NEW c \in Consumer, D!Take(c)
    PROVE  DeliveryInv'
<1>0. PICK q \in Seq(Event) : q = d_queue[c]
  BY DEF DeliveryInv, DeliveryTypes
<1>1. PICK e : e = Head(q)
  OBVIOUS
<1>2. /\ d_pc[c] = "idle" /\ q # << >> /\ d_queue' = [d_queue EXCEPT ![c] = Tail(q)]
      /\ IF e.ok
         THEN /\ d_pc' = [d_pc EXCEPT ![c] = "busy"]
              /\ work' = [work EXCEPT ![c] = [job |-> e.job, todo |-> kind[e.job].outputs]]
              /\ UNCHANGED <<told, unheard, handled>>
         ELSE /\ LogGrows(e.job) /\ e.job \in told' \union unheard'
              /\ handled' = handled \union {e.job}
              /\ UNCHANGED <<d_pc, work>>
      /\ UNCHANGED <<kind, job, waiter, inbox, wtype, owner, typed, injected, d_faults>>
  BY <1>0, <1>1, NotifyIs DEF D!Take, D!Silent, D!jobVars
<1>3. /\ e = q[1] /\ 1 \in 1 .. Len(q) /\ e \in Event /\ Tail(q) \in Seq(Event)
      /\ Len(Tail(q)) = Len(q) - 1
      /\ \A i \in 1 .. Len(q) - 1 :
            /\ Tail(q)[i] = q[i + 1] /\ i + 1 \in 1 .. Len(q) /\ 1 \in 1 .. (i + 1) - 1
            /\ \A k \in 1 .. i - 1 : k + 1 \in 1 .. (i + 1) - 1 /\ Tail(q)[k] = q[k + 1]
  BY <1>1, <1>2, Received
<1>4. \A i \in 1 .. Len(q) :
         /\ EventTrue(q[i]) /\ typed[q[i].job] = 0
         /\ \A k \in 1 .. i - 1 : q[k].job # q[i].job
  BY <1>0 DEF DeliveryInv, Ahead
<1>5. /\ owner = c /\ work[c].job = D!Nobody /\ e.job \in D!Job
      /\ job[e.job] = IF e.ok THEN "completed" ELSE "failed"
  BY <1>2, <1>3, <1>4 DEF DeliveryInv, Owns, EventTrue, Event
<1>6. PICK o \in Seq(Output) : o = kind[e.job].outputs
  BY <1>5, ClientAssumption DEF DeliveryInv, DeliveryTypes
<1>7. /\ d_pc' \in [Consumer -> {"off", "claimed", "idle", "busy", "typing"}]
      /\ d_queue' \in [Consumer -> Seq(Event)]
      /\ work' \in [Consumer -> [job : D!Job \union {D!Nobody}, todo : Seq(Output)]]
  <2>1. d_queue' \in [Consumer -> Seq(Event)]
    BY <1>2, <1>3 DEF DeliveryInv, DeliveryTypes
  <2>2. CASE e.ok
    <3>1. [job |-> e.job, todo |-> kind[e.job].outputs]
             \in [job : D!Job \union {D!Nobody}, todo : Seq(Output)]
      BY <1>5, <1>6
    <3> QED
      BY <1>2, <2>1, <2>2, <3>1 DEF DeliveryInv, DeliveryTypes
  <2>3. CASE ~e.ok
    BY <1>2, <2>1, <2>3 DEF DeliveryInv, DeliveryTypes
  <2> QED
    BY <2>2, <2>3
<1>8. DeliveryTypes'
  <2>1. told' \subseteq D!Job /\ unheard' \subseteq D!Job /\ handled' \subseteq D!Job
    BY <1>2, <1>5 DEF DeliveryInv, DeliveryTypes, LogGrows
  <2> QED
    BY <1>2, <1>7, <2>1 DEF DeliveryInv, DeliveryTypes
<1>9. /\ d_queue'[c] = Tail(q)
      /\ \A x \in Consumer : x # c => /\ d_pc'[x] = d_pc[x] /\ work'[x] = work[x]
                                      /\ d_queue'[x] = d_queue[x]
  <2>1. d_queue'[c] = Tail(q) /\ \A x \in Consumer : x # c => d_queue'[x] = d_queue[x]
    BY <1>2 DEF DeliveryInv, DeliveryTypes
  <2>2. \A x \in Consumer : x # c => d_pc'[x] = d_pc[x] /\ work'[x] = work[x]
    BY <1>2 DEF DeliveryInv, DeliveryTypes
  <2> QED
    BY <2>1, <2>2
<1>10. /\ e.ok => d_pc'[c] = "busy" /\ work'[c] = [job |-> e.job, todo |-> o]
       /\ ~e.ok => d_pc'[c] = "idle" /\ work'[c] = work[c]
  BY <1>2, <1>6 DEF DeliveryInv, DeliveryTypes
<1>11. Owns(c)'
  BY <1>2, <1>5, <1>10 DEF Owns
<1>12. Ahead(c)'
  <2>1. PICK w : w = work'[c].job
    OBVIOUS
  <2>2. w = e.job \/ w = D!Nobody
    BY <1>5, <1>10, <2>1
  <2>3. ASSUME NEW i \in 1 .. Len(q) - 1
        PROVE  /\ EventTrue(Tail(q)[i]) /\ typed[Tail(q)[i].job] = 0
               /\ Tail(q)[i].job # w
               /\ \A k \in 1 .. i - 1 : Tail(q)[k].job # Tail(q)[i].job
    <3>1. Tail(q)[i] = q[i + 1] /\ i + 1 \in 1 .. Len(q) /\ 1 \in 1 .. (i + 1) - 1
      BY <1>3, <2>3
    <3>2. /\ EventTrue(q[i + 1]) /\ typed[q[i + 1].job] = 0
          /\ \A k \in 1 .. (i + 1) - 1 : q[k].job # q[i + 1].job
      BY <1>4, <3>1
    <3>3. q[i + 1].job # w
      <4>1. q[i + 1].job \in D!Job
        <5>1. q[i + 1] \in Event
          BY <3>1
        <5> QED
          BY <5>1 DEF Event
      <4>2. q[i + 1].job # e.job
        BY <1>3, <3>1, <3>2
      <4>3. q[i + 1].job # D!Nobody
        BY <4>1, Bounds DEF D!Job, D!Nobody
      <4> QED
        BY <2>2, <4>2, <4>3
    <3>4. ASSUME NEW k \in 1 .. i - 1 PROVE Tail(q)[k].job # q[i + 1].job
      BY <1>3, <2>3, <3>2, <3>4
    <3> QED
      BY <3>1, <3>2, <3>3, <3>4
  <2>4. PICK p : p = d_queue'[c]
    OBVIOUS
  <2>5. /\ p = Tail(q) /\ Len(p) = Len(q) - 1
        /\ job' = job /\ typed' = typed
    BY <1>2, <1>3, <1>9, <2>4
  <2>6. \A i \in 1 .. Len(p) :
           /\ job'[p[i].job] = IF p[i].ok THEN "completed" ELSE "failed"
           /\ typed'[p[i].job] = 0 /\ p[i].job # w
           /\ \A k \in 1 .. i - 1 : p[k].job # p[i].job
    BY <2>3, <2>5 DEF EventTrue
  <2> QED
    BY <2>1, <2>4, <2>6 DEF Ahead, EventTrue
<1>13. AtWork(c)'
  <2>1. CASE ~e.ok
    BY <1>2, <1>10, <2>1 DEF AtWork
  <2>2. CASE e.ok
    <3>1. work'[c].job = e.job /\ work'[c].todo = o /\ d_pc'[c] = "busy"
      BY <1>10, <2>2
    <3>2. kind'[e.job].outputs = o /\ job'[e.job] = "completed" /\ typed'[e.job] = 0
      BY <1>2, <1>3, <1>4, <1>5, <1>6, <2>2
    <3>3. /\ 0 \in 0 .. Len(o) /\ SubSeq(o, 0 + 1, Len(o)) = o /\ 0 <= Keys(o, 0)
          /\ 1 .. 0 = {}
      <4>1. SubSeq(o, 0 + 1, Len(o)) = o
        OBVIOUS
      <4>2. Keys(o, 0) \in Nat
        BY KeysGrow
      <4> QED
        BY <4>1, <4>2
    <3>4. InHand(c, 0)'
      BY <3>1, <3>2, <3>3 DEF InHand
    <3> QED
      BY <1>5, <3>1, <3>2, <3>3, <3>4 DEF AtWork
  <2> QED
    BY <2>1, <2>2
<1>14. EndedOnly'
  BY <1>2, <1>5 DEF DeliveryInv, EndedOnly
<1>15. D!IntentGuarded' /\ D!TypedOnce'
  BY <1>2 DEF DeliveryInv, D!IntentGuarded, D!TypedOnce, D!Foreground, D!Asked
<1>16. D!NothingSwallowed'
  <2>1. CASE e.ok
    BY <1>2, <2>1 DEF DeliveryInv, D!NothingSwallowed
  <2>2. CASE ~e.ok
    <3> SUFFICES ASSUME NEW i \in handled \union {e.job},
                        (\E k \in DOMAIN kind[i].outputs : kind[i].outputs[k] # "file")
                           \/ job[i] = "failed"
                 PROVE  typed[i] > 0 \/ i \in told' \union unheard' \/ \E k \in injected : k.job = i
      BY <1>2, <2>2 DEF D!NothingSwallowed
    <3>1. told \subseteq told' /\ unheard \subseteq unheard' /\ e.job \in told' \union unheard'
      BY <1>2, <2>2 DEF LogGrows
    <3> QED
      BY <3>1 DEF DeliveryInv, D!NothingSwallowed
  <2> QED
    BY <2>1, <2>2
<1> QED
  BY <1>2, <1>5, <1>8, <1>9, <1>11, <1>12, <1>13, <1>14, <1>15, <1>16,
     DeliveryConsumerSteps

(* What one output of the job j leaves: it may reach the clipboard for its *)
(* own entry or in place of the keystrokes, or be spoken of.               *)
Leaves(j, entry) ==
    /\ LogGrows(j)
    /\ \/ injected' = injected
       \/ \E w \in {"clipboard", "fallback"} :
             /\ injected' = injected \union {[job |-> j, why |-> w]}
             /\ w = "clipboard" => D!decide_clipboard(kind[j]) = "Inject"
    /\ entry = "file" \/ j \in told' \union unheard' \/ \E i \in injected' : i.job = j
    /\ d_faults' \in Nat

LEMMA FaultCounts ==
    ASSUME DeliveryTypes, D!Fault
    PROVE  d_faults' \in Nat /\ d_faults' # d_faults
BY DEF DeliveryTypes, D!Fault

LEMMA InjectIs ==
    ASSUME DeliveryTypes, NEW j, NEW w, D!Inject(j, w)
    PROVE  /\ d_faults' \in Nat
           /\ \/ injected' = injected \union {[job |-> j, why |-> w]}
              \/ injected' = injected /\ d_faults' # d_faults
<1>1. CASE injected' = injected \union {[job |-> j, why |-> w]} /\ d_faults' = d_faults
  BY <1>1 DEF DeliveryTypes
<1>2. CASE D!Fault /\ injected' = injected
  BY <1>2, FaultCounts
<1> QED
  BY <1>1, <1>2 DEF D!Inject

LEMMA ClipboardLeaves ==
    ASSUME DeliveryTypes, NEW j, D!ClipboardEntry(j)
    PROVE  Leaves(j, "clipboard")
<1>1. CASE /\ D!decide_clipboard(kind[j]) = "Inject" /\ D!Inject(j, "clipboard")
           /\ IF d_faults' # d_faults THEN D!Notify(j) ELSE D!Silent
  <2>1. /\ d_faults' \in Nat
        /\ \/ injected' = injected \union {[job |-> j, why |-> "clipboard"]}
           \/ injected' = injected /\ d_faults' # d_faults
    BY <1>1, InjectIs
  <2>2. CASE injected' = injected \union {[job |-> j, why |-> "clipboard"]}
    <3>1. [job |-> j, why |-> "clipboard"] \in injected'
      BY <2>2
    <3>2. LogGrows(j)
      BY <1>1, NotifyIs, SilentIs
    <3>3. \E i \in injected' : i.job = j
      BY <3>1
    <3> QED
      BY <1>1, <2>1, <2>2, <3>2, <3>3 DEF Leaves
  <2>3. CASE injected' = injected /\ d_faults' # d_faults
    BY <1>1, <2>1, <2>3, NotifyIs DEF Leaves
  <2> QED
    BY <2>1, <2>2, <2>3
<1>2. CASE D!Unreadable /\ D!Notify(j)
  <2>1. d_faults' \in Nat
    BY <1>2, FaultCounts DEF D!Unreadable
  <2> QED
    BY <1>2, <2>1, NotifyIs DEF Leaves, D!Unreadable
<1>3. CASE D!NoEffect /\ D!Notify(j)
  BY <1>3, NotifyIs DEF Leaves, D!NoEffect, DeliveryTypes
<1> QED
  BY <1>1, <1>2, <1>3 DEF D!ClipboardEntry

LEMMA FallbackLeaves ==
    ASSUME DeliveryTypes, NEW j, D!Inject(j, "fallback"), D!Notify(j)
    PROVE  Leaves(j, "type_at_cursor")
<1>1. /\ d_faults' \in Nat /\ LogGrows(j) /\ j \in told' \union unheard'
      /\ injected' = injected \/ injected' = injected \union {[job |-> j, why |-> "fallback"]}
  BY InjectIs, NotifyIs
<1>2. j \in told' \union unheard'
  BY <1>1
<1>3. \/ injected' = injected
      \/ \E w \in {"clipboard", "fallback"} :
             /\ injected' = injected \union {[job |-> j, why |-> w]}
             /\ w = "clipboard" => D!decide_clipboard(kind[j]) = "Inject"
  BY <1>1
<1> QED
  BY <1>1, <1>2, <1>3 DEF Leaves

LEMMA TypeLeaves ==
    ASSUME DeliveryTypes, NEW j, D!TypeEntryEnds(j)
    PROVE  Leaves(j, "type_at_cursor")
<1>1. CASE D!Inject(j, "fallback") /\ D!Notify(j)
  BY <1>1, FallbackLeaves
<1>2. CASE D!Unreadable /\ D!Notify(j)
  <2>1. d_faults' \in Nat
    BY <1>2, FaultCounts DEF D!Unreadable
  <2> QED
    BY <1>2, <2>1, NotifyIs DEF Leaves, D!Unreadable
<1>3. CASE D!NoEffect /\ D!Notify(j)
  BY <1>3, NotifyIs DEF Leaves, D!NoEffect, DeliveryTypes
<1> QED
  BY <1>1, <1>2, <1>3 DEF D!TypeEntryEnds

(* What is typed or copied is meant to be.                                 *)
LEMMA TypeIsMeant ==
    ASSUME NEW k \in Kinds
    PROVE  /\ D!decide_type(k) = "Type" => k.mode = "foreground" /\ k.bytes <= TYPE_MAX_BYTES
           /\ D!decide_clipboard(k) = "Inject" =>
                 k.mode = "foreground" /\ k.bytes <= CLIPBOARD_MAX_BYTES
<1>1. k.bytes \in Nat /\ TYPE_MAX_BYTES \in Nat /\ CLIPBOARD_MAX_BYTES \in Nat
  BY ClientAssumption
<1>2. ASSUME D!decide_type(k) = "Type"
      PROVE  k.mode = "foreground" /\ k.bytes <= TYPE_MAX_BYTES
  <2>1. k.mode = "foreground" /\ ~(k.bytes > TYPE_MAX_BYTES)
    BY <1>2 DEF D!decide_type
  <2> QED
    BY <1>1, <2>1
<1>3. ASSUME D!decide_clipboard(k) = "Inject"
      PROVE  k.mode = "foreground" /\ k.bytes <= CLIPBOARD_MAX_BYTES
  <2>1. k.mode = "foreground" /\ ~(k.bytes > CLIPBOARD_MAX_BYTES)
    BY <1>3 DEF D!decide_clipboard
  <2> QED
    BY <1>1, <2>1
<1> QED
  BY <1>2, <1>3

(* An output that leaves something, typed or not, keeps what was promised. *)
LEMMA LeavesKeep ==
    ASSUME DeliveryInv, NEW j \in D!Job, NEW entry, Leaves(j, entry), UNCHANGED kind
    PROVE  /\ told' \subseteq D!Job /\ unheard' \subseteq D!Job /\ d_faults' \in Nat
           /\ injected' \subseteq [job : D!Job, why : {"clipboard", "fallback"}]
           /\ told \subseteq told' /\ unheard \subseteq unheard' /\ injected \subseteq injected'
           /\ \A i \in injected' : i.why = "clipboard" =>
                 D!Foreground(i.job) /\ kind[i.job].bytes <= CLIPBOARD_MAX_BYTES
<1>1. /\ told' \subseteq D!Job /\ unheard' \subseteq D!Job /\ d_faults' \in Nat
      /\ told \subseteq told' /\ unheard \subseteq unheard'
  BY DEF Leaves, LogGrows, DeliveryInv, DeliveryTypes
<1>2. /\ injected \subseteq [job : D!Job, why : {"clipboard", "fallback"}]
      /\ \A i \in injected : i.why = "clipboard" =>
            D!Foreground(i.job) /\ kind[i.job].bytes <= CLIPBOARD_MAX_BYTES
  BY DEF DeliveryInv, DeliveryTypes, D!IntentGuarded
<1>3. CASE injected' = injected
  BY <1>1, <1>2, <1>3
<1>4. ASSUME NEW w \in {"clipboard", "fallback"},
             injected' = injected \union {[job |-> j, why |-> w]},
             w = "clipboard" => D!decide_clipboard(kind[j]) = "Inject"
      PROVE  /\ injected' \subseteq [job : D!Job, why : {"clipboard", "fallback"}]
             /\ injected \subseteq injected'
             /\ \A i \in injected' : i.why = "clipboard" =>
                   D!Foreground(i.job) /\ kind[i.job].bytes <= CLIPBOARD_MAX_BYTES
  <2>1. kind[j] \in Kinds
    BY DEF DeliveryInv, DeliveryTypes
  <2>2. w = "clipboard" => D!Foreground(j) /\ kind[j].bytes <= CLIPBOARD_MAX_BYTES
    BY <1>4, <2>1, TypeIsMeant DEF D!Foreground
  <2>3. PICK r : r = [job |-> j, why |-> w]
    OBVIOUS
  <2>4. /\ r \in [job : D!Job, why : {"clipboard", "fallback"}]
        /\ r.job = j /\ r.why = w
    BY <1>4, <2>3
  <2>5. injected' = injected \union {r}
    BY <1>4, <2>3
  <2> QED
    BY <1>2, <2>2, <2>4, <2>5
<1> QED
  BY <1>1, <1>3, <1>4 DEF Leaves

(* Of the job in hand, what comes next.                                    *)
LEMMA NextEntry ==
    ASSUME DeliveryInv, NEW c \in Consumer, d_pc[c] \in {"busy", "typing"},
           work[c].todo # << >>
    PROVE  \E n \in Nat : \E o \in Seq(Output) :
              /\ o = kind[work[c].job].outputs /\ InHand(c, n) /\ n \in 0 .. Len(o)
              /\ n + 1 \in 0 .. Len(o) /\ n + 1 \in 1 .. Len(o)
              /\ D!Entry(c) = o[n + 1] /\ o[n + 1] \in Output
              /\ Tail(work[c].todo) = SubSeq(o, n + 1 + 1, Len(o))
              /\ Tail(work[c].todo) \in Seq(Output)
<1>1. PICK j \in D!Job : j = work[c].job
  BY DEF DeliveryInv, AtWork
<1>2. PICK n \in 0 .. Len(kind[j].outputs) : InHand(c, n)
  BY <1>1 DEF DeliveryInv, AtWork
<1>3. PICK o \in Seq(Output) : o = kind[j].outputs
  BY ClientAssumption DEF DeliveryInv, DeliveryTypes
<1>4. work[c].todo = SubSeq(o, n + 1, Len(o))
  BY <1>1, <1>2, <1>3 DEF InHand
<1>5. /\ n + 1 \in 0 .. Len(o) /\ n + 1 \in 1 .. Len(o) /\ n \in Nat /\ n \in 0 .. Len(o)
      /\ Head(work[c].todo) = o[n + 1] /\ o[n + 1] \in Output
      /\ Tail(work[c].todo) = SubSeq(o, n + 1 + 1, Len(o))
      /\ Tail(work[c].todo) \in Seq(Output)
  <2>1. n \in 0 .. Len(o)
    BY <1>2, <1>3
  <2> QED
    BY <1>4, <2>1, TodoIs
<1> QED
  BY <1>1, <1>2, <1>3, <1>5 DEF D!Entry

(* The consumer is through with one output.                                *)
LEMMA EntryDone ==
    ASSUME DeliveryInv, NEW c \in Consumer, NEW j \in D!Job, j = work[c].job,
           d_pc[c] \in {"busy", "typing"}, work[c].todo # << >>,
           UNCHANGED <<kind, job, waiter, inbox, wtype, owner, d_queue, handled>>,
           d_pc' = [d_pc EXCEPT ![c] = "busy"],
           work' = [work EXCEPT ![c].todo = Tail(@)],
           told' \subseteq D!Job, told \subseteq told',
           unheard' \subseteq D!Job, unheard \subseteq unheard', d_faults' \in Nat,
           injected' \subseteq [job : D!Job, why : {"clipboard", "fallback"}],
           injected \subseteq injected',
           \A i \in injected' : i.why = "clipboard" =>
               D!Foreground(i.job) /\ kind[i.job].bytes <= CLIPBOARD_MAX_BYTES,
           \/ typed' = typed
           \/ /\ typed' = [typed EXCEPT ![j] = @ + 1]
              /\ D!Entry(c) = "type_at_cursor" /\ D!decide_type(kind[j]) = "Type",
           D!Entry(c) = "file" \/ Spoken(j)'
    PROVE  DeliveryInv'
<1>1. PICK n \in Nat, o \in Seq(Output) :
         /\ o = kind[j].outputs /\ InHand(c, n) /\ n \in 0 .. Len(o)
         /\ n + 1 \in 0 .. Len(o) /\ n + 1 \in 1 .. Len(o)
         /\ D!Entry(c) = o[n + 1] /\ o[n + 1] \in Output
         /\ Tail(work[c].todo) = SubSeq(o, n + 1 + 1, Len(o))
         /\ Tail(work[c].todo) \in Seq(Output)
  BY NextEntry
<1>2. /\ owner = c /\ job[j] = "completed" /\ kind[j] \in Kinds
      /\ work \in [Consumer -> [job : D!Job \union {D!Nobody}, todo : Seq(Output)]]
      /\ typed \in [D!Job -> Nat]
  BY DEF DeliveryInv, DeliveryTypes, Owns, AtWork
<1>3. /\ work'[c].job = j /\ work'[c].todo = SubSeq(o, n + 1 + 1, Len(o))
      /\ \A x \in Consumer : x # c => work'[x] = work[x]
      /\ work' \in [Consumer -> [job : D!Job \union {D!Nobody}, todo : Seq(Output)]]
  <2>1. PICK J : J = D!Job \union {D!Nobody}
    OBVIOUS
  <2>2. PICK B : B = Seq(Output)
    OBVIOUS
  <2>3. PICK t \in B : t = Tail(work[c].todo)
    BY <1>1, <2>2
  <2>4. PICK v \in [job : J, todo : B] : v = work[c]
    BY <1>2, <2>1, <2>2
  <2>5. PICK r \in [job : J, todo : B] : r = [v EXCEPT !.todo = t]
    OBVIOUS
  <2>6. r.job = v.job /\ r.todo = t
    BY <2>5
  <2>7. work \in [Consumer -> [job : J, todo : B]] /\ work' = [work EXCEPT ![c] = r]
    BY <1>2, <2>1, <2>2, <2>3, <2>4, <2>5
  <2>8. /\ work'[c] = r /\ \A x \in Consumer : x # c => work'[x] = work[x]
        /\ work' \in [Consumer -> [job : J, todo : B]]
    BY <2>7
  <2> QED
    BY <1>1, <2>1, <2>2, <2>3, <2>4, <2>6, <2>8
<1>4. /\ d_pc'[c] = "busy" /\ \A x \in Consumer : x # c => d_pc'[x] = d_pc[x]
      /\ d_pc' \in [Consumer -> {"off", "claimed", "idle", "busy", "typing"}]
  BY DEF DeliveryInv, DeliveryTypes
<1>5. /\ typed' \in [D!Job -> Nat] /\ \A i \in D!Job : i # j => typed'[i] = typed[i]
      /\ typed'[j] \in Nat /\ typed[j] \in Nat
      /\ typed'[j] = typed[j] \/ (typed'[j] = typed[j] + 1 /\ o[n + 1] = "type_at_cursor"
                                  /\ D!decide_type(kind[j]) = "Type")
  <2>1. CASE typed' = typed
    BY <1>2, <2>1
  <2>2. CASE /\ typed' = [typed EXCEPT ![j] = @ + 1]
             /\ D!Entry(c) = "type_at_cursor" /\ D!decide_type(kind[j]) = "Type"
    <3>1. PICK k \in Nat : k = typed[j]
      BY <1>2
    <3>2. typed' = [typed EXCEPT ![j] = k + 1] /\ k + 1 \in Nat
      BY <2>2, <3>1
    <3>3. /\ typed' \in [D!Job -> Nat] /\ typed'[j] = k + 1
          /\ \A i \in D!Job : i # j => typed'[i] = typed[i]
      BY <1>2, <3>2
    <3> QED
      BY <1>1, <2>2, <3>1, <3>2, <3>3
  <2> QED
    BY <2>1, <2>2
<1>6. DeliveryTypes'
  BY <1>3, <1>4, <1>5 DEF DeliveryInv, DeliveryTypes
<1>7. typed[j] <= Keys(o, n) /\ \A i \in 1 .. n : o[i] # "file" => Spoken(j)
  BY <1>1 DEF InHand
<1>8. /\ Keys(o, n) \in Nat /\ Keys(o, n + 1) \in Nat /\ Keys(o, n) <= Keys(o, n + 1)
      /\ o[n + 1] = "type_at_cursor" => Keys(o, n + 1) = Keys(o, n) + 1
  BY <1>1, KeysGrow
<1>9. typed'[j] <= Keys(o, n + 1)
  <2>1. CASE typed'[j] = typed[j]
    BY <1>5, <1>7, <1>8, <2>1
  <2>2. CASE typed'[j] = typed[j] + 1 /\ Keys(o, n + 1) = Keys(o, n) + 1
    BY <1>5, <1>7, <1>8, <2>2
  <2> QED
    BY <1>5, <1>8, <2>1, <2>2
<1>10. Spoken(j) => Spoken(j)'
  <2>1. typed[j] > 0 => typed'[j] > 0
    BY <1>5
  <2> QED
    BY <2>1 DEF Spoken
<1>11. \A i \in 1 .. n + 1 : o[i] # "file" => Spoken(j)'
  <2> SUFFICES ASSUME NEW i \in 1 .. n + 1, o[i] # "file" PROVE Spoken(j)'
    OBVIOUS
  <2>1. CASE i \in 1 .. n
    BY <1>7, <1>10, <2>1
  <2>2. CASE i = n + 1
    BY <1>1, <2>2
  <2> QED
    BY <1>1, <2>1, <2>2
<1>12. InHand(c, n + 1)'
  BY <1>1, <1>3, <1>9, <1>11 DEF InHand
<1>13. Owns(c)' /\ AtWork(c)'
  <2>1. \E m \in 0 .. Len(kind'[work'[c].job].outputs) : InHand(c, m)'
    BY <1>1, <1>3, <1>12
  <2> QED
    BY <1>2, <1>3, <1>4, <2>1 DEF Owns, AtWork
<1>14. Ahead(c)'
  <2>1. Ahead(c) /\ d_queue[c] \in Seq(Event)
    BY DEF DeliveryInv, DeliveryTypes
  <2>2. ASSUME NEW i \in 1 .. Len(d_queue[c])
        PROVE  typed'[d_queue[c][i].job] = 0 /\ d_queue[c][i].job # work'[c].job
    <3>1. /\ d_queue[c][i].job # j /\ typed[d_queue[c][i].job] = 0
          /\ d_queue[c][i] \in Event
      BY <2>1, <2>2 DEF Ahead
    <3> QED
      BY <1>3, <1>5, <3>1 DEF Event
  <2> QED
    BY <2>1, <2>2 DEF Ahead, EventTrue
<1>15. EndedOnly'
  BY <1>2, <1>5 DEF DeliveryInv, EndedOnly
<1>16. D!IntentGuarded'
  <2>1. ASSUME NEW i \in D!Job, typed'[i] > 0
        PROVE  kind[i].mode = "foreground" /\ kind[i].bytes <= TYPE_MAX_BYTES
    <3>1. CASE typed'[i] = typed[i]
      BY <2>1, <3>1 DEF DeliveryInv, D!IntentGuarded, D!Foreground
    <3>2. CASE i = j /\ D!decide_type(kind[j]) = "Type"
      BY <1>2, <3>2, TypeIsMeant
    <3> QED
      BY <1>5, <2>1, <3>1, <3>2
  <2> QED
    BY <2>1 DEF D!IntentGuarded, D!Foreground
<1>17. D!TypedOnce'
  <2>1. Keys(o, n + 1) <= D!Asked(j) /\ D!Asked(j) \in Nat
    BY <1>1, KeysAsked
  <2>2. typed'[j] <= D!Asked(j)
    BY <1>5, <1>8, <1>9, <2>1
  <2>3. ASSUME NEW i \in D!Job PROVE typed'[i] <= D!Asked(i)
    BY <1>5, <2>2 DEF DeliveryInv, D!TypedOnce
  <2>4. \A i \in D!Job : D!Asked(i)' = D!Asked(i)
    BY DEF D!Asked
  <2> QED
    BY <2>3, <2>4 DEF D!TypedOnce
<1>18. D!NothingSwallowed'
  <2> SUFFICES ASSUME NEW i \in handled,
                      (\E k \in DOMAIN kind[i].outputs : kind[i].outputs[k] # "file")
                         \/ job[i] = "failed"
               PROVE  typed'[i] > 0 \/ i \in told' \union unheard' \/ \E k \in injected' : k.job = i
    BY DEF D!NothingSwallowed
  <2>1. typed[i] > 0 \/ i \in told \union unheard \/ \E k \in injected : k.job = i
    BY DEF DeliveryInv, D!NothingSwallowed
  <2>2. i \in D!Job /\ (typed[i] > 0 => typed'[i] > 0)
    BY <1>5 DEF DeliveryInv, DeliveryTypes
  <2> QED
    BY <2>1, <2>2
<1> QED
  BY <1>2, <1>3, <1>4, <1>6, <1>13, <1>14, <1>15, <1>16, <1>17, <1>18,
     DeliveryConsumerSteps

LEMMA DeliveryDeliver ==
    ASSUME DeliveryInv, NEW c \in Consumer, D!Deliver(c)
    PROVE  DeliveryInv'
<1>1. /\ d_pc[c] = "busy" /\ work[c].todo # << >>
      /\ UNCHANGED <<kind, job, waiter, inbox, wtype, owner, d_queue, typed, handled>>
  BY DEF D!Deliver, D!jobVars
<1>2. PICK j \in D!Job : j = work[c].job
  BY <1>1 DEF DeliveryInv, AtWork
<1>3. DeliveryTypes
  BY DEF DeliveryInv
<1>4. CASE /\ \/ D!Entry(c) = "file" /\ D!NoEffect /\ D!Silent
              \/ D!Entry(c) = "notification" /\ D!NoEffect /\ D!Notify(j)
              \/ D!Entry(c) = "clipboard" /\ D!ClipboardEntry(j)
              \/ D!Entry(c) = "type_at_cursor" /\ D!TypeEntryEnds(j)
           /\ work' = [work EXCEPT ![c].todo = Tail(@)]
           /\ UNCHANGED d_pc
  <2>1. Leaves(j, D!Entry(c))
    <3>1. CASE D!Entry(c) = "file" /\ D!NoEffect /\ D!Silent
      BY <1>3, <3>1, SilentIs DEF Leaves, D!NoEffect, DeliveryTypes
    <3>2. CASE D!Entry(c) = "notification" /\ D!NoEffect /\ D!Notify(j)
      BY <1>3, <3>2, NotifyIs DEF Leaves, D!NoEffect, DeliveryTypes
    <3>3. CASE D!Entry(c) = "clipboard" /\ D!ClipboardEntry(j)
      BY <1>3, <3>3, ClipboardLeaves
    <3>4. CASE D!Entry(c) = "type_at_cursor" /\ D!TypeEntryEnds(j)
      BY <1>3, <3>4, TypeLeaves
    <3> QED
      BY <1>4, <3>1, <3>2, <3>3, <3>4
  <2>2. d_pc' = [d_pc EXCEPT ![c] = "busy"]
    BY <1>1, <1>3, <1>4 DEF DeliveryTypes
  <2>3. D!Entry(c) = "file" \/ Spoken(j)'
    BY <2>1 DEF Leaves, Spoken
  <2> QED
    BY <1>1, <1>2, <1>4, <2>1, <2>2, <2>3, LeavesKeep, EntryDone
<1>5. CASE /\ D!Entry(c) = "type_at_cursor" /\ wtype /\ D!decide_type(kind[j]) = "Type"
           /\ d_pc' = [d_pc EXCEPT ![c] = "typing"]
           /\ D!NoEffect /\ D!Silent /\ UNCHANGED work
  <2>1. UNCHANGED Effects /\ d_faults' = d_faults
    BY <1>1, <1>5 DEF Effects, D!NoEffect, D!Silent
  <2>2. DeliveryTypes'
    BY <1>1, <1>5, <2>1 DEF DeliveryInv, DeliveryTypes, Effects
  <2>3. /\ d_pc'[c] = "typing" /\ \A x \in Consumer : x # c => d_pc'[x] = d_pc[x]
    BY <1>5 DEF DeliveryInv, DeliveryTypes
  <2>4. owner = c /\ Owns(c)' /\ Ahead(c)'
    BY <1>1, <1>5, <2>1, <2>3 DEF DeliveryInv, Owns, Ahead, EventTrue, Effects
  <2>5. \A n : InHand(c, n)' <=> InHand(c, n)
    BY <1>1, <1>5, <2>1 DEF InHand, Spoken, Effects
  <2>6. D!decide_type(kind[work[c].job])' = "Type" /\ Head(work'[c].todo) = "type_at_cursor"
    BY <1>1, <1>2, <1>5 DEF D!decide_type, D!Entry
  <2>7. AtWork(c)'
    BY <1>1, <1>5, <2>3, <2>5, <2>6 DEF DeliveryInv, AtWork
  <2> QED
    BY <1>1, <1>5, <2>1, <2>2, <2>3, <2>4, <2>7, EffectsSame, DeliveryConsumerSteps
<1> QED
  BY <1>2, <1>4, <1>5 DEF D!Deliver

LEMMA DeliveryWtypeEnds ==
    ASSUME DeliveryInv, NEW c \in Consumer, D!WtypeEnds(c)
    PROVE  DeliveryInv'
<1>1. /\ d_pc[c] = "typing" /\ work' = [work EXCEPT ![c].todo = Tail(@)]
      /\ d_pc' = [d_pc EXCEPT ![c] = "busy"]
      /\ UNCHANGED <<kind, job, waiter, inbox, wtype, owner, d_queue, handled>>
  BY DEF D!WtypeEnds, D!jobVars
<1>2. PICK j \in D!Job : j = work[c].job
  BY <1>1 DEF DeliveryInv, AtWork
<1>3. /\ DeliveryTypes /\ work[c].todo # << >> /\ D!Entry(c) = "type_at_cursor"
      /\ D!decide_type(kind[j]) = "Type"
  BY <1>1, <1>2 DEF DeliveryInv, AtWork, D!Entry
<1>4. CASE typed' = [typed EXCEPT ![j] = @ + 1] /\ D!NoEffect /\ D!Silent
  <2>1. injected' = injected /\ told' = told /\ unheard' = unheard /\ d_faults' = d_faults
    BY <1>4 DEF D!NoEffect, D!Silent
  <2>2. /\ told' \subseteq D!Job /\ unheard' \subseteq D!Job /\ d_faults' \in Nat
        /\ injected' \subseteq [job : D!Job, why : {"clipboard", "fallback"}]
    BY <1>3, <2>1 DEF DeliveryTypes
  <2>3. \A i \in injected' : i.why = "clipboard" =>
            D!Foreground(i.job) /\ kind[i.job].bytes <= CLIPBOARD_MAX_BYTES
    BY <2>1 DEF DeliveryInv, D!IntentGuarded
  <2>4. Spoken(j)'
    <3>1. typed'[j] = typed[j] + 1 /\ typed[j] \in Nat
      BY <1>3, <1>4 DEF DeliveryTypes
    <3>2. typed'[j] > 0
      BY <3>1
    <3> QED
      BY <3>2 DEF Spoken
  <2> QED
    BY <1>1, <1>2, <1>3, <1>4, <2>1, <2>2, <2>3, <2>4, EntryDone
<1>5. CASE D!Inject(j, "fallback") /\ D!Notify(j) /\ UNCHANGED typed
  <2>1. Leaves(j, "type_at_cursor")
    BY <1>3, <1>5, FallbackLeaves
  <2>2. Spoken(j)'
    BY <2>1 DEF Leaves, Spoken
  <2> QED
    BY <1>1, <1>2, <1>3, <1>5, <2>1, <2>2, LeavesKeep, EntryDone
<1> QED
  BY <1>2, <1>4, <1>5 DEF D!WtypeEnds

LEMMA DeliveryStep == DeliveryInv /\ [D!Next]_(D!vars) => DeliveryInv'
<1> SUFFICES ASSUME DeliveryInv, [D!Next]_(D!vars) PROVE DeliveryInv'
  OBVIOUS
<1>1. ASSUME NEW j \in D!Job,
             D!Submit(j) \/ D!JobEnds(j) \/ D!WaitTakes(j) \/ D!WaitEnds(j)
      PROVE  DeliveryInv'
  BY <1>1, DeliverySubmit, DeliveryJobEnds, DeliveryWaitTakes, DeliveryWaitEnds
<1>2. ASSUME D!DaemonDies PROVE DeliveryInv'
  BY <1>2, DeliveryDaemonDies
<1>3. ASSUME NEW c \in Consumer, D!Launch(c) \/ D!Consumer(c) \/ D!ConsumerDies(c)
      PROVE  DeliveryInv'
  BY <1>3, DeliveryLaunch, DeliverySubscribe, DeliveryTake, DeliveryDeliver,
     DeliveryWtypeEnds, DeliveryDone, DeliveryConsumerDies DEF D!Consumer
<1>4. ASSUME UNCHANGED D!vars PROVE DeliveryInv'
  <2>1. /\ UNCHANGED <<kind, job, waiter, inbox, wtype, owner, d_pc, d_queue, work>>
        /\ UNCHANGED <<typed, injected, told, unheard, handled, d_faults>>
    BY <1>4 DEF D!vars, D!jobVars, D!consumerVars, D!effects
  <2>2. OutcomesStay /\ DeliveryTypes'
    BY <2>1 DEF OutcomesStay, DeliveryInv, DeliveryTypes
  <2>3. (\A i \in D!Job : InboxTrue(i)') /\ (\A c \in Consumer : Ahead(c)')
    BY <2>1, <2>2, DeliverySilent
  <2>4. D!WaiterTellsOutcome'
    BY <2>1 DEF DeliveryInv, D!WaiterTellsOutcome
  <2> QED
    BY <2>1, <2>2, <2>3, <2>4, DeliveryQueueSteps
<1> QED
  BY <1>1, <1>2, <1>3, <1>4 DEF D!Next, Consumer

LEMMA DeliveryInit ==
    ASSUME D!Init
    PROVE  DeliveryInv
<1>1. << >> \in Seq(Event) /\ << >> \in Seq(Output) /\ Len(<< >>) = 0
  OBVIOUS
<1>2. /\ kind \in [D!Job -> Kinds] /\ wtype \in BOOLEAN /\ owner = D!Nobody
      /\ job = [j \in D!Job |-> "none"] /\ waiter = [j \in D!Job |-> "none"]
      /\ inbox = [j \in D!Job |-> << >>] /\ d_pc = [c \in Consumer |-> "off"]
      /\ d_queue = [c \in Consumer |-> << >>]
      /\ work = [c \in Consumer |-> [job |-> D!Nobody, todo |-> << >>]]
      /\ typed = [j \in D!Job |-> 0] /\ injected = {} /\ told = {} /\ handled = {}
      /\ unheard = {} /\ d_faults = 0
  BY DEF D!Init, Consumer
<1>3. DeliveryTypes
  <2>1. [job |-> D!Nobody, todo |-> << >>] \in [job : D!Job \union {D!Nobody}, todo : Seq(Output)]
    BY <1>1
  <2>2. work \in [Consumer -> [job : D!Job \union {D!Nobody}, todo : Seq(Output)]]
    BY <1>2, <2>1
  <2>3. inbox \in [D!Job -> Seq(Event)] /\ d_queue \in [Consumer -> Seq(Event)]
    BY <1>1, <1>2
  <2> QED
    BY <1>2, <2>2, <2>3 DEF DeliveryTypes
<1>4. \A j \in D!Job : typed[j] = 0 /\ Len(inbox[j]) = 0 /\ waiter[j] = "none"
  BY <1>1, <1>2
<1>5. EndedOnly /\ D!IntentGuarded /\ D!NothingSwallowed /\ D!WaiterTellsOutcome
  BY <1>2, <1>4 DEF EndedOnly, D!IntentGuarded, D!NothingSwallowed, D!WaiterTellsOutcome
<1>6. D!TypedOnce
  <2> SUFFICES ASSUME NEW j \in D!Job PROVE 0 <= D!Asked(j)
    BY <1>4 DEF D!TypedOnce
  <2>1. kind[j].outputs \in Seq(Output)
    BY <1>2, ClientAssumption
  <2>2. Len(kind[j].outputs) \in 0 .. Len(kind[j].outputs)
    BY <2>1
  <2>3. D!Asked(j) \in Nat
    BY <2>1, <2>2, KeysAsked
  <2> QED
    BY <2>3
<1>7. \A j \in D!Job : InboxTrue(j)
  BY <1>4 DEF InboxTrue
<1>8. ASSUME NEW c \in Consumer PROVE Owns(c) /\ Ahead(c) /\ AtWork(c)
  <2>1. /\ d_pc[c] = "off" /\ d_queue[c] = << >> /\ work[c].job = D!Nobody
        /\ Len(d_queue[c]) = 0
    BY <1>1, <1>2, <1>8
  <2> QED
    BY <2>1 DEF Owns, Ahead, AtWork
<1> QED
  BY <1>3, <1>5, <1>6, <1>7, <1>8 DEF DeliveryInv

LEMMA DeliveryKept ==
    ASSUME DeliveryInv
    PROVE  /\ D!TypeOK /\ D!IntentGuarded /\ D!TypedOnce /\ D!NothingSwallowed
           /\ D!WaiterTellsOutcome
<1>1. D!TypeOK
  <2>1. \A c \in Consumer : d_pc[c] = "typing" => work[c].todo # << >>
    BY DEF DeliveryInv, AtWork
  <2> QED
    BY <2>1 DEF DeliveryInv, DeliveryTypes, D!TypeOK, Consumer
<1> QED
  BY <1>1 DEF DeliveryInv

-----------------------------------------------------------------------------
(* The command line: the part that runs keeps its invariant, the others do *)
(* not move.                                                               *)

Inv == RecordInv /\ WatchInv /\ DeliveryInv

(* A part that does not run leaves its variables alone.                    *)
LEMMA PartSteps ==
    ASSUME [Next]_vars
    PROVE  [R!Next]_(R!vars) /\ [W!Next]_(W!vars) /\ [D!Next]_(D!vars)
<1>1. /\ R!Next \/ UNCHANGED rvars
      /\ W!Next \/ UNCHANGED wvars
      /\ D!Next \/ UNCHANGED dvars
  BY DEF Next, vars
<1>2. /\ UNCHANGED rvars => UNCHANGED R!vars
      /\ UNCHANGED wvars => UNCHANGED W!vars
      /\ UNCHANGED dvars => UNCHANGED D!vars
  BY DEF rvars, wvars, dvars, R!vars, R!daemonVars, R!clientVars, W!vars, W!daemonVars, W!watchVars,
         D!vars, D!jobVars, D!consumerVars, D!effects
<1> QED
  BY <1>1, <1>2

LEMMA InvHolds == Spec => []Inv
<1>1. Init => Inv
  BY RecordInit, WatchInit, DeliveryInit DEF Init, Inv
<1>2. Inv /\ [Next]_vars => Inv'
  BY PartSteps, RecordStep, WatchStep, DeliveryStep DEF Inv
<1> QED
  BY <1>1, <1>2, PTL DEF Spec

(* Whatever the daemon does meanwhile, over any number of sessions and     *)
(* crashes: the exit code of `record` is the outcome of its own session, a *)
(* watch that has caught up shows whether a recording runs, and every      *)
(* failure gets a line (record.rs, status.rs).                             *)
THEOREM ClientsAreTold == Spec => []ClientsTell
<1>1. Inv => ClientsTell
  BY RecordKept, WatchKept DEF Inv, ClientsTell
<1> QED
  BY <1>1, InvHolds, PTL

(* For any number of jobs and consumers, whenever they die: only a         *)
(* foreground job of fitting size is typed, or copied for an entry that    *)
(* asks for the clipboard, no output is typed twice, a handled job left a  *)
(* trace unless its notification failed, and a waiting command reports its *)
(* own job (deliver/mod.rs, sink.rs, transcribe.rs).  (In place of refused *)
(* keystrokes any job may be copied.)                                      *)
THEOREM DeliveryIsGuarded == Spec => []DeliveryGuarded
<1>1. Inv => DeliveryGuarded
  BY DeliveryKept DEF Inv, DeliveryGuarded
<1> QED
  BY <1>1, InvHolds, PTL

=============================================================================
