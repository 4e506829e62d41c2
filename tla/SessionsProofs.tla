--------------------------- MODULE SessionsProofs ---------------------------
(***************************************************************************)
(* Proofs about Sessions, for every set of sessions, with and without I/O  *)
(* failures and SIGTERM: type correctness, who owns the slot and the stop  *)
(* hook, that an acknowledged stop was delivered, that the daemon          *)
(* implements the single-session policy, that a clean shutdown leaves no   *)
(* session behind, that the signals of a session come in order, and that   *)
(* the state files are written in the order StateFiles promises.           *)
(***************************************************************************)
EXTENDS Sessions, SequenceTheorems, TLAPS

-----------------------------------------------------------------------------
(* Type correctness *)

(* A write stores the new value or leaves the old one.                     *)
LEMMA WrittenType ==
    ASSUME NEW S, NEW old \in S, NEW new \in S
    PROVE  Written(old, new) \subseteq S
BY DEF Written

LEMMA TypeInit == Init => TypeOK
<1> SUFFICES ASSUME Init PROVE TypeOK
  OBVIOUS
<1>1. sent \in [Session -> Seq(Signal)]
  BY DEF Init
<1>2. lastFile \in [id : Session \union {NoSession}, full : BOOLEAN]
  BY DEF Init, NoLast
<1> QED
  BY <1>1, <1>2 DEF Init, TypeOK, Pc, Outcome, RxState, MainPc

LEMMA TypeStep == TypeOK /\ [Next]_vars => TypeOK'
<1> SUFFICES ASSUME TypeOK, [Next]_vars
             PROVE  TypeOK'
  OBVIOUS
<1> USE SessionAssumption
    DEF TypeOK, Pc, HandlerPc, LifecyclePc, Outcome, RxState, Signal, MainPc,
        vars, slotVars, fileVars, taskVars, mainVars
<1>1. ASSUME NEW s \in Session, BeginStart(s) PROVE TypeOK'
  BY <1>1 DEF BeginStart, Goto
<1>2. ASSUME NEW s \in Session, Admit(s) PROVE TypeOK'
  <2>1. CASE /\ Goto(s, "queued", "refused")
             /\ UNCHANGED <<startLock, slotVars, auto>>
    BY <1>2, <2>1 DEF Admit, Goto
  <2>2. CASE /\ Goto(s, "queued", "reserved")
             /\ startLock' = s /\ slot' = s /\ hook' = NoSession
             /\ auto' \in {auto, auto \union {s}}
    BY <1>2, <2>2 DEF Admit, Goto
  <2> QED
    BY <1>2, <2>1, <2>2 DEF Admit
<1>3. ASSUME NEW s \in Session, Announce(s) PROVE TypeOK'
  <2>1. CASE Goto(s, "reserved", "announced")
    <3>1. Emit(s, "starting") /\ UNCHANGED <<startLock, slotVars, stop, acked,
            auto, outcome, rx, fileVars, taskVars, mainVars>>
      BY <1>3, <2>1 DEF Announce, Goto
    <3> QED
      BY <2>1, <3>1 DEF Emit, Goto
  <2>2. CASE Goto(s, "reserved", "refused")
    <3>1. startLock' = NoSession /\ release /\ UNCHANGED <<stop, acked, auto,
            outcome, rx, sent, fileVars, taskVars, mainVars>>
      BY <1>3, <2>2 DEF Announce, Goto
    <3> QED
      BY <2>2, <3>1 DEF release, Goto
  <2> QED
    BY <1>3, <2>1, <2>2 DEF Announce
<1>4. ASSUME NEW s \in Session, StartRecorder(s) PROVE TypeOK'
  <2>1. CASE Goto(s, "announced", "started") /\ UNCHANGED slotVars
    BY <1>4, <2>1 DEF StartRecorder, Goto
  <2>2. CASE Goto(s, "announced", "failing") /\ release
    BY <1>4, <2>2 DEF StartRecorder, Goto, release
  <2> QED
    BY <1>4, <2>1, <2>2 DEF StartRecorder
<1>5. ASSUME NEW s \in Session, EmitStartFailed(s) PROVE TypeOK'
  BY <1>5 DEF EmitStartFailed, Goto, Emit
<1>6. ASSUME NEW s \in Session, WriteActiveSession(s) PROVE TypeOK'
  BY <1>6 DEF WriteActiveSession, Goto, Written
<1>7. ASSUME NEW s \in Session, EmitRecording(s) PROVE TypeOK'
  BY <1>7 DEF EmitRecording, Goto, Emit
<1>8. ASSUME NEW s \in Session, SpawnLifecycle(s) PROVE TypeOK'
  BY <1>8 DEF SpawnLifecycle, Goto
<1>9. ASSUME NEW s \in Session, StopRecording(s) PROVE TypeOK'
  BY <1>9 DEF StopRecording
<1>10. ASSUME NEW s \in Session, BusStop(s) PROVE TypeOK'
  BY <1>10 DEF BusStop
<1>11. ASSUME NEW s \in Session, NoticeStop(s) PROVE TypeOK'
  BY <1>11 DEF NoticeStop, Goto
<1>12. ASSUME NEW s \in Session, Drained(s) PROVE TypeOK'
  <2> DEFINE Rest == UNCHANGED <<startLock, stop, acked, auto, rx, sent,
                                 fileVars, taskVars, mainVars>>
  <2>1. ASSUME NEW to \in Pc, NEW o \in Outcome, Goto(s, "draining", to),
               outcome' = [outcome EXCEPT ![s] = o], UNCHANGED slotVars \/ release,
               Rest
        PROVE  TypeOK'
    BY <2>1 DEF Goto, release
  <2> QED
    BY <1>12, <2>1 DEF Drained
<1>13. ASSUME NEW s \in Session, EmitStopping(s) PROVE TypeOK'
  BY <1>13 DEF EmitStopping, Goto, Emit
<1>14. ASSUME NEW s \in Session, PersistAudioOnly(s) PROVE TypeOK'
  <2> DEFINE LastImage == [id : Session \union {NoSession}, full : BOOLEAN]
             new == [id |-> s, full |-> FALSE]
  <2>1. new \in LastImage /\ lastFile \in LastImage
    OBVIOUS
  <2>2. Written(lastFile, new) \subseteq LastImage
    <3> HIDE DEF LastImage, new
    <3> QED
      BY <2>1, WrittenType, Zenon
  <2>3. lastFile' \in LastImage
    BY <1>14, <2>2 DEF PersistAudioOnly
  <2> QED
    BY <1>14, <2>3 DEF PersistAudioOnly, Goto
<1>15. ASSUME NEW s \in Session, EmitRecordingComplete(s) PROVE TypeOK'
  BY <1>15 DEF EmitRecordingComplete, Goto, Emit
<1>16. ASSUME NEW s \in Session, ReleaseSlot(s) PROVE TypeOK'
  BY <1>16 DEF ReleaseSlot, Goto, release
<1>17. ASSUME NEW s \in Session, RecordHistory(s) PROVE TypeOK'
  BY <1>17 DEF RecordHistory, Goto
<1>18. ASSUME NEW s \in Session, SubmitAuto(s) PROVE TypeOK'
  BY <1>18 DEF SubmitAuto, Goto
<1>19. ASSUME NEW s \in Session, AwaitJob(s) PROVE TypeOK'
  BY <1>19 DEF AwaitJob, Goto
<1>20. ASSUME NEW s \in Session, PersistWithTranscript(s) PROVE TypeOK'
  <2> DEFINE LastImage == [id : Session \union {NoSession}, full : BOOLEAN]
             new == [id |-> s, full |-> TRUE]
  <2>1. new \in LastImage /\ lastFile \in LastImage
    OBVIOUS
  <2>2. Written(lastFile, new) \subseteq LastImage
    <3> HIDE DEF LastImage, new
    <3> QED
      BY <2>1, WrittenType, Zenon
  <2>3. lastFile' \in LastImage
    BY <1>20, <2>2 DEF PersistWithTranscript
  <2> QED
    BY <1>20, <2>3 DEF PersistWithTranscript, Goto
<1>21. ASSUME NEW s \in Session, EmitTranscriptComplete(s) PROVE TypeOK'
  BY <1>21 DEF EmitTranscriptComplete, Goto, Emit
<1>22. ASSUME NEW s \in Session, EmitTerminal(s) PROVE TypeOK'
  BY <1>22 DEF EmitTerminal, Goto, Emit, Verdict
<1>23. ASSUME NEW s \in Session, ClearActiveSession(s) PROVE TypeOK'
  BY <1>23 DEF ClearActiveSession, Goto, Written
<1>24. ASSUME NEW s \in Session, NEW r \in {"ok", "err", "canceled"},
              JobResolves(s, r)
       PROVE  TypeOK'
  BY <1>24 DEF JobResolves
<1>25. CASE Terminate
  BY <1>25 DEF Terminate, Inflight
<1>26. CASE DrainStarts
  BY <1>26 DEF DrainStarts, StartsDrained
<1>27. CASE DrainLifecycles
  BY <1>27 DEF DrainLifecycles, LifecyclesDrained
<1>28. CASE Exit
  BY <1>28 DEF Exit
<1>29. CASE UNCHANGED vars
  BY <1>29
<1> QED
  BY <1>1, <1>2, <1>3, <1>4, <1>5, <1>6, <1>7, <1>8, <1>9, <1>10, <1>11, <1>12,
     <1>13, <1>14, <1>15, <1>16, <1>17, <1>18, <1>19, <1>20, <1>21, <1>22, <1>23,
     <1>24, <1>25, <1>26, <1>27, <1>28, <1>29
  DEF Next, HandlerStep, LifecycleStep, MainStep

(* Every reachable state of the daemon is well typed.                      *)
THEOREM TypeCorrect == Spec => []TypeOK
<1>1. Init => TypeOK
  BY TypeInit
<1>2. TypeOK /\ [Next]_vars => TypeOK'
  BY TypeStep
<1> QED
  BY <1>1, <1>2, PTL DEF Spec

-----------------------------------------------------------------------------
(* The slot *)

(* A step that moves one session inside, or outside, the holding states    *)
(* and leaves the slot alone.                                              *)
LEMMA HolderMoves ==
    ASSUME TypeOK, SlotOwnership, NEW s \in Session, NEW from, NEW to,
           Goto(s, from, to), from \in HoldingPc <=> to \in HoldingPc,
           UNCHANGED slot
    PROVE  SlotOwnership'
BY DEF TypeOK, SlotOwnership, Goto

(* A holder that leaves the holding states empties the slot.               *)
LEMMA HolderReleases ==
    ASSUME TypeOK, SlotOwnership, NEW s \in Session, NEW from, NEW to,
           Goto(s, from, to), from \in HoldingPc, to \notin HoldingPc, release
    PROVE  SlotOwnership'
BY SessionAssumption DEF TypeOK, SlotOwnership, Goto, release

LEMMA SlotStep == TypeOK /\ SlotOwnership /\ [Next]_vars => SlotOwnership'
<1> SUFFICES ASSUME TypeOK, SlotOwnership, [Next]_vars
             PROVE  SlotOwnership'
  OBVIOUS
<1> USE DEF HoldingPc, slotVars
<1>1. ASSUME NEW s \in Session, BeginStart(s) PROVE SlotOwnership'
  BY <1>1, HolderMoves DEF BeginStart
<1>2. ASSUME NEW s \in Session, Admit(s) PROVE SlotOwnership'
  <2>1. CASE Goto(s, "queued", "refused") /\ UNCHANGED slot
    BY <2>1, HolderMoves
  <2>2. CASE /\ slot = NoSession
             /\ Goto(s, "queued", "reserved")
             /\ slot' = s
    BY <2>2, SessionAssumption DEF TypeOK, SlotOwnership, Goto
  <2> QED
    BY <1>2, <2>1, <2>2 DEF Admit
<1>3. ASSUME NEW s \in Session, Announce(s) PROVE SlotOwnership'
  BY <1>3, HolderMoves, HolderReleases DEF Announce
<1>4. ASSUME NEW s \in Session, StartRecorder(s) PROVE SlotOwnership'
  BY <1>4, HolderMoves, HolderReleases DEF StartRecorder
<1>5. ASSUME NEW s \in Session,
             EmitStartFailed(s) \/ WriteActiveSession(s) \/ EmitRecording(s)
      PROVE  SlotOwnership'
  BY <1>5, HolderMoves DEF EmitStartFailed, WriteActiveSession, EmitRecording
<1>6. ASSUME NEW s \in Session, SpawnLifecycle(s) \/ NoticeStop(s)
      PROVE  SlotOwnership'
  BY <1>6, HolderMoves DEF SpawnLifecycle, NoticeStop
<1>7. ASSUME NEW s \in Session, Drained(s) PROVE SlotOwnership'
  BY <1>7, HolderMoves, HolderReleases DEF Drained
<1>8. ASSUME NEW s \in Session,
             EmitStopping(s) \/ PersistAudioOnly(s) \/ EmitRecordingComplete(s)
      PROVE  SlotOwnership'
  BY <1>8, HolderMoves DEF EmitStopping, PersistAudioOnly, EmitRecordingComplete
<1>9. ASSUME NEW s \in Session, ReleaseSlot(s) PROVE SlotOwnership'
  BY <1>9, HolderReleases DEF ReleaseSlot
<1>10. ASSUME NEW s \in Session,
              RecordHistory(s) \/ SubmitAuto(s) \/ AwaitJob(s)
       PROVE  SlotOwnership'
  BY <1>10, HolderMoves DEF RecordHistory, SubmitAuto, AwaitJob
<1>11. ASSUME NEW s \in Session,
              PersistWithTranscript(s) \/ EmitTranscriptComplete(s)
       PROVE  SlotOwnership'
  BY <1>11, HolderMoves DEF PersistWithTranscript, EmitTranscriptComplete
<1>12. ASSUME NEW s \in Session, EmitTerminal(s) \/ ClearActiveSession(s)
       PROVE  SlotOwnership'
  BY <1>12, HolderMoves DEF EmitTerminal, ClearActiveSession
<1>13. CASE UNCHANGED <<pc, slot>>
  BY <1>13 DEF SlotOwnership
<1>14. ASSUME NEW s \in Session, StopRecording(s) \/ BusStop(s)
       PROVE  SlotOwnership'
  BY <1>13, <1>14 DEF StopRecording, BusStop
<1>15. ASSUME NEW s \in Session, NEW r \in {"ok", "err", "canceled"},
              JobResolves(s, r)
       PROVE  SlotOwnership'
  BY <1>13, <1>15 DEF JobResolves
<1>16. CASE Terminate \/ MainStep
  BY <1>13, <1>16 DEF Terminate, MainStep, DrainStarts, DrainLifecycles, Exit
<1>17. CASE UNCHANGED vars
  BY <1>13, <1>17 DEF vars
<1> QED
  BY <1>1, <1>2, <1>3, <1>4, <1>5, <1>6, <1>7, <1>8, <1>9, <1>10, <1>11, <1>12,
     <1>14, <1>15, <1>16, <1>17
  DEF Next, HandlerStep, LifecycleStep

(* The slot of SessionManager names exactly the session between its        *)
(* try_reserve and its release, for any number of concurrent calls.        *)
THEOREM SlotIsOwned == Spec => []SlotOwnership
<1>1. Init => SlotOwnership
  BY SessionAssumption DEF Init, SlotOwnership, HoldingPc
<1>2. TypeOK /\ SlotOwnership /\ [Next]_vars => SlotOwnership'
  BY SlotStep
<1> QED
  BY <1>1, <1>2, TypeCorrect, PTL DEF Spec

-----------------------------------------------------------------------------
(* The stop hook *)

LEMMA HookStep ==
    TypeOK /\ SlotOwnership /\ HookDrivesOwner /\ [Next]_vars => HookDrivesOwner'
<1> SUFFICES ASSUME TypeOK, SlotOwnership, HookDrivesOwner, [Next]_vars
             PROVE  HookDrivesOwner'
  OBVIOUS
<1> USE DEF slotVars
<1>1. CASE release
  BY <1>1 DEF release, HookDrivesOwner
<1>2. CASE UNCHANGED slotVars
  BY <1>2 DEF HookDrivesOwner
<1>3. ASSUME NEW s \in Session, Admit(s) PROVE HookDrivesOwner'
  BY <1>2, <1>3 DEF Admit, HookDrivesOwner
<1>4. ASSUME NEW s \in Session, SpawnLifecycle(s) PROVE HookDrivesOwner'
  <2>1. slot = s
    BY <1>4 DEF SpawnLifecycle, Goto, SlotOwnership, HoldingPc
  <2> QED
    BY <1>4, <2>1 DEF SpawnLifecycle, HookDrivesOwner
<1>5. ASSUME NEW s \in Session,
             Announce(s) \/ StartRecorder(s) \/ Drained(s) \/ ReleaseSlot(s)
      PROVE  HookDrivesOwner'
  BY <1>1, <1>2, <1>5 DEF Announce, StartRecorder, Drained, ReleaseSlot
<1>6. ASSUME NEW s \in Session,
             \/ BeginStart(s) \/ EmitStartFailed(s) \/ WriteActiveSession(s)
             \/ EmitRecording(s) \/ StopRecording(s) \/ BusStop(s)
             \/ NoticeStop(s) \/ EmitStopping(s) \/ PersistAudioOnly(s)
      PROVE  HookDrivesOwner'
  BY <1>2, <1>6
  DEF BeginStart, EmitStartFailed, WriteActiveSession, EmitRecording,
      StopRecording, BusStop, NoticeStop, EmitStopping, PersistAudioOnly
<1>7. ASSUME NEW s \in Session,
             \/ EmitRecordingComplete(s) \/ RecordHistory(s) \/ SubmitAuto(s)
             \/ AwaitJob(s) \/ PersistWithTranscript(s)
             \/ EmitTranscriptComplete(s) \/ EmitTerminal(s)
             \/ ClearActiveSession(s)
      PROVE  HookDrivesOwner'
  BY <1>2, <1>7
  DEF EmitRecordingComplete, RecordHistory, SubmitAuto, AwaitJob,
      PersistWithTranscript, EmitTranscriptComplete, EmitTerminal,
      ClearActiveSession
<1>8. ASSUME NEW s \in Session, NEW r \in {"ok", "err", "canceled"},
             JobResolves(s, r)
      PROVE  HookDrivesOwner'
  BY <1>2, <1>8 DEF JobResolves
<1>9. CASE Terminate \/ MainStep
  BY <1>2, <1>9 DEF Terminate, MainStep, DrainStarts, DrainLifecycles, Exit
<1>10. CASE UNCHANGED vars
  BY <1>2, <1>10 DEF vars
<1> QED
  BY <1>3, <1>4, <1>5, <1>6, <1>7, <1>8, <1>9, <1>10
  DEF Next, HandlerStep, LifecycleStep

(* The installed hook always drives the recorder of the session in the     *)
(* slot, although install_stop_hook does not check whose slot it is.       *)
THEOREM HookIsOwners == Spec => []HookDrivesOwner
<1>1. Init => HookDrivesOwner
  BY DEF Init, HookDrivesOwner
<1>2. TypeOK /\ SlotOwnership /\ HookDrivesOwner /\ [Next]_vars
        => HookDrivesOwner'
  BY HookStep
<1> QED
  BY <1>1, <1>2, TypeCorrect, SlotIsOwned, PTL DEF Spec

(* No step withdraws a stop reason, and only StopRecording acknowledges.   *)
LEMMA AckedStep ==
    TypeOK /\ HookDrivesOwner /\ AckedStopDelivered /\ [Next]_vars
        => AckedStopDelivered'
<1> SUFFICES ASSUME TypeOK, HookDrivesOwner, AckedStopDelivered, [Next]_vars
             PROVE  AckedStopDelivered'
  OBVIOUS
<1>1. CASE stop \subseteq stop' /\ UNCHANGED acked
  BY <1>1 DEF AckedStopDelivered
<1>2. ASSUME NEW s \in Session, StopRecording(s) PROVE AckedStopDelivered'
  <2>1. hook = s /\ s # NoSession
    BY <1>2, SessionAssumption DEF StopRecording, hookInstalled, HookDrivesOwner
  <2> QED
    BY <1>2, <2>1 DEF StopRecording, AckedStopDelivered
<1>3. ASSUME NEW s \in Session, BusStop(s) PROVE AckedStopDelivered'
  BY <1>1, <1>3 DEF BusStop
<1>4. ASSUME NEW s \in Session, BeginStart(s) \/ HandlerStep(s)
      PROVE  AckedStopDelivered'
  BY <1>1, <1>4
  DEF BeginStart, HandlerStep, Admit, Announce, StartRecorder, EmitStartFailed,
      WriteActiveSession, EmitRecording, SpawnLifecycle
<1>5. ASSUME NEW s \in Session, LifecycleStep(s) PROVE AckedStopDelivered'
  BY <1>1, <1>5
  DEF LifecycleStep, NoticeStop, Drained, EmitStopping, PersistAudioOnly,
      EmitRecordingComplete, ReleaseSlot, RecordHistory, SubmitAuto, AwaitJob,
      PersistWithTranscript, EmitTranscriptComplete, EmitTerminal,
      ClearActiveSession
<1>6. ASSUME NEW s \in Session, NEW r \in {"ok", "err", "canceled"},
             JobResolves(s, r)
      PROVE  AckedStopDelivered'
  BY <1>1, <1>6 DEF JobResolves
<1>7. CASE Terminate \/ MainStep
  BY <1>1, <1>7 DEF Terminate, MainStep, DrainStarts, DrainLifecycles, Exit
<1>8. CASE UNCHANGED vars
  BY <1>1, <1>8 DEF vars
<1> QED
  BY <1>2, <1>3, <1>4, <1>5, <1>6, <1>7, <1>8 DEF Next

(* A StopRecording that was answered Ok stopped the session it named.      *)
THEOREM AckedIsDelivered == Spec => []AckedStopDelivered
<1>1. Init => AckedStopDelivered
  BY DEF Init, AckedStopDelivered
<1>2. TypeOK /\ HookDrivesOwner /\ AckedStopDelivered /\ [Next]_vars
        => AckedStopDelivered'
  BY AckedStep
<1> QED
  BY <1>1, <1>2, TypeCorrect, HookIsOwners, PTL DEF Spec

-----------------------------------------------------------------------------
(* The single-session policy *)

EndedPc == (LifecyclePc \union {"done"}) \ RecorderPc

(* Steps that neither start nor end a recorder.                            *)
LEMMA RecorderKept ==
    ASSUME TypeOK, NEW s \in Session, NEW from, NEW to, Goto(s, from, to),
           from \in RecorderPc <=> to \in RecorderPc,
           from \in EndedPc <=> to \in EndedPc
    PROVE  UNCHANGED Single!vars
BY DEF TypeOK, Goto, LiveRecorders, EndedRecorders, EndedPc, Single!vars

(* A session that holds the slot is the only one that can have a recorder. *)
LEMMA HolderIsAlone ==
    ASSUME SlotOwnership, NEW s \in Session, pc[s] \in HoldingPc
    PROVE  LiveRecorders \subseteq {s}
BY DEF SlotOwnership, LiveRecorders, RecorderPc, HoldingPc

LEMMA PolicyStep ==
    TypeOK /\ SlotOwnership /\ [Next]_vars => [Single!Next]_(Single!vars)
<1> SUFFICES ASSUME TypeOK, SlotOwnership, [Next]_vars
             PROVE  [Single!Next]_(Single!vars)
  OBVIOUS
<1> USE DEF RecorderPc, EndedPc, LifecyclePc
<1>1. ASSUME NEW s \in Session, StartRecorder(s)
      PROVE  [Single!Next]_(Single!vars)
  <2>1. CASE Goto(s, "announced", "started")
    <3>1. pc[s] = "announced" /\ pc' = [pc EXCEPT ![s] = "started"]
      BY <2>1 DEF Goto
    <3>2. LiveRecorders = {}
      BY <3>1, HolderIsAlone DEF HoldingPc, LiveRecorders
    <3>3. LiveRecorders' = {s}
      BY <3>1, <3>2 DEF TypeOK, LiveRecorders
    <3>4. s \notin EndedRecorders /\ EndedRecorders' = EndedRecorders
      BY <3>1 DEF TypeOK, EndedRecorders
    <3>5. Single!Start(s)
      BY <3>2, <3>3, <3>4 DEF Single!Start
    <3> QED
      BY <3>5 DEF Single!Next
  <2>2. CASE Goto(s, "announced", "failing")
    BY <2>2, RecorderKept
  <2> QED
    BY <1>1, <2>1, <2>2 DEF StartRecorder
<1>2. ASSUME NEW s \in Session, Drained(s)
      PROVE  [Single!Next]_(Single!vars)
  <2>1. PICK to \in {"drained", "stopping", "ending"} : Goto(s, "draining", to)
    BY <1>2 DEF Drained
  <2>2. pc[s] = "draining" /\ pc' = [pc EXCEPT ![s] = to]
    BY <2>1 DEF Goto
  <2>3. LiveRecorders = {s}
    BY <2>2, HolderIsAlone DEF HoldingPc, LiveRecorders
  <2>4. LiveRecorders' = {}
    BY <2>2, <2>3 DEF TypeOK, LiveRecorders
  <2>5. EndedRecorders' = EndedRecorders \union {s}
    BY <2>2 DEF TypeOK, EndedRecorders
  <2>6. Single!End(s)
    BY <2>3, <2>4, <2>5 DEF Single!End
  <2> QED
    BY <2>6 DEF Single!Next
<1>3. ASSUME NEW s \in Session, BeginStart(s) \/ Admit(s) \/ Announce(s)
      PROVE  UNCHANGED Single!vars
  BY <1>3, RecorderKept DEF BeginStart, Admit, Announce
<1>4. ASSUME NEW s \in Session,
             EmitStartFailed(s) \/ WriteActiveSession(s) \/ EmitRecording(s)
      PROVE  UNCHANGED Single!vars
  BY <1>4, RecorderKept DEF EmitStartFailed, WriteActiveSession, EmitRecording
<1>5. ASSUME NEW s \in Session, SpawnLifecycle(s) \/ NoticeStop(s)
      PROVE  UNCHANGED Single!vars
  BY <1>5, RecorderKept DEF SpawnLifecycle, NoticeStop
<1>6. ASSUME NEW s \in Session,
             \/ EmitStopping(s) \/ PersistAudioOnly(s)
             \/ EmitRecordingComplete(s) \/ ReleaseSlot(s)
      PROVE  UNCHANGED Single!vars
  BY <1>6, RecorderKept
  DEF EmitStopping, PersistAudioOnly, EmitRecordingComplete, ReleaseSlot
<1>7. ASSUME NEW s \in Session,
             RecordHistory(s) \/ SubmitAuto(s) \/ AwaitJob(s)
      PROVE  UNCHANGED Single!vars
  BY <1>7, RecorderKept DEF RecordHistory, SubmitAuto, AwaitJob
<1>8. ASSUME NEW s \in Session,
             \/ PersistWithTranscript(s) \/ EmitTranscriptComplete(s)
             \/ EmitTerminal(s) \/ ClearActiveSession(s)
      PROVE  UNCHANGED Single!vars
  BY <1>8, RecorderKept
  DEF PersistWithTranscript, EmitTranscriptComplete, EmitTerminal,
      ClearActiveSession
<1>9. CASE UNCHANGED pc
  BY <1>9 DEF LiveRecorders, EndedRecorders, Single!vars
<1>10. ASSUME NEW s \in Session, StopRecording(s) \/ BusStop(s)
       PROVE  UNCHANGED pc
  BY <1>10 DEF StopRecording, BusStop
<1>11. ASSUME NEW s \in Session, NEW r \in {"ok", "err", "canceled"},
              JobResolves(s, r)
       PROVE  UNCHANGED pc
  BY <1>11 DEF JobResolves
<1>12. CASE Terminate \/ MainStep \/ UNCHANGED vars
  BY <1>9, <1>12 DEF Terminate, MainStep, DrainStarts, DrainLifecycles, Exit, vars
<1> QED
  BY <1>1, <1>2, <1>3, <1>4, <1>5, <1>6, <1>7, <1>8, <1>9, <1>10, <1>11, <1>12
  DEF Next, HandlerStep, LifecycleStep

(* The daemon implements SingleRecorder: at most one recorder runs at any  *)
(* time and no session records twice, whatever calls are concurrent.       *)
THEOREM SingleSessionPolicy == Spec => SingleRecorderSpec
<1>1. Init => Single!Init
  BY DEF Init, Single!Init, LiveRecorders, EndedRecorders, RecorderPc,
         LifecyclePc
<1>2. TypeOK /\ SlotOwnership /\ [Next]_vars => [Single!Next]_(Single!vars)
  BY PolicyStep
<1> QED
  BY <1>1, <1>2, TypeCorrect, SlotIsOwned, PTL
  DEF Spec, SingleRecorderSpec, Single!Spec

-----------------------------------------------------------------------------
(* Shutdown *)

Ended(s) == pc[s] \in {"refused", "done"}

(* Until shutdown takes them, the handles of all lifecycle tasks are       *)
(* registered.                                                             *)
HandlesRegistered ==
    main \in {"serving", "waitStarts"} =>
        \A s \in Session : pc[s] \in LifecyclePc => s \in tasks

(* What shutdown still has to wait for, phase by phase: a session that was *)
(* under way has begun; unless the wait for starts timed out its handle    *)
(* was taken; unless the wait for the handles timed out it has ended.      *)
ShutdownProgress ==
    /\ main = "waitStarts" => \A s \in inService : pc[s] # "new"
    /\ (main = "draining" /\ ~timedOut) =>
          \A s \in inService : s \in pending \/ Ended(s)
    /\ (main \in {"closing", "exited"} /\ ~timedOut) =>
          \A s \in inService : Ended(s)

ShutdownInv == HandlesRegistered /\ ShutdownProgress

(* A step of one session other than a spawn: it does not touch the         *)
(* handles, starts no lifecycle and revives no session.                    *)
LEMMA SessionStepKeeps ==
    ASSUME TypeOK, ShutdownInv, NEW s \in Session, NEW from, NEW to,
           Goto(s, from, to), from \in LifecyclePc \/ to \notin LifecyclePc,
           from \notin {"refused", "done"}, to # "new",
           UNCHANGED <<taskVars, mainVars>>
    PROVE  ShutdownInv'
BY DEF TypeOK, ShutdownInv, HandlesRegistered, ShutdownProgress, Ended, Goto,
       taskVars, mainVars

LEMMA ShutdownStep == TypeOK /\ ShutdownInv /\ [Next]_vars => ShutdownInv'
<1> SUFFICES ASSUME TypeOK, ShutdownInv, [Next]_vars
             PROVE  ShutdownInv'
  OBVIOUS
<1> USE DEF LifecyclePc
<1>1. ASSUME NEW s \in Session, BeginStart(s) \/ Admit(s) \/ Announce(s)
      PROVE  ShutdownInv'
  BY <1>1, SessionStepKeeps DEF BeginStart, Admit, Announce
<1>2. ASSUME NEW s \in Session,
             \/ StartRecorder(s) \/ EmitStartFailed(s)
             \/ WriteActiveSession(s) \/ EmitRecording(s)
      PROVE  ShutdownInv'
  BY <1>2, SessionStepKeeps
  DEF StartRecorder, EmitStartFailed, WriteActiveSession, EmitRecording
<1>3. ASSUME NEW s \in Session, SpawnLifecycle(s) PROVE ShutdownInv'
  <2>1. pc[s] = "live" /\ pc' = [pc EXCEPT ![s] = "recording"]
    BY <1>3 DEF SpawnLifecycle, Goto
  <2>2. /\ tasks' = {t \in tasks : pc[t] # "done"} \union {s}
        /\ UNCHANGED <<pending, main, inService, timedOut>>
    BY <1>3 DEF SpawnLifecycle, mainVars
  <2>3. HandlesRegistered'
    BY <2>1, <2>2 DEF TypeOK, ShutdownInv, HandlesRegistered
  <2>4. ShutdownProgress'
    BY <2>1, <2>2 DEF TypeOK, ShutdownInv, ShutdownProgress, Ended
  <2> QED
    BY <2>3, <2>4 DEF ShutdownInv
<1>4. ASSUME NEW s \in Session, NoticeStop(s) \/ Drained(s) \/ EmitStopping(s)
      PROVE  ShutdownInv'
  BY <1>4, SessionStepKeeps DEF NoticeStop, Drained, EmitStopping
<1>5. ASSUME NEW s \in Session,
             PersistAudioOnly(s) \/ EmitRecordingComplete(s) \/ ReleaseSlot(s)
      PROVE  ShutdownInv'
  BY <1>5, SessionStepKeeps
  DEF PersistAudioOnly, EmitRecordingComplete, ReleaseSlot
<1>6. ASSUME NEW s \in Session,
             RecordHistory(s) \/ SubmitAuto(s) \/ AwaitJob(s)
      PROVE  ShutdownInv'
  BY <1>6, SessionStepKeeps DEF RecordHistory, SubmitAuto, AwaitJob
<1>7. ASSUME NEW s \in Session,
             \/ PersistWithTranscript(s) \/ EmitTranscriptComplete(s)
             \/ EmitTerminal(s) \/ ClearActiveSession(s)
      PROVE  ShutdownInv'
  BY <1>7, SessionStepKeeps
  DEF PersistWithTranscript, EmitTranscriptComplete, EmitTerminal,
      ClearActiveSession
<1>8. CASE UNCHANGED <<pc, taskVars, mainVars>>
  BY <1>8
  DEF ShutdownInv, HandlesRegistered, ShutdownProgress, Ended, taskVars, mainVars
<1>9. ASSUME NEW s \in Session, StopRecording(s) \/ BusStop(s)
      PROVE  ShutdownInv'
  BY <1>8, <1>9 DEF StopRecording, BusStop
<1>10. ASSUME NEW s \in Session, NEW r \in {"ok", "err", "canceled"},
              JobResolves(s, r)
       PROVE  ShutdownInv'
  BY <1>8, <1>10 DEF JobResolves
<1>11. CASE Terminate
  <2>1. main = "serving" /\ main' = "waitStarts" /\ UNCHANGED <<pc, tasks>>
    BY <1>11 DEF Terminate, taskVars
  <2>2. \A s \in inService' : pc[s] # "new"
    BY <1>11 DEF Terminate, Inflight, HandlerPc
  <2> QED
    BY <2>1, <2>2 DEF ShutdownInv, HandlesRegistered, ShutdownProgress
<1>12. CASE DrainStarts
  <2>1. /\ main = "waitStarts" /\ main' = "draining" /\ pending' = tasks
        /\ UNCHANGED <<pc, inService>>
    BY <1>12 DEF DrainStarts
  <2>2. ASSUME ~timedOut', NEW s \in inService PROVE s \in tasks \/ Ended(s)
    <3>1. pc[s] \notin HandlerPc
      BY <1>12, <2>2 DEF DrainStarts, StartsDrained, Inflight, TypeOK
    <3>2. s \in Session /\ pc[s] \in Pc \ {"new"}
      BY <2>1 DEF TypeOK, ShutdownInv, ShutdownProgress
    <3>3. pc[s] \in LifecyclePc => s \in tasks
      BY <2>1, <3>2 DEF ShutdownInv, HandlesRegistered
    <3> QED
      BY <3>1, <3>2, <3>3 DEF Pc, Ended
  <2> QED
    BY <2>1, <2>2 DEF ShutdownInv, HandlesRegistered, ShutdownProgress, Ended
<1>13. CASE DrainLifecycles
  <2>1. /\ main = "draining" /\ main' = "closing"
        /\ UNCHANGED <<pc, inService>>
    BY <1>13 DEF DrainLifecycles
  <2>2. ASSUME ~timedOut' PROVE ~timedOut /\ \A s \in pending : pc[s] = "done"
    BY <1>13, <2>2 DEF DrainLifecycles, LifecyclesDrained
  <2> QED
    BY <2>1, <2>2 DEF ShutdownInv, HandlesRegistered, ShutdownProgress, Ended
<1>14. CASE Exit
  BY <1>14 DEF Exit, ShutdownInv, HandlesRegistered, ShutdownProgress, Ended
<1>15. CASE UNCHANGED vars
  BY <1>8, <1>15 DEF vars
<1> QED
  BY <1>1, <1>2, <1>3, <1>4, <1>5, <1>6, <1>7, <1>9, <1>10, <1>11, <1>12, <1>13,
     <1>14, <1>15
  DEF Next, HandlerStep, LifecycleStep, MainStep

(* A shutdown that no timeout cuts short ends every session that was under *)
(* way when the signal came, the starts in flight included.                *)
THEOREM CleanShutdown == Spec => []ShutdownKeepsSessions
<1>1. Init => ShutdownInv
  BY DEF Init, ShutdownInv, HandlesRegistered, ShutdownProgress, LifecyclePc
<1>2. TypeOK /\ ShutdownInv /\ [Next]_vars => ShutdownInv'
  BY ShutdownStep
<1>3. ShutdownInv => ShutdownKeepsSessions
  BY DEF ShutdownInv, ShutdownProgress, ShutdownKeepsSessions, Ended
<1> QED
  BY <1>1, <1>2, <1>3, TypeCorrect, PTL DEF Spec

-----------------------------------------------------------------------------
(* The signals of a session *)

LEMMA AppendIs ==
    ASSUME NEW S, NEW p \in Seq(S), NEW x \in S, NEW r \in Seq(S),
           Len(r) = Len(p) + 1, r[Len(p) + 1] = x,
           \A i \in 1 .. Len(p) : r[i] = p[i]
    PROVE  Append(p, x) = r
<1>1. /\ Append(p, x) \in Seq(S) /\ Len(Append(p, x)) = Len(p) + 1
      /\ Append(p, x)[Len(p) + 1] = x
      /\ \A i \in 1 .. Len(p) : Append(p, x)[i] = p[i]
  OBVIOUS
<1> QED
  BY <1>1, SeqEqual

(* One more element, written out: the provers do not see through Append on *)
(* a tuple.                                                                *)
LEMMA Append1 ==
    ASSUME NEW a
    PROVE  Append(<< >>, a) = <<a>>
<1> DEFINE S == {a}
           p == << >>
           r == <<a>>
<1>1. a \in S /\ p \in Seq(S) /\ Len(p) = 0 /\ r \in Seq(S) /\ Len(r) = 1
  OBVIOUS
<1>2. /\ r[1] = a
  OBVIOUS
<1> HIDE DEF S, p, r
<1>3. /\ Len(r) = Len(p) + 1 /\ r[Len(p) + 1] = a
      /\ \A i \in 1 .. Len(p) : r[i] = p[i]
  BY <1>1, <1>2
<1>4. Append(p, a) = r
  BY <1>1, <1>3, AppendIs
<1> QED
  BY <1>4 DEF p, r

LEMMA Append2 ==
    ASSUME NEW a, NEW b
    PROVE  Append(<<a>>, b) = <<a, b>>
<1> DEFINE S == {a, b}
           p == <<a>>
           r == <<a, b>>
<1>1. b \in S /\ p \in Seq(S) /\ Len(p) = 1 /\ r \in Seq(S) /\ Len(r) = 2
  OBVIOUS
<1>2. /\ r[1] = a /\ r[2] = b
      /\ p[1] = a
  OBVIOUS
<1> HIDE DEF S, p, r
<1>3. /\ Len(r) = Len(p) + 1 /\ r[Len(p) + 1] = b
      /\ \A i \in 1 .. Len(p) : r[i] = p[i]
  BY <1>1, <1>2
<1>4. Append(p, b) = r
  BY <1>1, <1>3, AppendIs
<1> QED
  BY <1>4 DEF p, r

LEMMA Append3 ==
    ASSUME NEW a, NEW b, NEW c
    PROVE  Append(<<a, b>>, c) = <<a, b, c>>
<1> DEFINE S == {a, b, c}
           p == <<a, b>>
           r == <<a, b, c>>
<1>1. c \in S /\ p \in Seq(S) /\ Len(p) = 2 /\ r \in Seq(S) /\ Len(r) = 3
  OBVIOUS
<1>2. /\ r[1] = a /\ r[2] = b /\ r[3] = c
      /\ p[1] = a /\ p[2] = b
  OBVIOUS
<1> HIDE DEF S, p, r
<1>3. /\ Len(r) = Len(p) + 1 /\ r[Len(p) + 1] = c
      /\ \A i \in 1 .. Len(p) : r[i] = p[i]
  BY <1>1, <1>2
<1>4. Append(p, c) = r
  BY <1>1, <1>3, AppendIs
<1> QED
  BY <1>4 DEF p, r

LEMMA Append4 ==
    ASSUME NEW a, NEW b, NEW c, NEW d
    PROVE  Append(<<a, b, c>>, d) = <<a, b, c, d>>
<1> DEFINE S == {a, b, c, d}
           p == <<a, b, c>>
           r == <<a, b, c, d>>
<1>1. d \in S /\ p \in Seq(S) /\ Len(p) = 3 /\ r \in Seq(S) /\ Len(r) = 4
  OBVIOUS
<1>2. /\ r[1] = a /\ r[2] = b /\ r[3] = c /\ r[4] = d
      /\ p[1] = a /\ p[2] = b /\ p[3] = c
  OBVIOUS
<1> HIDE DEF S, p, r
<1>3. /\ Len(r) = Len(p) + 1 /\ r[Len(p) + 1] = d
      /\ \A i \in 1 .. Len(p) : r[i] = p[i]
  BY <1>1, <1>2
<1>4. Append(p, d) = r
  BY <1>1, <1>3, AppendIs
<1> QED
  BY <1>4 DEF p, r

LEMMA Append5 ==
    ASSUME NEW a, NEW b, NEW c, NEW d, NEW e
    PROVE  Append(<<a, b, c, d>>, e) = <<a, b, c, d, e>>
<1> DEFINE S == {a, b, c, d, e}
           p == <<a, b, c, d>>
           r == <<a, b, c, d, e>>
<1>1. e \in S /\ p \in Seq(S) /\ Len(p) = 4 /\ r \in Seq(S) /\ Len(r) = 5
  OBVIOUS
<1>2. /\ r[1] = a /\ r[2] = b /\ r[3] = c /\ r[4] = d /\ r[5] = e
      /\ p[1] = a /\ p[2] = b /\ p[3] = c /\ p[4] = d
  OBVIOUS
<1> HIDE DEF S, p, r
<1>3. /\ Len(r) = Len(p) + 1 /\ r[Len(p) + 1] = e
      /\ \A i \in 1 .. Len(p) : r[i] = p[i]
  BY <1>1, <1>2
<1>4. Append(p, e) = r
  BY <1>1, <1>3, AppendIs
<1> QED
  BY <1>4 DEF p, r

LEMMA Append6 ==
    ASSUME NEW a, NEW b, NEW c, NEW d, NEW e, NEW f
    PROVE  Append(<<a, b, c, d, e>>, f) = <<a, b, c, d, e, f>>
<1> DEFINE S == {a, b, c, d, e, f}
           p == <<a, b, c, d, e>>
           r == <<a, b, c, d, e, f>>
<1>1. f \in S /\ p \in Seq(S) /\ Len(p) = 5 /\ r \in Seq(S) /\ Len(r) = 6
  OBVIOUS
<1>2. /\ r[1] = a /\ r[2] = b /\ r[3] = c /\ r[4] = d /\ r[5] = e /\ r[6] = f
      /\ p[1] = a /\ p[2] = b /\ p[3] = c /\ p[4] = d /\ p[5] = e
  OBVIOUS
<1> HIDE DEF S, p, r
<1>3. /\ Len(r) = Len(p) + 1 /\ r[Len(p) + 1] = f
      /\ \A i \in 1 .. Len(p) : r[i] = p[i]
  BY <1>1, <1>2
<1>4. Append(p, f) = r
  BY <1>1, <1>3, AppendIs
<1> QED
  BY <1>4 DEF p, r

Greeted == <<"starting">>
Ready == <<"starting", "recording">>
Stopped == <<"starting", "recording", "stopping">>
Unstopped == <<"starting", "recording", "RecordingComplete">>
Taped == <<"starting", "recording", "stopping", "RecordingComplete">>
Told == <<"starting", "recording", "stopping", "RecordingComplete",
          "TranscriptComplete">>

(* What one session has said, state by state.  The outcome of the recorder *)
(* decides whether "stopping" is among it, and no transcript is announced  *)
(* unless the job answered Ok.                                             *)
SaidSoFar(s) ==
    /\ pc[s] \in {"new", "queued", "reserved"} =>
          outcome[s] = "none" /\ sent[s] = << >>
    /\ pc[s] \in {"announced", "started", "filed", "failing"} =>
          outcome[s] = "none" /\ sent[s] = Greeted
    /\ pc[s] \in {"live", "recording", "draining"} =>
          outcome[s] = "none" /\ sent[s] = Ready
    /\ pc[s] = "drained" => outcome[s] = "ok" /\ sent[s] = Ready
    /\ pc[s] \in {"stopping", "audioFiled"} =>
          \/ outcome[s] = "ok" /\ sent[s] = Stopped
          \/ outcome[s] = "err" /\ sent[s] = Ready
    /\ pc[s] \in {"completed", "released"} =>
          \/ outcome[s] = "ok" /\ sent[s] = Taped
          \/ outcome[s] = "err" /\ sent[s] = Unstopped
    /\ pc[s] \in {"recorded", "awaiting"} => outcome[s] = "ok" /\ sent[s] = Taped
    /\ pc[s] \in {"transcribed", "fullFiled"} =>
          outcome[s] = "ok" /\ rx[s] = "ok" /\ sent[s] = Taped
    /\ pc[s] = "ending" =>
          \/ outcome[s] = "panic" /\ sent[s] = Ready
          \/ outcome[s] = "err" /\ sent[s] = Unstopped
          \/ outcome[s] = "ok" /\ sent[s] = Taped
          \/ outcome[s] = "ok" /\ rx[s] = "ok" /\ sent[s] = Told
    /\ pc[s] \in {"clearing", "done"} => sent[s] \in SignalOrders
    /\ pc[s] = "refused" => sent[s] \in {<< >>, <<"starting", "failed">>}

AllSaidSoFar == \A s \in Session : SaidSoFar(s)

(* A step of one session changes nobody else's part.                       *)
LEMMA OthersSilent ==
    ASSUME TypeOK, AllSaidSoFar, NEW s \in Session, SaidSoFar(s)',
           \A t \in Session \ {s} :
              /\ pc'[t] = pc[t] /\ outcome'[t] = outcome[t]
              /\ rx'[t] = rx[t] /\ sent'[t] = sent[t]
    PROVE  AllSaidSoFar'
BY DEF AllSaidSoFar, SaidSoFar

(* A sequence is a prefix of every longer one that begins like it.         *)
LEMMA PrefixIs ==
    ASSUME NEW S, NEW p \in Seq(S), NEW q \in Seq(S), Len(p) <= Len(q),
           \A i \in 1 .. Len(p) : p[i] = q[i]
    PROVE  IsPrefixOf(p, q)
<1>1. /\ SubSeq(q, 1, Len(p)) \in Seq(S)
      /\ Len(SubSeq(q, 1, Len(p))) = Len(p)
      /\ \A i \in 1 .. Len(p) : SubSeq(q, 1, Len(p))[i] = q[i]
  OBVIOUS
<1>2. p = SubSeq(q, 1, Len(p))
  BY <1>1, SeqEqual
<1> QED
  BY <1>2 DEF IsPrefixOf
(* Every state of a session's signals is a prefix of one of the orders.    *)
LEMMA PrefixesOfOrders ==
    ASSUME NEW p \in {<< >>, Greeted, Ready, Stopped, Unstopped, Taped, Told}
                       \union SignalOrders
    PROVE  \E order \in SignalOrders : IsPrefixOf(p, order)
<1> DEFINE short == <<"starting", "failed">>
           unstopped == <<"starting", "recording", "RecordingComplete", "failed">>
           full == <<"starting", "recording", "stopping", "RecordingComplete",
                     "TranscriptComplete", "idle">>
<1>1. /\ short \in SignalOrders /\ unstopped \in SignalOrders
      /\ full \in SignalOrders
  BY DEF SignalOrders
<1>2. short \in Seq(Signal) /\ Len(short) = 2 /\ short[1] = "starting"
  BY DEF Signal
<1>3. /\ unstopped \in Seq(Signal) /\ Len(unstopped) = 4
      /\ unstopped[1] = "starting" /\ unstopped[2] = "recording"
      /\ unstopped[3] = "RecordingComplete"
  BY DEF Signal
<1>4. /\ full \in Seq(Signal) /\ Len(full) = 6
      /\ full[1] = "starting" /\ full[2] = "recording" /\ full[3] = "stopping"
      /\ full[4] = "RecordingComplete" /\ full[5] = "TranscriptComplete"
  BY DEF Signal
<1> HIDE DEF short, unstopped, full
<1>5. CASE p = << >>
  <2>1. p \in Seq(Signal) /\ Len(p) = 0
    BY <1>5
  <2>2. Len(p) <= Len(short) /\ \A i \in 1 .. Len(p) : p[i] = short[i]
    BY <1>2, <2>1
  <2> QED
    BY <1>1, <1>2, <2>1, <2>2, PrefixIs
<1>6. CASE p = Greeted
  <2>1. p \in Seq(Signal) /\ Len(p) = 1 /\ p[1] = "starting"
    BY <1>6 DEF Greeted, Signal
  <2> QED
    BY <1>1, <1>2, <2>1, PrefixIs
<1>7. CASE p = Ready
  <2>1. /\ p \in Seq(Signal) /\ Len(p) = 2
        /\ p[1] = "starting" /\ p[2] = "recording"
    BY <1>7 DEF Ready, Signal
  <2> QED
    BY <1>1, <1>4, <2>1, PrefixIs
<1>8. CASE p = Stopped
  <2>1. /\ p \in Seq(Signal) /\ Len(p) = 3
        /\ p[1] = "starting" /\ p[2] = "recording" /\ p[3] = "stopping"
    BY <1>8 DEF Stopped, Signal
  <2> QED
    BY <1>1, <1>4, <2>1, PrefixIs
<1>9. CASE p = Unstopped
  <2>1. /\ p \in Seq(Signal) /\ Len(p) = 3 /\ p[1] = "starting"
        /\ p[2] = "recording" /\ p[3] = "RecordingComplete"
    BY <1>9 DEF Unstopped, Signal
  <2> QED
    BY <1>1, <1>3, <2>1, PrefixIs
<1>10. CASE p = Taped
  <2>1. /\ p \in Seq(Signal) /\ Len(p) = 4 /\ p[1] = "starting"
        /\ p[2] = "recording" /\ p[3] = "stopping" /\ p[4] = "RecordingComplete"
    BY <1>10 DEF Taped, Signal
  <2> QED
    BY <1>1, <1>4, <2>1, PrefixIs
<1>11. CASE p = Told
  <2>1. /\ p \in Seq(Signal) /\ Len(p) = 5 /\ p[1] = "starting"
        /\ p[2] = "recording" /\ p[3] = "stopping" /\ p[4] = "RecordingComplete"
        /\ p[5] = "TranscriptComplete"
    BY <1>11 DEF Told, Signal
  <2> QED
    BY <1>1, <1>4, <2>1, PrefixIs
<1>12. CASE p \in SignalOrders
  <2>1. SignalOrders \subseteq Seq(Signal)
    BY DEF SignalOrders, Signal
  <2>2. p \in Seq(Signal) /\ p \in SignalOrders
    BY <1>12, <2>1
  <2>3. Len(p) <= Len(p)
    BY <2>2
  <2> QED
    BY <2>2, <2>3, PrefixIs
<1> QED
  BY <1>5, <1>6, <1>7, <1>8, <1>9, <1>10, <1>11, <1>12

(* A session's signals after one more, in the states of SaidSoFar.         *)
LEMMA OneMoreSignal ==
    /\ Append(<< >>, "starting") = Greeted
    /\ Append(Greeted, "recording") = Ready
    /\ Append(Ready, "stopping") = Stopped
    /\ Append(Ready, "RecordingComplete") = Unstopped
    /\ Append(Stopped, "RecordingComplete") = Taped
    /\ Append(Taped, "TranscriptComplete") = Told
BY Append1, Append2, Append3, Append4, Append5
DEF Greeted, Ready, Stopped, Unstopped, Taped, Told

LEMMA TerminalSignal ==
    /\ Append(Greeted, "failed") = <<"starting", "failed">>
    /\ Append(Ready, "failed") \in SignalOrders
    /\ Append(Unstopped, "failed") \in SignalOrders
    /\ Append(Taped, "failed") \in SignalOrders
    /\ Append(Taped, "idle") \in SignalOrders
    /\ Append(Told, "idle") \in SignalOrders
<1>1. /\ Append(Greeted, "failed") = <<"starting", "failed">>
      /\ Append(Ready, "failed") = <<"starting", "recording", "failed">>
  BY Append2, Append3 DEF Greeted, Ready
<1>2. Append(Unstopped, "failed")
        = <<"starting", "recording", "RecordingComplete", "failed">>
  BY Append4 DEF Unstopped
<1>3. \A x \in {"failed", "idle"} :
        Append(Taped, x)
          = <<"starting", "recording", "stopping", "RecordingComplete", x>>
  BY Append5 DEF Taped
<1>4. Append(Told, "idle")
        = <<"starting", "recording", "stopping", "RecordingComplete",
            "TranscriptComplete", "idle">>
  BY Append6 DEF Told
<1> QED
  BY <1>1, <1>2, <1>3, <1>4 DEF SignalOrders

(* A session that moves and says nothing: only its own part is at stake.   *)
LEMMA MovesSilently ==
    ASSUME TypeOK, AllSaidSoFar, NEW s \in Session, NEW from, NEW to,
           Goto(s, from, to), UNCHANGED <<outcome, rx, sent>>,
           SaidSoFar(s)'
    PROVE  AllSaidSoFar'
BY OthersSilent DEF Goto, TypeOK

(* A session that moves and emits a signal.                                *)
LEMMA MovesSaying ==
    ASSUME TypeOK, AllSaidSoFar, NEW s \in Session, NEW from, NEW to, NEW sig,
           Goto(s, from, to), Emit(s, sig), UNCHANGED <<outcome, rx>>,
           SaidSoFar(s)'
    PROVE  AllSaidSoFar'
BY OthersSilent DEF Goto, Emit, TypeOK

LEMMA SaidStep == TypeOK /\ AllSaidSoFar /\ [Next]_vars => AllSaidSoFar'
<1> SUFFICES ASSUME TypeOK, AllSaidSoFar, [Next]_vars PROVE AllSaidSoFar'
  OBVIOUS
<1>1. ASSUME NEW s \in Session, BeginStart(s) PROVE AllSaidSoFar'
  BY <1>1, MovesSilently DEF BeginStart, Goto, TypeOK, AllSaidSoFar, SaidSoFar
<1>2. ASSUME NEW s \in Session, Admit(s) PROVE AllSaidSoFar'
  <2>1. /\ Goto(s, "queued", "refused") \/ Goto(s, "queued", "reserved")
        /\ UNCHANGED <<outcome, rx, sent>>
    BY <1>2 DEF Admit
  <2>2. SaidSoFar(s)'
    BY <2>1 DEF Goto, TypeOK, AllSaidSoFar, SaidSoFar
  <2> QED
    BY <2>1, <2>2, MovesSilently
<1>3. ASSUME NEW s \in Session, Announce(s) PROVE AllSaidSoFar'
  <2>1. CASE Goto(s, "reserved", "announced") /\ Emit(s, "starting")
    <3>1. UNCHANGED <<outcome, rx>>
      BY <1>3 DEF Announce
    <3>2. SaidSoFar(s)'
      BY <2>1, <3>1, OneMoreSignal DEF Goto, Emit, TypeOK, AllSaidSoFar, SaidSoFar
    <3> QED
      BY <2>1, <3>1, <3>2, MovesSaying
  <2>2. CASE Goto(s, "reserved", "refused") /\ UNCHANGED <<outcome, rx, sent>>
    BY <2>2, MovesSilently DEF Goto, TypeOK, AllSaidSoFar, SaidSoFar
  <2> QED
    BY <1>3, <2>1, <2>2 DEF Announce
<1>4. ASSUME NEW s \in Session, StartRecorder(s) PROVE AllSaidSoFar'
  <2>1. /\ Goto(s, "announced", "started") \/ Goto(s, "announced", "failing")
        /\ UNCHANGED <<outcome, rx, sent>>
    BY <1>4 DEF StartRecorder
  <2>2. SaidSoFar(s)'
    BY <2>1 DEF Goto, TypeOK, AllSaidSoFar, SaidSoFar
  <2> QED
    BY <2>1, <2>2, MovesSilently
<1>5. ASSUME NEW s \in Session, EmitStartFailed(s) PROVE AllSaidSoFar'
  <2>1. SaidSoFar(s)'
    BY <1>5, TerminalSignal
    DEF EmitStartFailed, Goto, Emit, TypeOK, AllSaidSoFar, SaidSoFar
  <2> QED
    BY <1>5, <2>1, MovesSaying DEF EmitStartFailed
<1>6. ASSUME NEW s \in Session, WriteActiveSession(s) PROVE AllSaidSoFar'
  BY <1>6, MovesSilently
  DEF WriteActiveSession, Goto, TypeOK, AllSaidSoFar, SaidSoFar
<1>7. ASSUME NEW s \in Session, EmitRecording(s) PROVE AllSaidSoFar'
  <2>1. SaidSoFar(s)'
    BY <1>7, OneMoreSignal
    DEF EmitRecording, Goto, Emit, TypeOK, AllSaidSoFar, SaidSoFar
  <2> QED
    BY <1>7, <2>1, MovesSaying DEF EmitRecording
<1>8. ASSUME NEW s \in Session, SpawnLifecycle(s) PROVE AllSaidSoFar'
  BY <1>8, MovesSilently DEF SpawnLifecycle, Goto, TypeOK, AllSaidSoFar, SaidSoFar
<1>9. ASSUME NEW s \in Session, NoticeStop(s) PROVE AllSaidSoFar'
  BY <1>9, MovesSilently DEF NoticeStop, Goto, TypeOK, AllSaidSoFar, SaidSoFar
<1>10. ASSUME NEW s \in Session, Drained(s) PROVE AllSaidSoFar'
  <2>1. UNCHANGED <<rx, sent>> /\ pc[s] = "draining" /\ sent[s] = Ready
    BY <1>10 DEF Drained, Goto, AllSaidSoFar, SaidSoFar
  <2>2. \A t \in Session \ {s} : pc'[t] = pc[t] /\ outcome'[t] = outcome[t]
    BY <1>10 DEF Drained, Goto, TypeOK
  <2>3. \/ pc'[s] = "drained" /\ outcome'[s] = "ok"
        \/ pc'[s] = "stopping" /\ outcome'[s] = "err"
        \/ pc'[s] = "ending" /\ outcome'[s] = "panic"
    BY <1>10 DEF Drained, Goto, TypeOK
  <2>4. SaidSoFar(s)'
    BY <2>1, <2>3 DEF SaidSoFar
  <2> QED
    BY <2>1, <2>2, <2>4, OthersSilent
<1>11. ASSUME NEW s \in Session, EmitStopping(s) PROVE AllSaidSoFar'
  <2>1. SaidSoFar(s)'
    BY <1>11, OneMoreSignal
    DEF EmitStopping, Goto, Emit, TypeOK, AllSaidSoFar, SaidSoFar
  <2> QED
    BY <1>11, <2>1, MovesSaying DEF EmitStopping
<1>12. ASSUME NEW s \in Session, PersistAudioOnly(s) PROVE AllSaidSoFar'
  BY <1>12, MovesSilently DEF PersistAudioOnly, Goto, TypeOK, AllSaidSoFar, SaidSoFar
<1>13. ASSUME NEW s \in Session, EmitRecordingComplete(s) PROVE AllSaidSoFar'
  <2>1. SaidSoFar(s)'
    BY <1>13, OneMoreSignal
    DEF EmitRecordingComplete, Goto, Emit, TypeOK, AllSaidSoFar, SaidSoFar
  <2> QED
    BY <1>13, <2>1, MovesSaying DEF EmitRecordingComplete
<1>14. ASSUME NEW s \in Session, ReleaseSlot(s) PROVE AllSaidSoFar'
  BY <1>14, MovesSilently DEF ReleaseSlot, Goto, TypeOK, AllSaidSoFar, SaidSoFar
<1>15. ASSUME NEW s \in Session, RecordHistory(s) PROVE AllSaidSoFar'
  BY <1>15, MovesSilently DEF RecordHistory, Goto, TypeOK, AllSaidSoFar, SaidSoFar
<1>16. ASSUME NEW s \in Session, SubmitAuto(s) PROVE AllSaidSoFar'
  <2>1. SaidSoFar(s)'
    BY <1>16 DEF SubmitAuto, Goto, TypeOK, AllSaidSoFar, SaidSoFar
  <2> QED
    BY <1>16, <2>1, OthersSilent DEF SubmitAuto, Goto, TypeOK
<1>17. ASSUME NEW s \in Session, AwaitJob(s) PROVE AllSaidSoFar'
  BY <1>17, MovesSilently DEF AwaitJob, Goto, TypeOK, AllSaidSoFar, SaidSoFar
<1>18. ASSUME NEW s \in Session, PersistWithTranscript(s) PROVE AllSaidSoFar'
  BY <1>18, MovesSilently
  DEF PersistWithTranscript, Goto, TypeOK, AllSaidSoFar, SaidSoFar
<1>19. ASSUME NEW s \in Session, EmitTranscriptComplete(s) PROVE AllSaidSoFar'
  <2>1. SaidSoFar(s)'
    BY <1>19, OneMoreSignal
    DEF EmitTranscriptComplete, Goto, Emit, TypeOK, AllSaidSoFar, SaidSoFar
  <2> QED
    BY <1>19, <2>1, MovesSaying DEF EmitTranscriptComplete
<1>20. ASSUME NEW s \in Session, EmitTerminal(s) PROVE AllSaidSoFar'
  <2>1. /\ Goto(s, "ending", "clearing") /\ Emit(s, Verdict(s))
        /\ UNCHANGED <<outcome, rx>>
    BY <1>20 DEF EmitTerminal
  <2>2. Append(sent[s], Verdict(s)) \in SignalOrders
    BY <2>1, TerminalSignal DEF Goto, AllSaidSoFar, SaidSoFar, Verdict
  <2>3. SaidSoFar(s)'
    BY <2>1, <2>2 DEF Goto, Emit, TypeOK, SaidSoFar
  <2> QED
    BY <2>1, <2>3, MovesSaying
<1>21. ASSUME NEW s \in Session, ClearActiveSession(s) PROVE AllSaidSoFar'
  BY <1>21, MovesSilently
  DEF ClearActiveSession, Goto, TypeOK, AllSaidSoFar, SaidSoFar
<1>22. ASSUME NEW s \in Session, NEW r \in {"ok", "err", "canceled"},
              JobResolves(s, r)
       PROVE  AllSaidSoFar'
  <2>1. SaidSoFar(s)'
    BY <1>22 DEF JobResolves, TypeOK, AllSaidSoFar, SaidSoFar
  <2> QED
    BY <1>22, <2>1, OthersSilent DEF JobResolves, TypeOK
<1>23. CASE UNCHANGED <<pc, outcome, rx, sent>>
  BY <1>23 DEF AllSaidSoFar, SaidSoFar
<1>24. ASSUME NEW s \in Session, StopRecording(s) \/ BusStop(s)
       PROVE  AllSaidSoFar'
  BY <1>23, <1>24 DEF StopRecording, BusStop
<1>25. CASE Terminate \/ MainStep \/ UNCHANGED vars
  BY <1>23, <1>25 DEF Terminate, MainStep, DrainStarts, DrainLifecycles, Exit, vars
<1> QED
  BY <1>1, <1>2, <1>3, <1>4, <1>5, <1>6, <1>7, <1>8, <1>9, <1>10, <1>11, <1>12,
     <1>13, <1>14, <1>15, <1>16, <1>17, <1>18, <1>19, <1>20, <1>21, <1>22, <1>24,
     <1>25
  DEF Next, HandlerStep, LifecycleStep

LEMMA SaidHolds == Spec => []AllSaidSoFar
<1>1. Init => AllSaidSoFar
  BY DEF Init, AllSaidSoFar, SaidSoFar
<1>2. TypeOK /\ AllSaidSoFar /\ [Next]_vars => AllSaidSoFar'
  BY SaidStep
<1> QED
  BY <1>1, <1>2, TypeCorrect, PTL DEF Spec

(* What a client sees of one session is a prefix of one of the six orders, *)
(* whatever the other sessions, the jobs and the shutdown do meanwhile.    *)
THEOREM SignalsInOrder == Spec => []SignalProtocol
<1>1. TypeOK /\ AllSaidSoFar => SignalProtocol
  <2> SUFFICES ASSUME TypeOK, AllSaidSoFar, NEW s \in Session
               PROVE  \E order \in SignalOrders : IsPrefixOf(sent[s], order)
    BY DEF SignalProtocol
  <2>1. pc[s] \in Pc /\ SaidSoFar(s)
    BY DEF TypeOK, AllSaidSoFar
  <2>2. sent[s] \in {<< >>, Greeted, Ready, Stopped, Unstopped, Taped, Told}
                      \union SignalOrders
    BY <2>1 DEF SaidSoFar, Pc, HandlerPc, LifecyclePc, SignalOrders
  <2> QED
    BY <2>2, PrefixesOfOrders
<1> QED
  BY <1>1, SaidHolds, TypeCorrect, PTL

-----------------------------------------------------------------------------
(* The state files *)

Phases == [s \in Session |-> FilePhase(s)]
Audio == {s \in Session : outcome[s] = "ok"}

LEMMA PhaseIs ==
    ASSUME NEW s \in Session
    PROVE  /\ pc[s] \in {"new", "queued", "reserved", "announced", "failing"} =>
                 FilePhase(s) = "new"
           /\ pc[s] = "started" => FilePhase(s) = "running"
           /\ pc[s] \in {"filed", "live", "recording", "draining", "drained",
                         "stopping"} => FilePhase(s) = "recording"
           /\ pc[s] \in {"audioFiled", "completed"} => FilePhase(s) = "filed"
           /\ pc[s] \in {"released", "recorded", "awaiting", "transcribed"} =>
                 FilePhase(s) = "released"
           /\ pc[s] = "fullFiled" => FilePhase(s) = "full"
           /\ pc[s] \in {"ending", "clearing"} => FilePhase(s) = "ending"
           /\ pc[s] \in {"done", "refused"} => FilePhase(s) = "ended"
BY DEF FilePhase

(* A step of one session changes its phase alone.                          *)
LEMMA PhaseMoves ==
    ASSUME TypeOK, NEW s \in Session, NEW from, NEW to, Goto(s, from, to)
    PROVE  /\ pc[s] = from /\ pc'[s] = to
           /\ Phases[s] = FilePhase(s)
           /\ Phases' = [Phases EXCEPT ![s] = FilePhase(s)']
<1>1. pc[s] = from /\ pc'[s] = to /\ \A t \in Session \ {s} : pc'[t] = pc[t]
  BY DEF Goto, TypeOK
<1>2. \A t \in Session \ {s} : FilePhase(t)' = FilePhase(t)
  BY <1>1 DEF FilePhase
<1> QED
  BY <1>1, <1>2 DEF Phases

(* A step that moves a session to another phase.                           *)
LEMMA PhaseGoes ==
    ASSUME TypeOK, NEW s \in Session, NEW from, NEW to, Goto(s, from, to),
           NEW F, NEW p, FilePhase(s) \in F, FilePhase(s)' = p
    PROVE  Files!Goto(s, F, p)
BY PhaseMoves DEF Phases, Files!Goto

(* A step that moves a session within its phase.                           *)
LEMMA PhaseStays ==
    ASSUME TypeOK, NEW s \in Session, NEW from, NEW to, Goto(s, from, to),
           FilePhase(s)' = FilePhase(s),
           UNCHANGED <<activeFile, lastFile, outcome>>
    PROVE  UNCHANGED Files!fvars
<1>1. Phases' = Phases
  BY PhaseMoves DEF Phases
<1> QED
  BY <1>1 DEF Phases, Files!fvars, Files!files

(* Only the session in the slot has a recorder that is not filed yet, so   *)
(* there is none when the next one starts.                                 *)
LEMMA NobodyRecords ==
    ASSUME TypeOK, SlotOwnership, NEW s \in Session, pc[s] = "announced",
           NEW t \in Session
    PROVE  FilePhase(t) \notin {"running", "recording", "filed"}
<1>1. pc[t] \in HoldingPc => t = s
  BY DEF SlotOwnership, HoldingPc
<1> QED
  BY <1>1 DEF HoldingPc, FilePhase

LEMMA FilesStep ==
    TypeOK /\ SlotOwnership /\ AllSaidSoFar /\ [Next]_vars
        => [\E s \in Session : Files!SessionStep(s)]_(Files!fvars)
<1> SUFFICES ASSUME TypeOK, SlotOwnership, AllSaidSoFar, [Next]_vars
             PROVE  \/ \E s \in Session : Files!SessionStep(s)
                    \/ UNCHANGED Files!fvars
  OBVIOUS
<1> DEFINE Step(s) == Files!SessionStep(s) \/ UNCHANGED Files!fvars
<1>1. ASSUME NEW s \in Session, BeginStart(s) PROVE Step(s)
  BY <1>1, PhaseStays DEF BeginStart, fileVars, TypeOK, Goto, FilePhase
<1>2. ASSUME NEW s \in Session, Admit(s) PROVE Step(s)
  <2>1. UNCHANGED <<activeFile, lastFile, outcome>>
    BY <1>2 DEF Admit, fileVars
  <2>2. CASE Goto(s, "queued", "refused")
    <3>1. FilePhase(s) = "new" /\ FilePhase(s)' = "ended"
      BY <2>2 DEF Goto, TypeOK, FilePhase
    <3>2. Files!Goto(s, {"new"}, "ended")
      BY <2>2, <3>1, PhaseGoes
    <3>3. Files!Refuse(s)
      BY <2>1, <3>2 DEF Files!Refuse, Files!files
    <3> QED
      BY <3>3 DEF Files!SessionStep
  <2>3. CASE Goto(s, "queued", "reserved")
    BY <2>1, <2>3, PhaseStays DEF Goto, TypeOK, FilePhase
  <2> QED
    BY <1>2, <2>2, <2>3 DEF Admit
<1>3. ASSUME NEW s \in Session, Announce(s) PROVE Step(s)
  <2>1. UNCHANGED <<activeFile, lastFile, outcome>>
    BY <1>3 DEF Announce, fileVars
  <2>2. CASE Goto(s, "reserved", "refused")
    <3>1. FilePhase(s) = "new" /\ FilePhase(s)' = "ended"
      BY <2>2 DEF Goto, TypeOK, FilePhase
    <3>2. Files!Goto(s, {"new"}, "ended")
      BY <2>2, <3>1, PhaseGoes
    <3>3. Files!Refuse(s)
      BY <2>1, <3>2 DEF Files!Refuse, Files!files
    <3> QED
      BY <3>3 DEF Files!SessionStep
  <2>3. CASE Goto(s, "reserved", "announced")
    BY <2>1, <2>3, PhaseStays DEF Goto, TypeOK, FilePhase
  <2> QED
    BY <1>3, <2>2, <2>3 DEF Announce
<1>4. ASSUME NEW s \in Session, StartRecorder(s) PROVE Step(s)
  <2>1. UNCHANGED <<activeFile, lastFile, outcome>>
    BY <1>4 DEF StartRecorder, fileVars
  <2>2. CASE Goto(s, "announced", "started")
    <3>1. FilePhase(s) = "new" /\ FilePhase(s)' = "running"
      BY <2>2 DEF Goto, TypeOK, FilePhase
    <3>2. Files!Goto(s, {"new"}, "running")
      BY <2>2, <3>1, PhaseGoes
    <3>3. pc[s] = "announced"
      BY <2>2 DEF Goto
    <3>4. Files!Record(s)
      BY <2>1, <3>2, <3>3, NobodyRecords DEF Files!Record, Files!files
    <3> QED
      BY <3>4 DEF Files!SessionStep
  <2>3. CASE Goto(s, "announced", "failing")
    BY <2>1, <2>3, PhaseStays DEF Goto, TypeOK, FilePhase
  <2> QED
    BY <1>4, <2>2, <2>3 DEF StartRecorder
<1>5. ASSUME NEW s \in Session, EmitStartFailed(s) PROVE Step(s)
  <2>1. Goto(s, "failing", "refused")
    BY <1>5 DEF EmitStartFailed
  <2>2. FilePhase(s) = "new" /\ FilePhase(s)' = "ended"
    BY <2>1 DEF Goto, TypeOK, FilePhase
  <2>3. Files!Goto(s, {"new"}, "ended")
    BY <2>1, <2>2, PhaseGoes
  <2>4. Files!Refuse(s)
    BY <1>5, <2>3
    DEF EmitStartFailed, fileVars, Files!Refuse, Files!files, Written, Files!Written
  <2> QED
    BY <2>4 DEF Files!SessionStep
<1>6. ASSUME NEW s \in Session, WriteActiveSession(s) PROVE Step(s)
  <2>1. Goto(s, "started", "filed")
    BY <1>6 DEF WriteActiveSession
  <2>2. FilePhase(s) = "running" /\ FilePhase(s)' = "recording"
    BY <2>1 DEF Goto, TypeOK, FilePhase
  <2>3. Files!Goto(s, {"running"}, "recording")
    BY <2>1, <2>2, PhaseGoes
  <2>4. Files!Name(s)
    BY <1>6, <2>3
    DEF WriteActiveSession, fileVars, Files!Name, Files!files, Written, Files!Written
  <2> QED
    BY <2>4 DEF Files!SessionStep
<1>7. ASSUME NEW s \in Session, EmitRecording(s) PROVE Step(s)
  BY <1>7, PhaseStays DEF EmitRecording, fileVars, TypeOK, Goto, FilePhase
<1>8. ASSUME NEW s \in Session, SpawnLifecycle(s) PROVE Step(s)
  BY <1>8, PhaseStays DEF SpawnLifecycle, fileVars, TypeOK, Goto, FilePhase
<1>9. ASSUME NEW s \in Session, NoticeStop(s) PROVE Step(s)
  BY <1>9, PhaseStays DEF NoticeStop, fileVars, TypeOK, Goto, FilePhase
<1>10. ASSUME NEW s \in Session, Drained(s) PROVE Step(s)
  <2>1. UNCHANGED <<activeFile, lastFile>> /\ outcome[s] = "none"
    BY <1>10 DEF Drained, Goto, fileVars, AllSaidSoFar, SaidSoFar
  <2>2. CASE Goto(s, "draining", "drained") /\ outcome' = [outcome EXCEPT ![s] = "ok"]
    <3>1. Audio' = Audio \union {s} /\ s \notin Audio
      BY <2>1, <2>2 DEF Audio, TypeOK
    <3>2. FilePhase(s) = "recording" /\ FilePhase(s)' = "recording"
      BY <2>2 DEF Goto, TypeOK, FilePhase
    <3>3. Phases[s] = "recording" /\ Phases' = Phases
      BY <2>2, <3>2, PhaseMoves DEF Phases
    <3>4. Files!Tape(s)
      BY <2>1, <3>1, <3>3 DEF Phases, Audio, Files!Tape, Files!files
    <3> QED
      BY <3>4 DEF Files!SessionStep
  <2>3. CASE Goto(s, "draining", "stopping") /\ outcome' = [outcome EXCEPT ![s] = "err"]
    <3>1. Audio' = Audio
      BY <2>1, <2>3 DEF Audio, TypeOK
    <3>2. FilePhase(s) = "recording" /\ FilePhase(s)' = "recording"
      BY <2>3 DEF Goto, TypeOK, FilePhase
    <3>3. Phases' = Phases
      BY <2>3, <3>2, PhaseMoves DEF Phases
    <3> QED
      BY <2>1, <3>1, <3>3 DEF Phases, Audio, Files!fvars, Files!files
  <2>4. CASE Goto(s, "draining", "ending") /\ outcome' = [outcome EXCEPT ![s] = "panic"]
    <3>1. Audio' = Audio
      BY <2>1, <2>4 DEF Audio, TypeOK
    <3>2. FilePhase(s) = "recording" /\ FilePhase(s)' = "ending"
      BY <2>4 DEF Goto, TypeOK, FilePhase
    <3>3. Files!Goto(s, {"recording"}, "ending")
      BY <2>4, <3>2, PhaseGoes
    <3>4. Files!Panic(s)
      BY <2>1, <3>1, <3>3 DEF Audio, Files!Panic, Files!files
    <3> QED
      BY <3>4 DEF Files!SessionStep
  <2> QED
    BY <1>10, <2>2, <2>3, <2>4 DEF Drained
<1>11. ASSUME NEW s \in Session, EmitStopping(s) PROVE Step(s)
  BY <1>11, PhaseStays DEF EmitStopping, fileVars, TypeOK, Goto, FilePhase
<1>12. ASSUME NEW s \in Session, PersistAudioOnly(s) PROVE Step(s)
  <2>1. Goto(s, "stopping", "audioFiled")
    BY <1>12 DEF PersistAudioOnly
  <2>2. FilePhase(s) = "recording" /\ FilePhase(s)' = "filed"
    BY <2>1 DEF Goto, TypeOK, FilePhase
  <2>3. Files!Goto(s, {"recording"}, "filed")
    BY <2>1, <2>2, PhaseGoes
  <2>4. Files!PersistAudioOnly(s)
    BY <1>12, <2>3
    DEF PersistAudioOnly, fileVars, Files!PersistAudioOnly, Files!files, Written, Files!Written
  <2> QED
    BY <2>4 DEF Files!SessionStep
<1>13. ASSUME NEW s \in Session, EmitRecordingComplete(s) PROVE Step(s)
  BY <1>13, PhaseStays DEF EmitRecordingComplete, fileVars, TypeOK, Goto, FilePhase
<1>14. ASSUME NEW s \in Session, ReleaseSlot(s) PROVE Step(s)
  <2>1. Goto(s, "completed", "released")
    BY <1>14 DEF ReleaseSlot
  <2>2. FilePhase(s) = "filed" /\ FilePhase(s)' = "released"
    BY <2>1 DEF Goto, TypeOK, FilePhase
  <2>3. Files!Goto(s, {"filed"}, "released")
    BY <2>1, <2>2, PhaseGoes
  <2>4. Files!Release(s)
    BY <1>14, <2>3
    DEF ReleaseSlot, fileVars, Files!Release, Files!files, Written, Files!Written
  <2> QED
    BY <2>4 DEF Files!SessionStep
<1>15. ASSUME NEW s \in Session, RecordHistory(s) PROVE Step(s)
  <2>1. UNCHANGED <<activeFile, lastFile, outcome>>
    BY <1>15 DEF RecordHistory, fileVars
  <2>2. CASE Goto(s, "released", "recorded")
    BY <2>1, <2>2, PhaseStays DEF Goto, TypeOK, FilePhase
  <2>3. CASE Goto(s, "released", "ending")
    <3>1. FilePhase(s) = "released" /\ FilePhase(s)' = "ending"
      BY <2>3 DEF Goto, TypeOK, FilePhase
    <3>2. Files!Goto(s, {"released", "full"}, "ending")
      BY <2>3, <3>1, PhaseGoes
    <3>3. Files!End(s)
      BY <2>1, <3>2 DEF Files!End, Files!files
    <3> QED
      BY <3>3 DEF Files!SessionStep
  <2> QED
    BY <1>15, <2>2, <2>3 DEF RecordHistory
<1>16. ASSUME NEW s \in Session, SubmitAuto(s) PROVE Step(s)
  BY <1>16, PhaseStays DEF SubmitAuto, fileVars, TypeOK, Goto, FilePhase
<1>17. ASSUME NEW s \in Session, AwaitJob(s) PROVE Step(s)
  <2>1. UNCHANGED <<activeFile, lastFile, outcome>>
    BY <1>17 DEF AwaitJob, fileVars
  <2>2. CASE Goto(s, "awaiting", "transcribed")
    BY <2>1, <2>2, PhaseStays DEF Goto, TypeOK, FilePhase
  <2>3. CASE Goto(s, "awaiting", "ending")
    <3>1. FilePhase(s) = "released" /\ FilePhase(s)' = "ending"
      BY <2>3 DEF Goto, TypeOK, FilePhase
    <3>2. Files!Goto(s, {"released", "full"}, "ending")
      BY <2>3, <3>1, PhaseGoes
    <3>3. Files!End(s)
      BY <2>1, <3>2 DEF Files!End, Files!files
    <3> QED
      BY <3>3 DEF Files!SessionStep
  <2> QED
    BY <1>17, <2>2, <2>3 DEF AwaitJob
<1>18. ASSUME NEW s \in Session, PersistWithTranscript(s) PROVE Step(s)
  <2>1. Goto(s, "transcribed", "fullFiled")
    BY <1>18 DEF PersistWithTranscript
  <2>2. FilePhase(s) = "released" /\ FilePhase(s)' = "full"
    BY <2>1 DEF Goto, TypeOK, FilePhase
  <2>3. Files!Goto(s, {"released"}, "full")
    BY <2>1, <2>2, PhaseGoes
  <2>4. Files!PersistWithTranscript(s)
    BY <1>18, <2>3
    DEF PersistWithTranscript, fileVars, Files!PersistWithTranscript, Files!files, Written, Files!Written
  <2> QED
    BY <2>4 DEF Files!SessionStep
<1>19. ASSUME NEW s \in Session, EmitTranscriptComplete(s) PROVE Step(s)
  <2>1. Goto(s, "fullFiled", "ending")
    BY <1>19 DEF EmitTranscriptComplete
  <2>2. FilePhase(s) = "full" /\ FilePhase(s)' = "ending"
    BY <2>1 DEF Goto, TypeOK, FilePhase
  <2>3. Files!Goto(s, {"released", "full"}, "ending")
    BY <2>1, <2>2, PhaseGoes
  <2>4. Files!End(s)
    BY <1>19, <2>3
    DEF EmitTranscriptComplete, fileVars, Files!End, Files!files, Written, Files!Written
  <2> QED
    BY <2>4 DEF Files!SessionStep
<1>20. ASSUME NEW s \in Session, EmitTerminal(s) PROVE Step(s)
  BY <1>20, PhaseStays DEF EmitTerminal, fileVars, TypeOK, Goto, FilePhase
<1>21. ASSUME NEW s \in Session, ClearActiveSession(s) PROVE Step(s)
  <2>1. Goto(s, "clearing", "done")
    BY <1>21 DEF ClearActiveSession
  <2>2. FilePhase(s) = "ending" /\ FilePhase(s)' = "ended"
    BY <2>1 DEF Goto, TypeOK, FilePhase
  <2>3. Files!Goto(s, {"ending"}, "ended")
    BY <2>1, <2>2, PhaseGoes
  <2>4. Files!Clear(s)
    BY <1>21, <2>3
    DEF ClearActiveSession, fileVars, Files!Clear, Files!files, Written, Files!Written
  <2> QED
    BY <2>4 DEF Files!SessionStep
<1>22. ASSUME UNCHANGED <<pc, outcome, activeFile, lastFile>>
       PROVE  UNCHANGED Files!fvars
  BY <1>22 DEF FilePhase, Files!fvars, Files!files
<1>23. ASSUME NEW s \in Session, StopRecording(s) \/ BusStop(s) PROVE Step(s)
  BY <1>22, <1>23 DEF StopRecording, BusStop, fileVars
<1>24. ASSUME NEW s \in Session, NEW r \in {"ok", "err", "canceled"},
              JobResolves(s, r)
       PROVE  Step(s)
  BY <1>22, <1>24 DEF JobResolves, fileVars
<1>25. CASE Terminate \/ MainStep \/ UNCHANGED vars
  BY <1>22, <1>25
  DEF Terminate, MainStep, DrainStarts, DrainLifecycles, Exit, vars, fileVars
<1> QED
  BY <1>1, <1>2, <1>3, <1>4, <1>5, <1>6, <1>7, <1>8, <1>9, <1>10, <1>11, <1>12,
     <1>13, <1>14, <1>15, <1>16, <1>17, <1>18, <1>19, <1>20, <1>21, <1>23, <1>24,
     <1>25
  DEF Next, HandlerStep, LifecycleStep

(* The daemon writes the two state files in the order StateFiles states:   *)
(* active-session.json while a recorder runs, last-session.json before the *)
(* slot is free, the transcript after it, and the removal last.  Recovery  *)
(* relies on that order.                                                   *)
THEOREM FilesInOrder == Spec => StateFilesSpec
<1>1. Init => Files!FilesInit
  BY DEF Init, NoLast, Files!FilesInit, FilePhase
<1>2. TypeOK /\ SlotOwnership /\ AllSaidSoFar /\ [Next]_vars
        => [\E s \in Session : Files!SessionStep(s)]_(Files!fvars)
  BY FilesStep
<1> QED
  BY <1>1, <1>2, TypeCorrect, SlotIsOwned, SaidHolds, PTL
  DEF Spec, StateFilesSpec, Files!FilesSpec
=============================================================================
