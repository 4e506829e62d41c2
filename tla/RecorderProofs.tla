--------------------------- MODULE RecorderProofs ---------------------------
(***************************************************************************)
(* Proofs about Recorder, for every number of stop requests, bus messages  *)
(* and samples: type correctness, that an Ok report rests on a verdict of  *)
(* the pipeline, that the live PCM is the whole recording or nothing, and  *)
(* that no file of somebody else is lost.                                  *)
(***************************************************************************)
EXTENDS Recorder, TLAPS

-----------------------------------------------------------------------------
(* Type correctness *)

(* Every message is counted once: an underrun is a message that was posted *)
(* and is no longer queued.                                                *)
MessagesCounted == underruns + Len(bus) <= posted

(* The callback of the appsink only ever moves the two counters and the    *)
(* latch.                                                                  *)
Capture == [samples : Nat, dropped : BOOLEAN, delivered : Nat, taken : Nat]

LEMMA PushType ==
    ASSUME NEW c \in Capture, NEW n \in Nat PROVE push(c, n) \in Capture
<1> DEFINE kept == c.samples + n
           seen == c.delivered + n
<1>1. kept \in Nat /\ seen \in Nat
  BY DEF Capture
<1> HIDE DEF kept, seen
<1>2. /\ [c EXCEPT !.delivered = seen] \in Capture
      /\ [c EXCEPT !.dropped = TRUE, !.samples = 0, !.delivered = seen] \in Capture
      /\ [c EXCEPT !.samples = kept, !.delivered = seen] \in Capture
  BY <1>1 DEF Capture
<1>3. push(c, n) \in {[c EXCEPT !.delivered = seen],
                    [c EXCEPT !.dropped = TRUE, !.samples = 0, !.delivered = seen],
                    [c EXCEPT !.samples = kept, !.delivered = seen]}
  BY Zenon DEF push, kept, seen
<1> QED
  BY <1>2, <1>3

LEMMA TypeStep ==
    TypeOK /\ MessagesCounted /\ [Next]_vars => TypeOK' /\ MessagesCounted'
<1> SUFFICES ASSUME TypeOK, MessagesCounted, [Next]_vars
             PROVE  TypeOK' /\ MessagesCounted'
  OBVIOUS
<1> USE BoundsAreNaturals
    DEF TypeOK, MessagesCounted, vars, pipeVars, busVars, ownerVars, OwnerStates,
        Outcomes, FailStart, NoPcm
<1>1. CASE Resolve
  BY <1>1 DEF Resolve
<1>2. CASE Precreate
  BY <1>2 DEF Precreate
<1>3. CASE Build
  BY <1>3 DEF Build, cleanup_on_failure
<1>4. CASE Play
  BY <1>4 DEF Play, cleanup_on_failure
<1>5. CASE BeginDrain
  BY <1>5 DEF BeginDrain
<1>6. CASE wait_for_drain_signal
  BY <1>6 DEF wait_for_drain_signal
<1>7. CASE JoinBusThread
  BY <1>7 DEF JoinBusThread
<1>8. CASE SetNull
  BY <1>8 DEF SetNull
<1>9. CASE Report
  <2>1. pcm' \in [samples : Nat, dropped : BOOLEAN, delivered : Nat, taken : Nat]
    BY <1>9 DEF Report, take
  <2>2. state' \in {"none", "Recording", "Stopping", "Failed", "Idle"}
    BY <1>9 DEF Report
  <2>3. result' \in Outcomes
    BY <1>9 DEF Report
  <2> QED
    BY <1>9, <2>1, <2>2, <2>3 DEF Report
<1>10. CASE BusCheckShutdown
  BY <1>10 DEF BusCheckShutdown
<1>11. CASE BusPopTimeout
  BY <1>11 DEF BusPopTimeout
<1>12. CASE BusPopMessage
  <2>1. bus' \in Seq(BusMsg) /\ Len(bus') = Len(bus) - 1 /\ Len(bus) \in Nat
    BY <1>12 DEF BusPopMessage
  <2>2. stop' \in StopReason /\ published' \subseteq DrainReasons
    BY <1>12 DEF BusPopMessage, DrainReasons, StopReason
  <2>3. underruns' \in {underruns, underruns + 1}
    BY <1>12 DEF BusPopMessage
  <2>4. warnings' \in 0..MaxWarnings
    BY <1>12 DEF BusPopMessage, retain
  <2> QED
    BY <1>12, <2>1, <2>2, <2>3, <2>4 DEF BusPopMessage
<1>13. CASE DeadlinePasses
  BY <1>13 DEF DeadlinePasses
<1>14. ASSUME NEW m \in BusMsg, PostMessage(m)
       PROVE  TypeOK' /\ MessagesCounted'
  <2>1. bus' \in Seq(BusMsg) /\ Len(bus') = Len(bus) + 1 /\ Len(bus) \in Nat
    BY <1>14 DEF PostMessage
  <2> QED
    BY <1>14, <2>1 DEF PostMessage
<1>15. ASSUME NEW n \in 1..2, NewSample(n) PROVE TypeOK' /\ MessagesCounted'
  <2>1. pcm' \in Capture
    <3>1. pcm \in Capture /\ n \in Nat
      BY DEF Capture
    <3> QED
      BY <1>15, <3>1, PushType DEF NewSample
  <2>2. UNCHANGED <<pipeVars, busVars, ownerVars, stop, stops>>
    BY <1>15 DEF NewSample
  <2>3. pcm' \in [samples : Nat, dropped : BOOLEAN, delivered : Nat, taken : Nat]
    BY <2>1, Zenon DEF Capture
  <2> QED
    BY <2>2, <2>3
<1>16. ASSUME NEW r \in CallerReasons, RequestStop(r)
       PROVE  TypeOK' /\ MessagesCounted'
  BY <1>16 DEF RequestStop, CallerReasons, StopReason
<1>17. CASE UNCHANGED vars
  BY <1>17
<1> QED
  BY <1>1, <1>2, <1>3, <1>4, <1>5, <1>6, <1>7, <1>8, <1>9, <1>10, <1>11, <1>12,
     <1>13, <1>14, <1>15, <1>16, <1>17
  DEF Next, OwnerNext, BusNext, Finished

(* Every reachable state of a recording is well typed; in particular no    *)
(* underrun is counted twice.                                              *)
THEOREM TypeCorrect == Spec => []TypeOK
<1>1. Init => TypeOK /\ MessagesCounted
  <2> SUFFICES ASSUME Init PROVE TypeOK /\ MessagesCounted
    OBVIOUS
  <2>1. bus \in Seq(BusMsg) /\ Len(bus) = 0
    BY DEF Init
  <2>2. pcm \in Capture
    BY DEF Init, EmptyCapture, NoPcm, Capture
  <2>3. stop \in StopReason /\ published \subseteq DrainReasons
    BY DEF Init, StopReason
  <2>4. pc \in OwnerStates /\ result \in Outcomes
    BY DEF Init, OwnerStates, Outcomes
  <2>5. /\ stops = 0 /\ posted = 0 /\ underruns = 0 /\ warnings = 0
        /\ file \in {"absent", "foreign"} /\ gst = "null" /\ busPc = "none"
        /\ state = "none" /\ {eosPosted, busShutdown, deadline, eosSeen} \subseteq BOOLEAN
    BY Zenon DEF Init
  <2>6. pcm \in [samples : Nat, dropped : BOOLEAN, delivered : Nat, taken : Nat]
    BY <2>2, Zenon DEF Capture
  <2> QED
    BY <2>1, <2>3, <2>4, <2>5, <2>6, BoundsAreNaturals
    DEF TypeOK, MessagesCounted
<1>2. TypeOK /\ MessagesCounted /\ [Next]_vars => TypeOK' /\ MessagesCounted'
  BY TypeStep
<1> QED
  BY <1>1, <1>2, PTL DEF Spec

-----------------------------------------------------------------------------
(* The verdict of the pipeline *)

(* A drain reason in the channel was put there by the bus thread, even if  *)
(* a caller may overwrite it; the drain ends early only on such a reason;  *)
(* and Ok is reported only of a drain that did.                            *)
VerdictPublished ==
    /\ stop \in DrainReasons => stop \in published
    /\ eosSeen => published # {}
    /\ pc # "returned" => result = "none"
    /\ result = "Ok" => eosSeen

LEMMA VerdictStep ==
    TypeOK /\ VerdictPublished /\ [Next]_vars => VerdictPublished'
<1> SUFFICES ASSUME TypeOK, VerdictPublished, [Next]_vars
             PROVE  VerdictPublished'
  OBVIOUS
<1> USE DEF VerdictPublished, vars, pipeVars, busVars, ownerVars
<1>1. CASE /\ UNCHANGED <<stop, published, eosSeen, result>>
           /\ pc = "returned" => pc' = "returned"
  BY <1>1
<1>2. CASE Resolve \/ Precreate \/ Build \/ Play
  BY <1>2 DEF Resolve, Precreate, Build, Play, FailStart
<1>3. CASE BeginDrain \/ JoinBusThread \/ DeadlinePasses
  BY <1>1, <1>3 DEF BeginDrain, JoinBusThread, DeadlinePasses
<1>4. CASE wait_for_drain_signal
  BY <1>4 DEF wait_for_drain_signal
<1>5. CASE SetNull
  BY <1>5 DEF SetNull
<1>6. CASE Report
  <2>1. pc' = "returned" /\ UNCHANGED <<stop, published, eosSeen>>
    BY <1>6 DEF Report
  <2>2. result' = "Ok" => eosSeen
    BY <1>6 DEF Report, ErrorReasons
  <2> QED
    BY <2>1, <2>2
<1>7. CASE BusCheckShutdown \/ BusPopTimeout
  BY <1>1, <1>7 DEF BusCheckShutdown, BusPopTimeout
<1>8. CASE BusPopMessage
  BY <1>8 DEF BusPopMessage
<1>9. ASSUME NEW m \in BusMsg, PostMessage(m) PROVE VerdictPublished'
  BY <1>1, <1>9 DEF PostMessage
<1>10. ASSUME NEW n \in 1..2, NewSample(n) PROVE VerdictPublished'
  BY <1>1, <1>10 DEF NewSample
<1>11. ASSUME NEW r \in CallerReasons, RequestStop(r) PROVE VerdictPublished'
  <2>1. r \notin DrainReasons
    BY <1>11 DEF CallerReasons, DrainReasons, ErrorReasons
  <2> QED
    BY <1>11, <2>1 DEF RequestStop
<1>12. CASE UNCHANGED vars
  BY <1>1, <1>12
<1> QED
  BY <1>2, <1>3, <1>4, <1>5, <1>6, <1>7, <1>8, <1>9, <1>10, <1>11, <1>12
  DEF Next, OwnerNext, BusNext, Finished

(* However often and whenever callers ask for a stop, a recording is       *)
(* reported Ok only if the bus thread saw EOS or an error.                 *)
THEOREM OkIsFlushed == Spec => []OkNeedsPipelineVerdict
<1>1. Init => VerdictPublished
  BY DEF Init, VerdictPublished, DrainReasons, ErrorReasons
<1>2. TypeOK /\ VerdictPublished /\ [Next]_vars => VerdictPublished'
  BY VerdictStep
<1>3. VerdictPublished => OkNeedsPipelineVerdict
  BY DEF VerdictPublished, OkNeedsPipelineVerdict
<1> QED
  BY <1>1, <1>2, <1>3, TypeCorrect, PTL DEF Spec

-----------------------------------------------------------------------------
(* The live PCM *)

(* The accumulator holds everything that was delivered, or nothing once it *)
(* overflowed; and it is taken at the very end, from a pipeline in Null,   *)
(* whose appsink delivers no more.                                         *)
CaptureWhole ==
    /\ pcm.samples = IF pcm.dropped THEN 0 ELSE pcm.delivered
    /\ pcm.taken \in {NoPcm, pcm.delivered}
    /\ pcm.taken # NoPcm => pc = "returned"
    /\ pc \in {"start", "precreate", "build", "play", "report", "returned"}
          => gst = "null"

LEMMA PushWhole ==
    ASSUME NEW c \in Capture, NEW n \in Nat,
           c.samples = IF c.dropped THEN 0 ELSE c.delivered
    PROVE  /\ push(c, n).taken = c.taken
           /\ push(c, n).samples =
                 IF push(c, n).dropped THEN 0 ELSE push(c, n).delivered
BY DEF push, Capture

LEMMA CaptureStep ==
    TypeOK /\ CaptureWhole /\ [Next]_vars => CaptureWhole'
<1> SUFFICES ASSUME TypeOK, CaptureWhole, [Next]_vars
             PROVE  CaptureWhole'
  OBVIOUS
<1> USE DEF CaptureWhole, vars, pipeVars, busVars, ownerVars
<1>1. CASE UNCHANGED <<pcm, pc, gst>>
  BY <1>1
<1>2. CASE Resolve \/ Precreate \/ Build \/ Play
  BY <1>2 DEF Resolve, Precreate, Build, Play, FailStart
<1>3. CASE BeginDrain \/ wait_for_drain_signal \/ JoinBusThread \/ SetNull
  BY <1>3 DEF BeginDrain, wait_for_drain_signal, JoinBusThread, SetNull
<1>4. CASE Report
  <2>1. pcm \in Capture /\ pcm.taken = NoPcm
    BY <1>4 DEF Report, TypeOK, Capture
  <2>2. CASE UNCHANGED pcm
    BY <1>4, <2>2 DEF Report
  <2>3. CASE pcm' = [pcm EXCEPT !.taken = take(pcm)]
    <3>1. take(pcm) \in {NoPcm, pcm.delivered}
      BY <2>1 DEF take, Capture
    <3>2. /\ pcm'.samples = pcm.samples /\ pcm'.dropped = pcm.dropped
          /\ pcm'.delivered = pcm.delivered /\ pcm'.taken = take(pcm)
      BY <2>1, <2>3 DEF Capture
    <3> QED
      BY <1>4, <3>1, <3>2 DEF Report
  <2> QED
    BY <1>4, <2>2, <2>3 DEF Report
<1>5. ASSUME NEW n \in 1..2, NewSample(n) PROVE CaptureWhole'
  <2>1. pcm \in Capture /\ n \in Nat
    BY DEF TypeOK, Capture
  <2>2. pc # "returned" /\ UNCHANGED <<pc, gst>> /\ pcm' = push(pcm, n)
    BY <1>5 DEF NewSample
  <2> QED
    BY <2>1, <2>2, PushWhole
<1>6. ASSUME NEW m \in BusMsg, PostMessage(m) PROVE CaptureWhole'
  BY <1>1, <1>6 DEF PostMessage
<1>7. ASSUME NEW r \in CallerReasons, RequestStop(r) PROVE CaptureWhole'
  BY <1>1, <1>7 DEF RequestStop
<1>8. CASE BusNext \/ DeadlinePasses \/ UNCHANGED vars
  BY <1>1, <1>8
  DEF BusNext, BusCheckShutdown, BusPopTimeout, BusPopMessage, DeadlinePasses
<1> QED
  BY <1>2, <1>3, <1>4, <1>5, <1>6, <1>7, <1>8 DEF Next, OwnerNext, Finished

(* The PCM that a report hands to the transcription is every sample that   *)
(* was delivered, or none, for any buffer limit.                           *)
THEOREM PcmIsWhole == Spec => []PcmAllOrNothing
<1>1. Init => CaptureWhole
  BY DEF Init, CaptureWhole, EmptyCapture, NoPcm
<1>2. TypeOK /\ CaptureWhole /\ [Next]_vars => CaptureWhole'
  BY CaptureStep
<1>3. CaptureWhole => PcmAllOrNothing
  BY DEF CaptureWhole, PcmAllOrNothing
<1> QED
  BY <1>1, <1>2, <1>3, TypeCorrect, PTL DEF Spec

-----------------------------------------------------------------------------
(* What a step may never do *)

(* The bus thread runs from Play until the owner joined it, and the owner  *)
(* cleans up only a path that it created a file at.                        *)
OwnerInOrder ==
    /\ pc \in {"teardown", "report"} => busPc = "exited"
    /\ pc \in {"build", "play"} => file = "ours"

LEMMA OrderStep ==
    TypeOK /\ OwnerInOrder /\ [Next]_vars
        => /\ OwnerInOrder'
           /\ pc \in {"teardown", "report"} => published' = published
           /\ file = "foreign" => file' = "foreign"
<1> SUFFICES ASSUME TypeOK, OwnerInOrder, [Next]_vars
             PROVE  /\ OwnerInOrder'
                    /\ pc \in {"teardown", "report"} => published' = published
                    /\ file = "foreign" => file' = "foreign"
  OBVIOUS
<1> USE DEF OwnerInOrder, vars, pipeVars, busVars, ownerVars
<1>1. CASE Resolve \/ Precreate \/ Build \/ Play
  BY <1>1 DEF Resolve, Precreate, Build, Play, FailStart, create_new,
              cleanup_on_failure
<1>2. CASE BeginDrain \/ wait_for_drain_signal \/ JoinBusThread
  BY <1>2 DEF BeginDrain, wait_for_drain_signal, JoinBusThread, BusThreadJoined
<1>3. CASE SetNull \/ Report
  BY <1>3 DEF SetNull, Report
<1>4. CASE BusNext
  BY <1>4 DEF BusNext, BusCheckShutdown, BusPopTimeout, BusPopMessage
<1>5. CASE UNCHANGED <<pc, busPc, file, published>>
  BY <1>5
<1>6. ASSUME NEW m \in BusMsg, PostMessage(m)
      PROVE  UNCHANGED <<pc, busPc, file, published>>
  BY <1>6 DEF PostMessage
<1>7. ASSUME NEW n \in 1..2, NewSample(n)
      PROVE  UNCHANGED <<pc, busPc, file, published>>
  BY <1>7 DEF NewSample
<1>8. ASSUME NEW r \in CallerReasons, RequestStop(r)
      PROVE  UNCHANGED <<pc, busPc, file, published>>
  BY <1>8 DEF RequestStop
<1>9. CASE DeadlinePasses \/ UNCHANGED vars
  BY <1>5, <1>9 DEF DeadlinePasses
<1> QED
  BY <1>1, <1>2, <1>3, <1>4, <1>5, <1>6, <1>7, <1>8, <1>9
  DEF Next, OwnerNext, Finished

LEMMA OrderHolds == Spec => []OwnerInOrder
<1>1. Init => OwnerInOrder
  BY DEF Init, OwnerInOrder
<1> QED
  BY <1>1, OrderStep, TypeCorrect, PTL DEF Spec

(* Once the bus thread is joined, the reason that the report is built from *)
(* is final as far as the pipeline is concerned.                           *)
THEOREM VerdictIsFrozen == Spec => VerdictFrozenAfterJoin
<1>1. TypeOK /\ OwnerInOrder /\ [Next]_vars
        => [(pc \in {"teardown", "report"}) => (published' = published)]_vars
  BY OrderStep
<1> QED
  BY <1>1, OrderHolds, TypeCorrect, PTL DEF Spec, VerdictFrozenAfterJoin

(* No path of start, and no cleanup after a failure, removes or replaces a *)
(* file that was at the output path before.                                *)
THEOREM ForeignFileIsKept == Spec => ForeignFileKept
<1>1. TypeOK /\ OwnerInOrder /\ [Next]_vars
        => [file = "foreign" => file' = "foreign"]_vars
  BY OrderStep
<1> QED
  BY <1>1, OrderHolds, TypeCorrect, PTL DEF Spec, ForeignFileKept
=============================================================================
