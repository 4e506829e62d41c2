----------------------------- MODULE DaemonProofs -----------------------------
(***************************************************************************)
(* Proofs about the daemon's durable side, for every set of sessions, every*)
(* number of crashes, every depth of the history channel, every width of   *)
(* the transcription lane, and with or without failing writes: what        *)
(* recovery makes of the state files, that the history index follows its   *)
(* requests, and that the job queue leaves its outcomes there.             *)
(***************************************************************************)
EXTENDS MCDaemon, FiniteSetTheorems, SequenceTheorems, TLAPS

-----------------------------------------------------------------------------
(* Recovery *)

Living(s) == phase[s] \in R!Naming

(* Two sessions that count on active-session.json at the same time were    *)
(* both marked; one that has it to itself is named by it.                  *)
FileShared ==
    /\ \A s, t \in Session : s # t /\ Living(s) /\ Living(t) => s \in shared
    /\ \A s \in Session :
          boot = "serving" /\ ~IoMayFail /\ Living(s) /\ s \notin shared \union early
          => activeFile = s

(* A death ends every session that had begun.  Who named itself since then *)
(* was early as long as the recovery is not over, and then the file names  *)
(* nobody else.                                                            *)
DeadAreEnded ==
    /\ boot = "down" => \A s \in Session : phase[s] \in {"new", "ended"}
    /\ \A s \in Session : killed[s] # "new" => phase[s] = "ended"
    /\ boot # "serving" =>
          \A s \in Session : Living(s) =>
             s \in early /\ (~IoMayFail => activeFile \in {NoSession} \union early)

Recovering == {"read", "found", "filed", "clearing"}

DeadOrEarly(s) == phase[s] = "ended" \/ s \in early

(* The file names sessions that have begun; at a start, only dead and early*)
(* ones; and so does what the recovery read there.  Until it is removed it *)
(* names the one that was read, if no early one.                           *)
OrphanIsReal ==
    /\ activeFile # NoSession => phase[activeFile] # "new"
    /\ boot # "serving" /\ activeFile # NoSession => DeadOrEarly(activeFile)
    /\ boot \in Recovering =>
          /\ orphan \in Session /\ DeadOrEarly(orphan)
          /\ ~IoMayFail => activeFile \in {NoSession, orphan} \union early

(* What has become of the orphan's audio.                                  *)
OrphanDealtWith ==
    /\ boot \in {"found", "filed"} => orphan \in audio
    /\ boot = "filed" /\ ~IoMayFail => orphan \in named
    /\ boot = "clearing" /\ ~IoMayFail =>
          orphan \in named \union early \/ orphan \notin audio

(* Until the recovery is over, a killed session with audio of its own is   *)
(* still named by one of the two files.                                    *)
OrphanKnown ==
    \A s \in Session :
        ~IoMayFail /\ killed[s] \in R!Naming /\ s \in audio \ (shared \union early)
        => s \in named \/ (boot # "serving" /\ activeFile = s)

RecoveryInv ==
    /\ R!DTypeOK
    /\ FileShared
    /\ DeadAreEnded
    /\ OrphanIsReal
    /\ OrphanDealtWith
    /\ OrphanKnown
    /\ R!FileNamesLiving
    /\ R!SubmittedIsDead

(* A write stores the new value or, when I/O fails, leaves the old one.    *)
LEMMA WrittenIs ==
    \A old, new : \A x \in R!Written(old, new) :
        x = new \/ (IoMayFail /\ x = old)
<1>1. CASE IoMayFail
  BY <1>1 DEF R!Written
<1>2. CASE ~IoMayFail
  BY <1>2 DEF R!Written
<1> QED
  BY <1>1, <1>2

(* What a step of one session does to the files and to its phase.          *)
LEMMA SessionStepShape ==
    ASSUME R!DTypeOK, NEW s \in Session, R!SessionStep(s)
    PROVE  /\ phase' \in [Session -> R!Phase]
           /\ \A t \in Session \ {s} : phase'[t] = phase[t]
           /\ phase[s] # "ended" /\ phase'[s] # "new"
           /\ audio \subseteq audio' /\ audio' \subseteq audio \union {s}
           /\ lastFile' \in [id : Session \union {NoSession}, full : BOOLEAN]
           /\ \/ /\ phase[s] = "running" /\ phase'[s] = "recording"
                 /\ activeFile' = s \/ (IoMayFail /\ activeFile' = activeFile)
              \/ /\ phase[s] = "ending" /\ phase'[s] = "ended"
                 /\ activeFile' = NoSession \/ (IoMayFail /\ activeFile' = activeFile)
              \/ /\ activeFile' = activeFile
                 /\ phase[s] \in R!Naming <=> phase'[s] \in R!Naming
<1> USE DaemonAssumption DEF R!DTypeOK, R!Phase, R!Naming, R!Goto, R!files
<1> DEFINE Last == [id : Session \union {NoSession}, full : BOOLEAN]
<1>1. CASE R!Record(s) \/ R!Refuse(s)
  BY <1>1 DEF R!Record, R!Refuse
<1>2. CASE R!Panic(s) \/ R!Release(s) \/ R!End(s)
  BY <1>2 DEF R!Panic, R!Release, R!End
<1>3. CASE R!Tape(s)
  BY <1>3 DEF R!Tape
<1>4. CASE R!Name(s)
  <2>1. activeFile' = s \/ (IoMayFail /\ activeFile' = activeFile)
    BY <1>4, WrittenIs DEF R!Name
  <2> QED
    BY <1>4, <2>1 DEF R!Name
<1>6. CASE R!Clear(s)
  <2>1. activeFile' = NoSession \/ (IoMayFail /\ activeFile' = activeFile)
    BY <1>6, WrittenIs DEF R!Clear
  <2> QED
    BY <1>6, <2>1 DEF R!Clear
<1>5. CASE R!PersistAudioOnly(s) \/ R!PersistWithTranscript(s)
  <2>1. \A f \in BOOLEAN : [id |-> s, full |-> f] \in Last
    OBVIOUS
  <2>2. lastFile' \in Last
    <3> HIDE DEF Last
    <3>1. PICK f \in BOOLEAN : lastFile' \in R!Written(lastFile, [id |-> s, full |-> f])
      BY <1>5 DEF R!PersistAudioOnly, R!PersistWithTranscript
    <3>2. lastFile \in Last
      BY DEF Last
    <3> QED
      BY <2>1, <3>1, <3>2 DEF R!Written
  <2> QED
    BY <1>5, <2>2 DEF R!PersistAudioOnly, R!PersistWithTranscript
<1> QED
  BY <1>1, <1>2, <1>3, <1>4, <1>5, <1>6 DEF R!SessionStep

LEMMA PoolStepIsSessionStep ==
    ASSUME NEW s \in Session, R!PoolStep(s)
    PROVE  R!SessionStep(s)
BY DEF R!PoolStep, R!SessionStep

LEMMA ServeKeepsFiles ==
    ASSUME RecoveryInv, NEW s \in Session, R!Serve(s)
    PROVE  RecoveryInv'
<1> USE DaemonAssumption
<1> DEFINE others == R!Users \ {s}
<1>1. /\ boot # "down" /\ UNCHANGED <<boot, orphan, submitted, crashes, killed>>
      /\ R!DTypeOK /\ R!SessionStep(s)
      /\ shared' = IF phase'[s] \in R!Naming /\ others # {}
                   THEN shared \union {s} \union others ELSE shared
      /\ early' = IF phase'[s] \in R!Naming /\ boot # "serving"
                  THEN early \union {s} ELSE early
      /\ named' = named \union ({lastFile'.id} \ {NoSession})
  BY PoolStepIsSessionStep DEF R!Serve, RecoveryInv
<1>2. /\ phase' \in [Session -> R!Phase]
      /\ \A t \in Session \ {s} : phase'[t] = phase[t]
      /\ phase[s] # "ended" /\ phase'[s] # "new"
      /\ audio \subseteq audio' /\ audio' \subseteq audio \union {s}
      /\ lastFile' \in [id : Session \union {NoSession}, full : BOOLEAN]
  BY <1>1, SessionStepShape
<1>3. \/ /\ phase[s] = "running" /\ phase'[s] = "recording"
         /\ activeFile' = s \/ (IoMayFail /\ activeFile' = activeFile)
      \/ /\ phase[s] = "ending" /\ phase'[s] = "ended"
         /\ \/ activeFile' = NoSession
            \/ IoMayFail /\ activeFile' = activeFile
      \/ /\ activeFile' = activeFile
         /\ phase[s] \in R!Naming <=> phase'[s] \in R!Naming
  BY <1>1, SessionStepShape
<1>4. /\ others \subseteq Session \ {s}
      /\ \A t \in Session \ {s} : Living(t) => t \in others
      /\ boot # "serving" /\ activeFile \in Session \ {s} => activeFile \in others
  BY DEF R!Users, Living
<1> HIDE DEF others
<1>5. /\ shared \subseteq shared' /\ shared' \subseteq Session
      /\ early \subseteq early' /\ early' \subseteq Session
      /\ named \subseteq named'
      /\ boot # "serving" /\ Living(s)' => s \in early'
      /\ Living(s)' => others \subseteq shared' /\ (others # {} => s \in shared')
  BY <1>1, <1>4 DEF R!DTypeOK, Living
<1>6. R!DTypeOK'
  <2>1. lastFile'.id \in Session \union {NoSession}
    BY <1>2
  <2>2. named' \subseteq Session
    BY <1>1, <2>1 DEF R!DTypeOK
  <2>3. activeFile' \in Session \union {NoSession} /\ audio' \subseteq Session
    BY <1>1, <1>2, <1>3 DEF R!DTypeOK
  <2> QED
    BY <1>1, <1>2, <1>5, <2>2, <2>3 DEF R!DTypeOK
<1>7. FileShared'
  <2>1. ASSUME NEW t \in Session, NEW u \in Session, t # u, Living(t)', Living(u)'
        PROVE  t \in shared'
    <3>1. CASE t # s /\ u # s
      BY <1>2, <1>5, <2>1, <3>1 DEF RecoveryInv, FileShared, Living
    <3>2. CASE t = s
      <4>1. Living(u)
        BY <1>2, <2>1, <3>2 DEF Living
      <4> QED
        BY <1>4, <1>5, <2>1, <3>2, <4>1
    <3>3. CASE u = s
      <4>1. Living(t)
        BY <1>2, <2>1, <3>3 DEF Living
      <4> QED
        BY <1>4, <1>5, <2>1, <3>3, <4>1
    <3> QED
      BY <3>1, <3>2, <3>3
  <2>2. ASSUME boot = "serving", ~IoMayFail, NEW t \in Session, Living(t)',
               t \notin shared' \union early'
        PROVE  activeFile' = t
    <3>1. CASE t = s
      <4>1. phase'[s] \in R!Naming /\ s \notin shared \union early
        BY <1>5, <2>2, <3>1 DEF Living
      <4>2. phase[s] \in R!Naming => activeFile = s
        BY <2>2, <4>1 DEF RecoveryInv, FileShared, Living
      <4> QED
        BY <1>3, <2>2, <3>1, <4>1, <4>2 DEF R!Naming
    <3>2. CASE t # s
      <4>1. Living(t) /\ t \notin shared \union early
        BY <1>2, <1>5, <2>2, <3>2 DEF Living
      <4>2. activeFile = t
        BY <2>2, <4>1 DEF RecoveryInv, FileShared
      <4>3. phase'[s] \notin R!Naming
        BY <1>4, <1>5, <2>2, <3>2, <4>1 DEF Living
      <4>4. phase[s] \notin R!Naming
        BY <3>2, <4>1 DEF RecoveryInv, FileShared, Living
      <4> QED
        BY <1>3, <4>2, <4>3, <4>4 DEF R!Naming
    <3> QED
      BY <3>1, <3>2
  <2> QED
    BY <1>1, <2>1, <2>2 DEF FileShared
<1>8. DeadAreEnded'
  <2>1. ASSUME boot # "serving", NEW t \in Session, Living(t)'
        PROVE  /\ t \in early'
               /\ ~IoMayFail => activeFile' \in {NoSession} \union early'
    <3>1. t # s => Living(t)
      BY <1>2, <2>1 DEF Living
    <3>2. t \in early'
      BY <1>5, <2>1, <3>1 DEF RecoveryInv, DeadAreEnded
    <3>3. CASE activeFile' = s /\ phase'[s] = "recording"
      BY <1>5, <2>1, <3>2, <3>3 DEF Living, R!Naming
    <3>4. CASE activeFile' = activeFile /\ (phase[s] \in R!Naming <=> phase'[s] \in R!Naming)
      <4>1. Living(t)
        BY <2>1, <3>1, <3>4 DEF Living
      <4> QED
        BY <1>5, <2>1, <3>2, <3>4, <4>1 DEF RecoveryInv, DeadAreEnded
    <3> QED
      BY <1>3, <3>2, <3>3, <3>4
  <2> QED
    BY <1>1, <1>2, <2>1 DEF RecoveryInv, DeadAreEnded
<1>9. \A t \in Session : DeadOrEarly(t) => DeadOrEarly(t)'
  BY <1>2, <1>5 DEF DeadOrEarly
<1>10. activeFile' \in {NoSession, activeFile}
         \/ (activeFile' = s /\ phase'[s] = "recording")
  BY <1>3
<1>11. OrphanIsReal'
  <2>1. activeFile' # NoSession => phase'[activeFile'] # "new"
    BY <1>1, <1>2, <1>10 DEF RecoveryInv, OrphanIsReal, R!DTypeOK
  <2>2. ASSUME boot # "serving", activeFile' # NoSession
        PROVE  DeadOrEarly(activeFile)'
    <3>1. CASE activeFile' = s /\ phase'[s] = "recording"
      BY <1>5, <2>2, <3>1 DEF DeadOrEarly, Living, R!Naming
    <3>2. CASE activeFile' = activeFile
      <4>1. DeadOrEarly(activeFile) /\ activeFile \in Session
        BY <1>1, <2>2, <3>2 DEF RecoveryInv, OrphanIsReal, R!DTypeOK
      <4> QED
        BY <1>2, <1>5, <3>2, <4>1 DEF DeadOrEarly
    <3> QED
      BY <1>10, <2>2, <3>1, <3>2
  <2>3. ASSUME boot \in Recovering
        PROVE  /\ orphan \in Session /\ DeadOrEarly(orphan)'
               /\ ~IoMayFail => activeFile' \in {NoSession, orphan} \union early'
    <3>1. /\ orphan \in Session /\ DeadOrEarly(orphan)
          /\ ~IoMayFail => activeFile \in {NoSession, orphan} \union early
      BY <2>3 DEF RecoveryInv, OrphanIsReal
    <3>2. boot # "serving" /\ (phase'[s] = "recording" => s \in early')
      BY <1>5, <2>3 DEF Recovering, Living, R!Naming
    <3> QED
      BY <1>1, <1>2, <1>5, <1>10, <3>1, <3>2 DEF DeadOrEarly
  <2> QED
    BY <1>1, <2>1, <2>2, <2>3 DEF OrphanIsReal
<1>12. OrphanDealtWith'
  <2>1. boot = "clearing" => orphan \in Session /\ DeadOrEarly(orphan)
    BY DEF RecoveryInv, OrphanIsReal, Recovering
  <2>2. boot = "clearing" /\ orphan \in audio' \ audio => orphan \in early
    BY <1>2, <2>1 DEF DeadOrEarly
  <2> QED
    BY <1>1, <1>2, <1>5, <2>2 DEF RecoveryInv, OrphanDealtWith
<1>13. OrphanKnown'
  <2> SUFFICES ASSUME ~IoMayFail, NEW t \in Session, killed'[t] \in R!Naming,
                      t \in audio' \ (shared' \union early')
               PROVE  t \in named' \/ (boot # "serving" /\ activeFile' = t)
    BY <1>1 DEF OrphanKnown
  <2>1. phase[t] = "ended" /\ killed[t] \in R!Naming /\ t # s
    BY <1>1, <1>2 DEF RecoveryInv, DeadAreEnded, R!Naming
  <2>2. t \in audio \ (shared \union early)
    BY <1>2, <1>5, <2>1
  <2>3. CASE t \in named
    BY <1>5, <2>3
  <2>4. CASE boot # "serving" /\ activeFile = t
    <3>1. phase'[s] # "recording" \/ phase[s] \in R!Naming
      BY <1>4, <1>5, <2>1, <2>4 DEF Living, R!Naming
    <3>2. phase[s] \notin R!Naming
      BY <2>2, <2>4 DEF RecoveryInv, DeadAreEnded, Living
    <3> QED
      BY <1>3, <2>4, <3>1, <3>2 DEF R!Naming
  <2> QED
    BY <2>2, <2>1, <2>3, <2>4 DEF RecoveryInv, OrphanKnown
<1>14. R!FileNamesLiving'
  BY <1>1, <1>2, <1>3 DEF RecoveryInv, R!FileNamesLiving, R!DTypeOK, R!Naming
<1>15. R!SubmittedIsDead'
  BY <1>1, <1>2, <1>5 DEF RecoveryInv, R!SubmittedIsDead, R!DTypeOK
<1> QED
  BY <1>6, <1>7, <1>8, <1>11, <1>12, <1>13, <1>14, <1>15 DEF RecoveryInv

LEMMA CrashKeepsFiles ==
    ASSUME RecoveryInv, R!Crash
    PROVE  RecoveryInv'
<1> USE DaemonAssumption
<1>1. /\ boot # "down" /\ boot' = "down" /\ orphan' = NoSession
      /\ UNCHANGED <<activeFile, lastFile, audio, submitted, shared, early, named>>
      /\ phase' = [s \in Session |-> IF phase[s] = "new" THEN "new" ELSE "ended"]
      /\ killed' = [s \in Session |-> IF phase[s] \in {"new", "ended"} THEN killed[s]
                                      ELSE phase[s]]
  BY DEF R!Crash, R!files
<1>2. R!DTypeOK'
  BY <1>1 DEF RecoveryInv, R!DTypeOK, R!Phase
<1>3. FileShared' /\ DeadAreEnded'
  BY <1>1 DEF RecoveryInv, FileShared, DeadAreEnded, Living, R!Naming
<1>4. OrphanIsReal' /\ OrphanDealtWith'
  BY <1>1
  DEF RecoveryInv, OrphanIsReal, OrphanDealtWith, DeadOrEarly, Recovering, R!DTypeOK
<1>5. OrphanKnown'
  <2> SUFFICES ASSUME ~IoMayFail, NEW t \in Session, killed'[t] \in R!Naming,
                      t \in audio \ (shared \union early)
               PROVE  t \in named \/ activeFile = t
    BY <1>1 DEF OrphanKnown
  <2>1. CASE phase[t] \in {"new", "ended"}
    BY <1>1, <2>1 DEF RecoveryInv, OrphanKnown
  <2>2. CASE phase[t] \notin {"new", "ended"}
    <3>1. Living(t)
      BY <1>1, <2>2 DEF Living
    <3>2. boot = "serving"
      BY <3>1 DEF RecoveryInv, DeadAreEnded
    <3> QED
      BY <3>1, <3>2 DEF RecoveryInv, FileShared
  <2> QED
    BY <2>1, <2>2
<1>6. R!FileNamesLiving' /\ R!SubmittedIsDead'
  BY <1>1 DEF RecoveryInv, R!FileNamesLiving, R!SubmittedIsDead, R!DTypeOK
<1> QED
  BY <1>2, <1>3, <1>4, <1>5, <1>6 DEF RecoveryInv

LEMMA RecoverKeepsFiles ==
    ASSUME RecoveryInv, R!RecoverStep
    PROVE  RecoveryInv'
<1> USE DaemonAssumption
<1>1. /\ boot # "serving" /\ UNCHANGED <<phase, audio, crashes, killed, shared, early>>
      /\ boot' # "down"
      /\ boot' \in {"claimed", "read", "found", "filed", "clearing", "serving"}
  BY DEF R!RecoverStep, R!ClaimName, R!ReadOrphan, R!JudgeOrphan, R!FileOrphan,
         R!SubmitOrphan, R!ClearOrphan, R!recoverFrame
<1>2. \A s \in Session : Living(s) => s \in early
  BY <1>1 DEF RecoveryInv, DeadAreEnded
<1>3. FileShared'
  BY <1>1, <1>2 DEF RecoveryInv, FileShared, Living
<1>4. activeFile' \in {activeFile, NoSession} => DeadAreEnded'
  BY <1>1 DEF RecoveryInv, DeadAreEnded, Living
<1>5. CASE R!ClaimName
  <2>1. boot = "down" /\ boot' = "claimed"
        /\ UNCHANGED <<activeFile, lastFile, orphan, submitted, named>>
    BY <1>5 DEF R!ClaimName, R!files
  <2> QED
    BY <1>1, <1>3, <1>4, <2>1
    DEF RecoveryInv, R!DTypeOK, OrphanIsReal, OrphanDealtWith, OrphanKnown,
        R!FileNamesLiving, R!SubmittedIsDead, DeadOrEarly, Recovering
<1>6. CASE R!ReadOrphan
  <2>1. /\ boot = "claimed" /\ orphan' = activeFile
        /\ boot' = IF activeFile = NoSession THEN "serving" ELSE "read"
        /\ UNCHANGED <<activeFile, lastFile, submitted, named>>
    BY <1>6 DEF R!ReadOrphan, R!files
  <2>2. OrphanIsReal' /\ OrphanDealtWith'
    BY <1>1, <2>1
    DEF RecoveryInv, R!DTypeOK, OrphanIsReal, OrphanDealtWith, DeadOrEarly, Recovering
  <2>3. OrphanKnown'
    BY <1>1, <2>1 DEF RecoveryInv, OrphanKnown
  <2> QED
    BY <1>1, <1>3, <1>4, <2>1, <2>2, <2>3
    DEF RecoveryInv, R!DTypeOK, R!FileNamesLiving, R!SubmittedIsDead
<1>7. CASE R!JudgeOrphan
  <2>1. /\ boot = "read" /\ boot' = IF R!worth_recovering THEN "found" ELSE "clearing"
        /\ UNCHANGED <<activeFile, lastFile, orphan, submitted, named>>
    BY <1>7 DEF R!JudgeOrphan, R!files
  <2>2. OrphanIsReal' /\ OrphanDealtWith'
    BY <1>1, <2>1
    DEF RecoveryInv, OrphanIsReal, OrphanDealtWith, DeadOrEarly, Recovering,
        R!worth_recovering
  <2>3. OrphanKnown'
    BY <1>1, <2>1 DEF RecoveryInv, OrphanKnown
  <2> QED
    BY <1>1, <1>3, <1>4, <2>1, <2>2, <2>3
    DEF RecoveryInv, R!DTypeOK, R!FileNamesLiving, R!SubmittedIsDead
<1>8. CASE R!FileOrphan
  <2> DEFINE Last == [id : Session \union {NoSession}, full : BOOLEAN]
             new == [id |-> orphan, full |-> FALSE]
  <2>1. /\ boot = "found" /\ boot' = "filed"
        /\ UNCHANGED <<activeFile, orphan, submitted>>
        /\ lastFile' \in R!Written(lastFile, new)
        /\ named' = named \union ({lastFile'.id} \ {NoSession})
    BY <1>8 DEF R!FileOrphan
  <2>2. new \in Last /\ lastFile \in Last /\ new.id = orphan /\ orphan \in Session
    BY <2>1 DEF RecoveryInv, R!DTypeOK, OrphanIsReal, Recovering
  <2>3. lastFile' \in Last /\ (~IoMayFail => lastFile'.id = orphan)
    <3> HIDE DEF Last, new
    <3> QED
      BY <2>1, <2>2, WrittenIs
  <2>4. lastFile'.id \in Session \union {NoSession}
    BY <2>3
  <2>5. R!DTypeOK'
    BY <1>1, <2>1, <2>3, <2>4 DEF RecoveryInv, R!DTypeOK
  <2> HIDE DEF Last, new
  <2>6. named \subseteq named' /\ (~IoMayFail => orphan \in named')
    BY <2>1, <2>2, <2>3
  <2>7. OrphanIsReal' /\ OrphanDealtWith'
    BY <1>1, <2>1, <2>6
    DEF RecoveryInv, OrphanIsReal, OrphanDealtWith, DeadOrEarly, Recovering
  <2> QED
    BY <1>1, <1>3, <1>4, <2>1, <2>5, <2>6, <2>7
    DEF RecoveryInv, OrphanKnown, R!FileNamesLiving, R!SubmittedIsDead
<1>9. CASE R!SubmitOrphan
  <2>1. /\ boot = "filed" /\ boot' = "clearing"
        /\ UNCHANGED <<activeFile, lastFile, orphan, named>>
        /\ submitted' \in {submitted, submitted \union {orphan}}
    BY <1>9 DEF R!SubmitOrphan, R!files
  <2>2. orphan \in audio /\ orphan \in Session /\ DeadOrEarly(orphan)
    BY <2>1 DEF RecoveryInv, OrphanIsReal, OrphanDealtWith, Recovering
  <2>3. OrphanIsReal' /\ OrphanDealtWith'
    BY <1>1, <2>1
    DEF RecoveryInv, OrphanIsReal, OrphanDealtWith, DeadOrEarly, Recovering
  <2> QED
    BY <1>1, <1>3, <1>4, <2>1, <2>2, <2>3
    DEF RecoveryInv, R!DTypeOK, OrphanKnown, R!FileNamesLiving, R!SubmittedIsDead,
        DeadOrEarly
<1>10. CASE R!ClearOrphan
  <2>1. /\ boot = "clearing" /\ boot' = "serving" /\ orphan' = NoSession
        /\ UNCHANGED <<lastFile, submitted, named>>
        /\ activeFile' \in R!Written(activeFile, NoSession)
    BY <1>10 DEF R!ClearOrphan
  <2>2. activeFile' = NoSession \/ (IoMayFail /\ activeFile' = activeFile)
    BY <2>1, WrittenIs
  <2>3. OrphanIsReal' /\ OrphanDealtWith'
    BY <1>1, <2>1, <2>2
    DEF RecoveryInv, OrphanIsReal, OrphanDealtWith, Recovering
  <2>4. OrphanKnown'
    <3> SUFFICES ASSUME ~IoMayFail, NEW t \in Session, killed[t] \in R!Naming,
                        t \in audio \ (shared \union early)
                 PROVE  t \in named
      BY <1>1, <2>1 DEF OrphanKnown
    <3>1. t \in named \/ activeFile = t
      BY DEF RecoveryInv, OrphanKnown
    <3>2. activeFile \in {NoSession, orphan} \union early
      BY <2>1 DEF RecoveryInv, OrphanIsReal, Recovering
    <3>3. orphan \in named \union early \/ orphan \notin audio
      BY <2>1 DEF RecoveryInv, OrphanDealtWith
    <3> QED
      BY <3>1, <3>2, <3>3
  <2> QED
    BY <1>1, <1>3, <1>4, <2>1, <2>2, <2>3, <2>4
    DEF RecoveryInv, R!DTypeOK, R!FileNamesLiving, R!SubmittedIsDead
<1> QED
  BY <1>5, <1>6, <1>7, <1>8, <1>9, <1>10 DEF R!RecoverStep

LEMMA RecoveryStep == RecoveryInv /\ [R!DNext]_(R!dvars) => RecoveryInv'
<1> SUFFICES ASSUME RecoveryInv, [R!DNext]_(R!dvars) PROVE RecoveryInv'
  OBVIOUS
<1>1. CASE UNCHANGED R!dvars
  <2>1. R!DTypeOK' /\ R!FileNamesLiving' /\ R!SubmittedIsDead'
    BY <1>1
    DEF RecoveryInv, R!DTypeOK, R!FileNamesLiving, R!SubmittedIsDead, R!dvars,
        R!fvars, R!files, R!historyVars
  <2>2. FileShared' /\ DeadAreEnded' /\ OrphanKnown'
    BY <1>1
    DEF RecoveryInv, FileShared, DeadAreEnded, OrphanKnown, Living, R!dvars,
        R!fvars, R!files, R!historyVars
  <2>3. OrphanIsReal' /\ OrphanDealtWith'
    BY <1>1
    DEF RecoveryInv, OrphanIsReal, OrphanDealtWith, DeadOrEarly, R!dvars,
        R!fvars, R!files, R!historyVars
  <2> QED
    BY <2>1, <2>2, <2>3 DEF RecoveryInv
<1> QED
  BY <1>1, ServeKeepsFiles, CrashKeepsFiles, RecoverKeepsFiles DEF R!DNext

LEMMA RecoveryInit == R!DInit => RecoveryInv
<1> SUFFICES ASSUME R!DInit PROVE RecoveryInv
  OBVIOUS
<1>1. lastFile \in [id : Session \union {NoSession}, full : BOOLEAN]
  BY DEF R!DInit, R!FilesInit
<1> QED
  BY <1>1, DaemonAssumption
  DEF R!DInit, R!FilesInit, RecoveryInv, FileShared, DeadAreEnded, OrphanIsReal,
      OrphanDealtWith, OrphanKnown, Living, Recovering, R!DTypeOK,
      R!FileNamesLiving, R!SubmittedIsDead, R!Phase, R!Naming

(* Over any number of crashes and restarts active-session.json never names *)
(* a session that is over while the daemon serves, the audio a crash left  *)
(* is filed, and only dead sessions with audio are transcribed again; the  *)
(* sessions that named themselves between the claim of the bus name and    *)
(* the end of the recovery are the exception (main.rs, orphan_recovery.rs).*)
THEOREM OrphansAreFiled == Spec => []OrphansEndOnce
<1>1. Init => RecoveryInv
  BY RecoveryInit DEF Init
<1>2. RecoveryInv /\ [Next]_vars => RecoveryInv'
  <2> SUFFICES ASSUME RecoveryInv, [Next]_vars PROVE RecoveryInv'
    OBVIOUS
  <2>1. R!DNext \/ UNCHANGED rvars
    BY DEF Next, vars
  <2>2. UNCHANGED rvars => UNCHANGED R!dvars
    BY DEF rvars, R!dvars, R!fvars, R!files, R!historyVars
  <2> QED
    BY <2>1, <2>2, RecoveryStep
<1>3. RecoveryInv => OrphansEndOnce
  BY DEF RecoveryInv, OrphanKnown, OrphansEndOnce, R!OrphanFiled
<1> QED
  BY <1>1, <1>2, <1>3, PTL DEF Spec

-----------------------------------------------------------------------------
(* The history *)

LEMMA NoEntryIs ==
    /\ H!NoEntry.status = "absent" /\ H!NoEntry.transcript = FALSE
    /\ H!NoEntry \notin H!Entry
BY DEF H!NoEntry, H!Entry, H!Status

LEMMA EntryFields ==
    ASSUME NEW e \in H!Entry
    PROVE  /\ e.status \in H!Status /\ e.transcript \in BOOLEAN /\ e.error \in BOOLEAN
           /\ e.status # "absent" /\ e # H!NoEntry
<1>1. e.status \in H!Status /\ e.transcript \in BOOLEAN /\ e.error \in BOOLEAN
  BY DEF H!Entry
<1>2. e.status # "absent"
  BY <1>1 DEF H!Status
<1>3. e # H!NoEntry
  BY <1>2, NoEntryIs
<1> QED
  BY <1>1, <1>2, <1>3

(* What each request makes of the entries.                                 *)
LEMMA ApplyUpsert ==
    ASSUME NEW es \in H!Entries, NEW r \in H!Request, r.op = "upsert"
    PROVE  /\ H!Apply(es, r) \in H!Entries
           /\ \A s \in Session \ {r.id} : H!Apply(es, r)[s] = es[s]
           /\ H!Apply(es, r)[r.id] # H!NoEntry
           /\ H!Apply(es, r)[r.id].status = r.status
<1>1. H!Apply(es, r) = H!upsert(es, r)
  BY Zenon DEF H!Apply
<1>2. r.id \in Session /\ r.status \in {"recorded", "failed"}
  BY DEF H!Request
<1> DEFINE e == [status |-> r.status, transcript |-> FALSE, error |-> r.status = "failed"]
<1>3. e \in H!Entry
  BY <1>2 DEF H!Entry, H!Status
<1>4. e.status = r.status
  OBVIOUS
<1>5. e # H!NoEntry
  BY <1>3, NoEntryIs
<1>6. H!Apply(es, r) = [es EXCEPT ![r.id] = e]
  BY <1>1 DEF H!upsert
<1> HIDE DEF e
<1> QED
  BY <1>2, <1>3, <1>4, <1>5, <1>6 DEF H!Entries

LEMMA ApplyTranscript ==
    ASSUME NEW es \in H!Entries, NEW r \in H!Request, r.op = "set_transcript"
    PROVE  /\ H!Apply(es, r) \in H!Entries
           /\ \A s \in Session \ {r.id} : H!Apply(es, r)[s] = es[s]
           /\ es[r.id] = H!NoEntry => H!Apply(es, r) = es
           /\ es[r.id] # H!NoEntry =>
                 /\ H!Apply(es, r)[r.id] # H!NoEntry
                 /\ H!Apply(es, r)[r.id].status = "done"
                 /\ H!Apply(es, r)[r.id].transcript = TRUE
<1> DEFINE e == [status |-> "done", transcript |-> TRUE, error |-> FALSE]
<1>1. H!Apply(es, r) = H!set_transcript(es, r)
  BY Zenon DEF H!Apply
<1>2. r.id \in Session
  BY DEF H!Request
<1>3. e \in H!Entry /\ e.status = "done" /\ e.transcript = TRUE
  BY DEF H!Entry, H!Status
<1>4. e # H!NoEntry
  BY <1>3, NoEntryIs
<1>5. /\ es[r.id] = H!NoEntry => H!Apply(es, r) = es
      /\ es[r.id] # H!NoEntry => H!Apply(es, r) = [es EXCEPT ![r.id] = e]
  BY <1>1 DEF H!set_transcript, H!Present
<1> HIDE DEF e
<1>6. CASE es[r.id] = H!NoEntry
  BY <1>5, <1>6
<1>7. CASE es[r.id] # H!NoEntry
  BY <1>2, <1>3, <1>4, <1>5, <1>7 DEF H!Entries
<1> QED
  BY <1>6, <1>7

LEMMA ApplyStatus ==
    ASSUME NEW es \in H!Entries, NEW r \in H!Request, r.op = "set_status"
    PROVE  /\ H!Apply(es, r) \in H!Entries
           /\ \A s \in Session \ {r.id} : H!Apply(es, r)[s] = es[s]
           /\ es[r.id] = H!NoEntry => H!Apply(es, r) = es
           /\ es[r.id] # H!NoEntry =>
                 /\ H!Apply(es, r)[r.id] # H!NoEntry
                 /\ H!Apply(es, r)[r.id].status = r.status
                 /\ H!Apply(es, r)[r.id].transcript = es[r.id].transcript
<1> DEFINE e == [status |-> r.status, transcript |-> es[r.id].transcript,
                 error |-> es[r.id].error \/ r.status = "failed"]
<1>1. H!Apply(es, r) = H!set_status(es, r)
  BY Zenon DEF H!Apply
<1>2. r.id \in Session /\ r.status \in {"transcribing", "failed"}
  BY DEF H!Request
<1>3. CASE es[r.id] = H!NoEntry
  BY <1>1, <1>3, <1>2 DEF H!set_status, H!Present
<1>4. CASE es[r.id] # H!NoEntry
  <2>1. es[r.id] \in H!Entry
    BY <1>2, <1>4 DEF H!Entries
  <2>2. H!Apply(es, r) = [es EXCEPT ![r.id].status = r.status,
                                    ![r.id].error = @ \/ r.status = "failed"]
    BY <1>1, <1>4, Zenon DEF H!set_status, H!Present
  <2>3. /\ e \in H!Entry /\ e.status = r.status
        /\ e.transcript = es[r.id].transcript
    BY <1>2, <2>1, EntryFields DEF H!Entry, H!Status
  <2>4. H!Apply(es, r)[r.id] = e
    BY <1>2, <2>1, <2>2 DEF H!Entries, H!Entry
  <2>5. \A s \in Session \ {r.id} : H!Apply(es, r)[s] = es[s]
    BY <1>2, <2>2 DEF H!Entries
  <2>6. H!Apply(es, r) \in [Session -> H!Entry \union {H!NoEntry}]
    <3> HIDE DEF e
    <3>1. H!Apply(es, r) = [s \in Session |-> H!Apply(es, r)[s]]
      BY <1>2, <2>2 DEF H!Entries
    <3> QED
      BY <2>3, <2>4, <2>5, <3>1 DEF H!Entries
  <2>7. e # H!NoEntry
    BY <2>3, NoEntryIs
  <2> HIDE DEF e
  <2> QED
    BY <1>4, <2>3, <2>4, <2>5, <2>6, <2>7 DEF H!Entries
<1> QED
  BY <1>3, <1>4

LEMMA ApplyForget ==
    ASSUME NEW es \in H!Entries, NEW r \in H!Request, r.op = "forget"
    PROVE  /\ H!Apply(es, r) \in H!Entries
           /\ \A s \in Session \ {r.id} : H!Apply(es, r)[s] = es[s]
           /\ es[r.id] = H!NoEntry => H!Apply(es, r) = es
<1>1. H!Apply(es, r) = [es EXCEPT ![r.id] = H!NoEntry]
  BY Zenon DEF H!Apply
<1>2. r.id \in Session
  BY DEF H!Request
<1> QED
  BY <1>1, <1>2 DEF H!Entries

LEMMA RequestKinds ==
    ASSUME NEW r \in H!Request
    PROVE  /\ r.op \in {"upsert", "set_status", "set_transcript", "forget"}
           /\ r.id \in Session
BY DEF H!Request

LEMMA RecoverIs ==
    ASSUME NEW es \in H!Entries
    PROVE  /\ H!recover(es) \in H!Entries
           /\ \A s \in Session :
                 /\ H!recover(es)[s].status # "transcribing"
                 /\ H!recover(es)[s].transcript = es[s].transcript
                 /\ H!recover(es)[s] = H!NoEntry <=> es[s] = H!NoEntry
<1>1. ASSUME NEW s \in Session
      PROVE  /\ H!recover(es)[s] \in H!Entry \union {H!NoEntry}
             /\ H!recover(es)[s].status # "transcribing"
             /\ H!recover(es)[s].transcript = es[s].transcript
             /\ H!recover(es)[s] = H!NoEntry <=> es[s] = H!NoEntry
  <2> DEFINE e == [es[s] EXCEPT !.status = "interrupted", !.error = TRUE]
  <2>1. CASE es[s].status = "transcribing"
    <3>1. es[s] \in H!Entry
      BY <2>1, NoEntryIs DEF H!Entries
    <3>2. /\ e \in H!Entry /\ e.status = "interrupted"
          /\ e.transcript = es[s].transcript
      BY <3>1 DEF H!Entry, H!Status
    <3>3. H!recover(es)[s] = e
      BY <2>1 DEF H!recover
    <3>4. e # H!NoEntry /\ es[s] # H!NoEntry
      BY <3>1, <3>2, NoEntryIs
    <3> HIDE DEF e
    <3> QED
      BY <3>2, <3>3, <3>4
  <2>2. CASE es[s].status # "transcribing"
    BY <2>2 DEF H!recover, H!Entries
  <2> QED
    BY <2>1, <2>2
<1>2. H!recover(es) = [s \in Session |-> H!recover(es)[s]]
  BY DEF H!recover
<1> QED
  BY <1>1, <1>2 DEF H!Entries

(* persist leaves the new image, or the old one when writes may fail.      *)
Persisted(d, es) ==
    {[readable |-> TRUE, sessions |-> es]} \union IF PersistMayFail THEN {d} ELSE {}

LEMMA PersistIs ==
    ASSUME NEW d \in H!DiskImage, NEW es \in H!Entries, NEW e \in Persisted(d, es)
    PROVE  /\ e \in H!DiskImage
           /\ (e.readable = TRUE /\ e.sessions = es) \/ (PersistMayFail /\ e = d)
<1> DEFINE new == [readable |-> TRUE, sessions |-> es]
<1>1. new \in H!DiskImage /\ new.readable = TRUE /\ new.sessions = es
  BY DEF H!DiskImage
<1>2. e = new \/ (PersistMayFail /\ e = d)
  <2> HIDE DEF new
  <2>1. Persisted(d, es) = {new} \union IF PersistMayFail THEN {d} ELSE {}
    BY DEF Persisted, new
  <2>2. CASE PersistMayFail
    BY <2>1, <2>2
  <2>3. CASE ~PersistMayFail
    BY <2>1, <2>3
  <2> QED
    BY <2>2, <2>3
<1> HIDE DEF new
<1> QED
  BY <1>1, <1>2

HistoryInv ==
    /\ H!HistTypeOK
    /\ H!DiskMatchesMemory
    /\ ~disk.readable => disk.sessions = H!NoEntries

LEMMA DiskFields ==
    ASSUME NEW d \in H!DiskImage
    PROVE  d.readable \in BOOLEAN /\ d.sessions \in H!Entries
BY DEF H!DiskImage

LEMMA NoEntriesIs ==
    /\ H!NoEntries \in H!Entries
    /\ \A s \in Session : H!NoEntries[s].transcript = FALSE
BY NoEntryIs DEF H!NoEntries, H!Entries

(* The two steps that write the index.                                     *)
LEMMA LoadShape ==
    ASSUME HistoryInv, H!LoadHistory
    PROVE  /\ mem' \in H!Entries /\ disk' \in H!DiskImage
           /\ \A s \in Session : mem'[s].status # "transcribing"
           /\ \/ disk' = disk /\ (disk.readable => mem' = disk.sessions)
              \/ disk'.readable = TRUE /\ disk'.sessions = mem'
              \/ PersistMayFail /\ disk' = disk
           /\ \A s \in Session :
                 disk.sessions[s].transcript => disk'.sessions[s].transcript
           /\ writer = "loading" /\ writer' = "serving" /\ UNCHANGED <<chan, h_audio>>
<1> DEFINE found == IF disk.readable THEN disk.sessions ELSE H!NoEntries
           es == H!recover(found)
<1>1. /\ writer = "loading" /\ writer' = "serving" /\ UNCHANGED <<chan, h_audio>>
      /\ mem' = es /\ IF es # found THEN H!persist(es) ELSE UNCHANGED disk
  BY DEF H!LoadHistory
<1>2. disk \in H!DiskImage /\ disk.sessions \in H!Entries
  BY DiskFields DEF HistoryInv, H!HistTypeOK
<1>3. found \in H!Entries /\ \A s \in Session :
         disk.sessions[s].transcript => found[s].transcript
  BY <1>2, NoEntriesIs DEF HistoryInv
<1>4. /\ es \in H!Entries
      /\ \A s \in Session : /\ es[s].status # "transcribing"
                             /\ es[s].transcript = found[s].transcript
  BY <1>3, RecoverIs
<1>5. H!persist(es) => disk' \in Persisted(disk, es)
  BY DEF H!persist, Persisted
<1>6. disk.readable => found = disk.sessions
  OBVIOUS
<1> HIDE DEF found, es
<1>7. CASE es # found
  <2>1. /\ disk' \in H!DiskImage
        /\ \/ disk'.readable = TRUE /\ disk'.sessions = es
           \/ PersistMayFail /\ disk' = disk
    BY <1>1, <1>2, <1>4, <1>5, <1>7, PersistIs
  <2> QED
    BY <1>1, <1>3, <1>4, <2>1
<1>8. CASE es = found
  BY <1>1, <1>2, <1>4, <1>6, <1>8
<1> QED
  BY <1>7, <1>8

LEMMA ServeShape ==
    ASSUME HistoryInv, H!ServeRequest
    PROVE  /\ mem' \in H!Entries /\ disk' \in H!DiskImage
           /\ \/ disk' = disk /\ mem' = mem
              \/ disk'.readable = TRUE /\ disk'.sessions = mem'
              \/ PersistMayFail /\ disk' = disk
           /\ \A s \in Session :
                 mem[s].transcript /\ ~mem'[s].transcript =>
                    Head(chan).op \in {"upsert", "forget"} /\ Head(chan).id = s
           /\ writer = "serving" /\ writer' = "serving"
           /\ chan # << >> /\ chan' = Tail(chan)
           /\ h_audio' \subseteq h_audio
<1> DEFINE r == Head(chan)
           es == H!Apply(mem, r)
<1>1. /\ writer = "serving" /\ writer' = "serving"
      /\ chan # << >> /\ chan' = Tail(chan)
      /\ mem' = es /\ IF H!Dirty(mem, r) THEN H!persist(es) ELSE UNCHANGED disk
      /\ h_audio' \subseteq h_audio
  BY DEF H!ServeRequest
<1>2. /\ disk \in H!DiskImage /\ mem \in H!Entries /\ r \in H!Request
  BY <1>1 DEF HistoryInv, H!HistTypeOK
<1>3. H!persist(es) => disk' \in Persisted(disk, es)
  BY DEF H!persist, Persisted
<1>4. /\ es \in H!Entries
      /\ \A s \in Session \ {r.id} : es[s] = mem[s]
      /\ r.op = "forget" /\ mem[r.id] = H!NoEntry => es = mem
      /\ mem[r.id].transcript /\ ~es[r.id].transcript => r.op \in {"upsert", "forget"}
  <2> HIDE DEF r
  <2>1. r.op \in {"upsert", "set_status", "set_transcript", "forget"}
    BY <1>2, RequestKinds
  <2>2. CASE r.op = "upsert"
    BY <1>2, <2>2, ApplyUpsert
  <2>3. CASE r.op = "set_status"
    BY <1>2, <2>3, ApplyStatus
  <2>4. CASE r.op = "set_transcript"
    BY <1>2, <2>4, ApplyTranscript
  <2>5. CASE r.op = "forget"
    BY <1>2, <2>5, ApplyForget
  <2> QED
    BY <2>1, <2>2, <2>3, <2>4, <2>5
<1>5. ~H!Dirty(mem, r) => r.op = "forget" /\ mem[r.id] = H!NoEntry
  BY DEF H!Dirty, H!Present
<1>6. r.id \in Session
  BY <1>2, RequestKinds
<1>7. \A s \in Session :
         mem[s].transcript /\ ~mem'[s].transcript =>
            r.op \in {"upsert", "forget"} /\ r.id = s
  <2> HIDE DEF r, es
  <2> QED
    BY <1>1, <1>4
<1> HIDE DEF es
<1>8. CASE H!Dirty(mem, r)
  <2>1. /\ disk' \in H!DiskImage
        /\ \/ disk'.readable = TRUE /\ disk'.sessions = es
           \/ PersistMayFail /\ disk' = disk
    BY <1>1, <1>2, <1>3, <1>4, <1>8, PersistIs
  <2> QED
    BY <1>1, <1>4, <1>7, <2>1
<1>9. CASE ~H!Dirty(mem, r)
  BY <1>1, <1>2, <1>4, <1>5, <1>7, <1>9
<1> QED
  BY <1>8, <1>9

LEMMA HistoryInit == H!HistInit => HistoryInv
<1> SUFFICES ASSUME H!HistInit PROVE HistoryInv
  OBVIOUS
<1>1. PICK r \in BOOLEAN : disk = [readable |-> r, sessions |-> H!NoEntries]
  BY DEF H!HistInit
<1>2. disk \in H!DiskImage /\ disk.sessions = H!NoEntries
  BY <1>1, NoEntriesIs DEF H!DiskImage
<1>3. chan \in Seq(H!Request) /\ Len(chan) = 0
  BY DEF H!HistInit
<1> QED
  BY <1>2, <1>3, NoEntriesIs, DaemonAssumption
  DEF H!HistInit, HistoryInv, H!HistTypeOK, H!DiskMatchesMemory

LEMMA HistoryStep == HistoryInv /\ [H!HistNext]_(H!histVars) => HistoryInv'
<1> SUFFICES ASSUME HistoryInv, [H!HistNext]_(H!histVars) PROVE HistoryInv'
  OBVIOUS
<1>1. ASSUME NEW req \in H!Request, H!Produce(req) PROVE HistoryInv'
  <2>1. /\ Len(chan) < HistoryDepth /\ chan' = Append(chan, req)
        /\ UNCHANGED <<mem, disk, h_audio, writer>>
    BY <1>1 DEF H!Produce, H!Send
  <2>2. chan' \in Seq(H!Request) /\ Len(chan') <= HistoryDepth
    BY <2>1, DaemonAssumption DEF HistoryInv, H!HistTypeOK
  <2> QED
    BY <2>1, <2>2 DEF HistoryInv, H!HistTypeOK, H!DiskMatchesMemory
<1>2. ASSUME NEW s \in Session, H!RecordAudio(s) PROVE HistoryInv'
  BY <1>2 DEF H!RecordAudio, HistoryInv, H!HistTypeOK, H!DiskMatchesMemory
<1>3. CASE H!LoadHistory
  <2>1. H!HistTypeOK'
    BY <1>3, LoadShape DEF HistoryInv, H!HistTypeOK
  <2>2. disk.readable \in BOOLEAN /\ disk'.readable \in BOOLEAN
    BY <2>1, DiskFields DEF HistoryInv, H!HistTypeOK
  <2> QED
    BY <1>3, <2>1, <2>2, LoadShape DEF HistoryInv, H!DiskMatchesMemory
<1>4. CASE H!ServeRequest
  <2>0. chan \in Seq(H!Request) /\ chan # << >> /\ Len(chan) <= HistoryDepth
    BY <1>4, ServeShape DEF HistoryInv, H!HistTypeOK
  <2>1. chan' \in Seq(H!Request) /\ Len(chan') <= HistoryDepth
    <3>1. Tail(chan) \in Seq(H!Request) /\ Len(Tail(chan)) = Len(chan) - 1
      BY <2>0, HeadTailProperties
    <3> QED
      BY <1>4, <2>0, <3>1, ServeShape, DaemonAssumption
  <2>2. H!HistTypeOK'
    BY <1>4, <2>1, ServeShape DEF HistoryInv, H!HistTypeOK
  <2>3. disk.readable \in BOOLEAN /\ disk'.readable \in BOOLEAN
    BY <2>2, DiskFields DEF HistoryInv, H!HistTypeOK
  <2> QED
    BY <1>4, <2>2, <2>3, ServeShape DEF HistoryInv, H!DiskMatchesMemory
<1>5. CASE H!CrashHistory
  <2>1. chan' \in Seq(H!Request) /\ Len(chan') = 0
    BY <1>5 DEF H!CrashHistory
  <2> QED
    BY <1>5, <2>1, NoEntriesIs, DaemonAssumption
    DEF H!CrashHistory, HistoryInv, H!HistTypeOK, H!DiskMatchesMemory
<1>6. CASE H!RestartHistory
  BY <1>6 DEF H!RestartHistory, HistoryInv, H!HistTypeOK, H!DiskMatchesMemory
<1>7. CASE UNCHANGED H!histVars
  BY <1>7 DEF H!histVars, HistoryInv, H!HistTypeOK, H!DiskMatchesMemory
<1> QED
  BY <1>1, <1>2, <1>3, <1>4, <1>5, <1>6, <1>7 DEF H!HistNext

LEMMA HistoryHolds == Spec => []HistoryInv
<1>1. Init => HistoryInv
  BY HistoryInit DEF Init
<1>2. HistoryInv /\ [Next]_vars => HistoryInv'
  <2> SUFFICES ASSUME HistoryInv, [Next]_vars PROVE HistoryInv'
    OBVIOUS
  <2>1. H!HistNext \/ UNCHANGED hvars
    BY DEF Next, vars
  <2>2. UNCHANGED hvars => UNCHANGED H!histVars
    BY DEF hvars, H!histVars
  <2> QED
    BY <2>1, <2>2, HistoryStep
<1> QED
  BY <1>1, <1>2, PTL DEF Spec

(* What NoStaleTranscribing and TranscriptKept say of one step.            *)
LEMMA KeptStep ==
    ASSUME HistoryInv, [H!HistNext]_(H!histVars)
    PROVE  /\ writer = "loading" /\ writer' = "serving" =>
                 \A s \in Session : mem'[s].status # "transcribing"
           /\ \A s \in Session :
                 (~PersistMayFail /\ disk.sessions[s].transcript
                     /\ ~disk'.sessions[s].transcript)
                 => /\ writer = "serving" /\ chan # << >>
                    /\ Head(chan).op \in {"upsert", "forget"}
                    /\ Head(chan).id = s
<1>1. CASE H!LoadHistory
  BY <1>1, LoadShape
<1>2. CASE H!ServeRequest
  <2>1. writer = "serving" /\ writer' = "serving" /\ chan # << >>
    BY <1>2, ServeShape
  <2> SUFFICES ASSUME NEW s \in Session, ~PersistMayFail,
                      disk.sessions[s].transcript, ~disk'.sessions[s].transcript
               PROVE  Head(chan).op \in {"upsert", "forget"} /\ Head(chan).id = s
    BY <2>1
  <2>2. disk.readable
    BY NoEntriesIs DEF HistoryInv
  <2>3. disk.sessions = mem
    BY <2>1, <2>2 DEF HistoryInv, H!DiskMatchesMemory
  <2>4. disk' = disk \/ disk'.sessions = mem'
    BY <1>2, ServeShape
  <2> QED
    BY <1>2, <2>3, <2>4, ServeShape
<1>3. CASE UNCHANGED disk /\ (UNCHANGED writer \/ writer' # "serving")
  BY <1>3
<1>4. CASE (\E req \in H!Request : H!Produce(req)) \/ UNCHANGED H!histVars
  BY <1>3, <1>4 DEF H!Produce, H!histVars
<1>5. CASE (\E s \in Session : H!RecordAudio(s)) \/ H!CrashHistory \/ H!RestartHistory
  BY <1>3, <1>5 DEF H!RecordAudio, H!CrashHistory, H!RestartHistory
<1> QED
  BY <1>1, <1>2, <1>4, <1>5 DEF H!HistNext

(* A restarted daemon has no entry that claims to be in transcription, and *)
(* while writes succeed only a new upsert or a forget of that session      *)
(* takes a transcript out of the index.                                    *)
THEOREM HistoryIsKept == Spec => HistoryKept
<1> DEFINE Stale == (writer = "loading" /\ writer' = "serving")
                      => \A s \in Session : mem'[s].status # "transcribing"
           Kept == \A s \in Session :
                      (~PersistMayFail /\ disk.sessions[s].transcript
                          /\ ~disk'.sessions[s].transcript)
                      => /\ writer = "serving" /\ chan # << >>
                         /\ Head(chan).op \in {"upsert", "forget"}
                         /\ Head(chan).id = s
<1>1. HistoryInv /\ [Next]_vars => [Stale /\ Kept]_(H!histVars)
  <2> SUFFICES ASSUME HistoryInv, [Next]_vars PROVE [Stale /\ Kept]_(H!histVars)
    OBVIOUS
  <2>1. H!HistNext \/ UNCHANGED hvars
    BY DEF Next, vars
  <2>2. UNCHANGED hvars => UNCHANGED H!histVars
    BY DEF hvars, H!histVars
  <2> QED
    BY <2>1, <2>2, KeptStep
<1> QED
  BY <1>1, HistoryHolds, PTL
  DEF Spec, HistoryKept, H!NoStaleTranscribing, H!TranscriptKept

-----------------------------------------------------------------------------
(* The job queue *)

StatusOf(r) == IF r.op = "set_transcript" THEN "done" ELSE r.status

(* The status the entry of j has once the requests sent so far are served. *)
Settled(j, status) ==
    \/ /\ \A i \in 1 .. Len(j_chan) : j_chan[i].id # j
       /\ j_mem[j].status = status
    \/ \E i \in 1 .. Len(j_chan) :
          /\ j_chan[i].id = j /\ StatusOf(j_chan[i]) = status
          /\ \A k \in i + 1 .. Len(j_chan) : j_chan[k].id # j

TranscriptSent(j) ==
    \/ j_mem[j].transcript
    \/ \E i \in 1 .. Len(j_chan) : j_chan[i] = H!SetTranscript(j)

Filed(j) ==
    \/ j_mem[j] # H!NoEntry
    \/ \E i \in 1 .. Len(j_chan) : j_chan[i].op = "upsert" /\ j_chan[i].id = j

(* The sessions to recover whose entry is in the index found at the start. *)
Listed == recovered \ unlisted

(* The first request of a job is the upsert of its entry, and the only one;*)
(* a recovered job has none, and has an entry if the index had it; nobody  *)
(* forgets an entry.                                                       *)
EntriesInOrder ==
    /\ \A j \in Session \ recovered :
          IF jpc[j] = "new" THEN j_mem[j] = H!NoEntry ELSE Filed(j)
    /\ \A j \in unlisted : j_mem[j] = H!NoEntry
    /\ j_writer # "loading" => \A j \in Listed : j_mem[j] # H!NoEntry

ChannelInOrder ==
    /\ \A j \in Session : jpc[j] = "new" =>
          \A i \in 1 .. Len(j_chan) : j_chan[i].id # j
    /\ \A i \in 1 .. Len(j_chan) :
          /\ j_chan[i].op # "forget"
          /\ j_chan[i].op = "upsert" =>
                /\ j_chan[i].id \notin recovered
                /\ j_mem[j_chan[i].id] = H!NoEntry
                /\ \A k \in 1 .. i - 1 : j_chan[k].id # j_chan[i].id

StartInOrder ==
    /\ j_writer # "down"
    /\ j_writer = "loading" =>
          /\ j_mem = H!NoEntries /\ j_disk.readable = TRUE
          /\ \A j \in Session : j_disk.sessions[j] = H!NoEntry <=> j \notin Listed

RequestsInOrder ==
    /\ recovered \subseteq Session /\ unlisted \subseteq recovered
    /\ EntriesInOrder /\ ChannelInOrder /\ StartInOrder

OkPc == {"okRecorded", "okAnnounced", "okProgress"}
ErrPc == {"errRecorded", "errAnnounced", "errProgress"}

(* Cancel stops the task of its job, whatever the job is doing; and the    *)
(* updates of a cancel outlive nothing but the job.                        *)
CancelStops(j) ==
    /\ jpc[j] \in {"new", "filed", "refused", "gone"} => registry[j] = "absent"
    /\ j \in aborting => jpc[j] \in J!TaskPc
    /\ registry[j] = "cancelled" => jpc[j] \notin J!TaskPc \/ j \in aborting
    /\ cancelling[j] > 0 => registry[j] = "cancelled"
    /\ cancelling[j] <= cancels

(* What was announced, and what the history was told, phase by phase.      *)
Announced(j) ==
    /\ announced[j] = "completed" =>
          jpc[j] \in {"okAnnounced", "okProgress", "gone", "dropped"}
    /\ jpc[j] \in {"okAnnounced", "okProgress"} => announced[j] = "completed"

Told(j) ==
    /\ jpc[j] \in OkPc \/ announced[j] = "completed" => TranscriptSent(j)
    /\ jpc[j] \in OkPc /\ j \notin aborting => Settled(j, "done")
    /\ jpc[j] \in ErrPc /\ j \notin aborting => Settled(j, "failed")
    /\ jpc[j] = "gone" /\ announced[j] = "completed" => Settled(j, "done")
    /\ jpc[j] = "gone" /\ announced[j] # "completed" => Settled(j, "failed")
    /\ registry[j] = "cancelled" /\ cancelling[j] = 0 => Settled(j, "failed")

HistoryTold(j) == Announced(j) /\ (j \notin unlisted => Told(j))

Holders == {j \in Session : jpc[j] \in J!HoldsPermit}

LaneIsWhole ==
    /\ permits \in Nat /\ IsFiniteSet(Holders)
    /\ permits + Cardinality(Holders) = Concurrency

JobsInv ==
    /\ J!TypeOK
    /\ LaneIsWhole
    /\ RequestsInOrder
    /\ \A j \in Session : CancelStops(j) /\ HistoryTold(j)

(* JobQueue has a history of its own; its values are History's.            *)
LEMMA SameHistory ==
    /\ J!H!Entries = H!Entries /\ J!H!Request = H!Request
    /\ J!H!DiskImage = H!DiskImage
    /\ J!H!NoEntries = H!NoEntries /\ J!H!NoEntry = H!NoEntry
    /\ \A es, r : J!H!Apply(es, r) = H!Apply(es, r)
    /\ \A es : J!H!recover(es) = H!recover(es)
BY DEF J!H!Entries, H!Entries, J!H!Entry, H!Entry, J!H!NoEntry, H!NoEntry,
       J!H!NoEntries, H!NoEntries, J!H!Status, H!Status, J!H!Request, H!Request,
       J!H!DiskImage, H!DiskImage, J!H!Apply, H!Apply, J!H!upsert, H!upsert,
       J!H!set_status, H!set_status, J!H!set_transcript, H!set_transcript,
       J!H!Present, H!Present, J!H!recover, H!recover

LEMMA QueueTyped ==
    ASSUME J!TypeOK
    PROVE  /\ j_chan \in Seq(H!Request) /\ Len(j_chan) <= ChannelDepth
           /\ j_mem \in H!Entries /\ j_disk \in H!DiskImage
           /\ j_disk.sessions \in H!Entries
           /\ j_audio \subseteq Session
           /\ \A i \in 1 .. Len(j_chan) :
                 j_chan[i] \in H!Request /\ j_chan[i].id \in Session
<1>1. /\ j_chan \in Seq(H!Request) /\ Len(j_chan) <= ChannelDepth
      /\ j_mem \in H!Entries /\ j_disk \in H!DiskImage /\ j_audio \subseteq Session
  BY SameHistory DEF J!TypeOK, J!H!HistTypeOK
<1>2. \A i \in 1 .. Len(j_chan) : j_chan[i] \in H!Request
  BY <1>1
<1> QED
  BY <1>1, <1>2, RequestKinds, DiskFields

LEMMA RequestsTyped ==
    ASSUME NEW j \in Session
    PROVE  /\ J!H!Upsert(j, "recorded") \in H!Request
           /\ J!H!Upsert(j, "recorded").id = j
           /\ J!H!Upsert(j, "recorded").op = "upsert"
           /\ \A st \in {"transcribing", "failed"} :
                 /\ J!H!SetStatus(j, st) \in H!Request
                 /\ J!H!SetStatus(j, st).id = j
                 /\ J!H!SetStatus(j, st).op = "set_status"
                 /\ StatusOf(J!H!SetStatus(j, st)) = st
           /\ H!SetTranscript(j) \in H!Request
           /\ H!SetTranscript(j).id = j
           /\ H!SetTranscript(j).op = "set_transcript"
           /\ StatusOf(H!SetTranscript(j)) = "done"
           /\ J!H!SetTranscript(j) = H!SetTranscript(j)
BY DEF J!H!Upsert, J!H!SetStatus, J!H!SetTranscript, H!SetTranscript, H!Request,
       StatusOf

(* A request joins the end of the channel.                                 *)
LEMMA SendKeeps ==
    ASSUME J!TypeOK, NEW req \in H!Request,
           j_chan' = Append(j_chan, req), UNCHANGED j_mem
    PROVE  /\ \A t \in Session : \A st :
                 t # req.id /\ Settled(t, st) => Settled(t, st)'
           /\ Settled(req.id, StatusOf(req))'
           /\ \A t \in Session : TranscriptSent(t) => TranscriptSent(t)'
           /\ \A t \in Session : req = H!SetTranscript(t) => TranscriptSent(t)'
           /\ \A t \in Session : Filed(t) => Filed(t)'
           /\ req.op = "upsert" => Filed(req.id)'
<1> DEFINE n == Len(j_chan)
<1>1. /\ n \in Nat /\ Len(j_chan') = n + 1 /\ j_chan'[n + 1] = req
      /\ \A i \in 1 .. n : j_chan'[i] = j_chan[i]
  BY QueueTyped
<1> HIDE DEF n
<1>2. ASSUME NEW t \in Session, NEW st, t # req.id, Settled(t, st)
      PROVE  Settled(t, st)'
  <2>1. CASE /\ \A i \in 1 .. n : j_chan[i].id # t
             /\ j_mem[t].status = st
    BY <1>1, <1>2, <2>1 DEF Settled
  <2>2. ASSUME NEW i \in 1 .. n, j_chan[i].id = t, StatusOf(j_chan[i]) = st,
               \A k \in i + 1 .. n : j_chan[k].id # t
        PROVE  Settled(t, st)'
    <3>1. i \in 1 .. Len(j_chan') /\ j_chan'[i] = j_chan[i]
      BY <1>1, <2>2
    <3>2. \A k \in i + 1 .. Len(j_chan') : j_chan'[k].id # t
      BY <1>1, <1>2, <2>2
    <3> QED
      BY <2>2, <3>1, <3>2 DEF Settled
  <2> QED
    BY <1>2, <2>1, <2>2 DEF Settled, n
<1>3. Settled(req.id, StatusOf(req))'
  BY <1>1 DEF Settled
<1>4. \A i \in 1 .. n : i \in 1 .. Len(j_chan') /\ j_chan'[i] = j_chan[i]
  BY <1>1
<1>5. n + 1 \in 1 .. Len(j_chan') /\ j_chan'[n + 1] = req
  BY <1>1
<1>6. \A t \in Session : /\ TranscriptSent(t) => TranscriptSent(t)'
                         /\ Filed(t) => Filed(t)'
  BY <1>4 DEF TranscriptSent, Filed, n
<1> QED
  BY <1>2, <1>3, <1>5, <1>6 DEF TranscriptSent, Filed

(* The channel stays in order.                                             *)
LEMMA SendInOrder ==
    ASSUME J!TypeOK, RequestsInOrder, NEW req \in H!Request,
           j_chan' = Append(j_chan, req), UNCHANGED <<j_mem, j_disk, j_writer>>,
           UNCHANGED <<recovered, unlisted>>,
           jpc' \in [Session -> J!JobPc], req.op # "forget",
           \A t \in Session \ {req.id} : jpc'[t] = "new" <=> jpc[t] = "new",
           jpc'[req.id] # "new",
           IF req.op = "upsert" THEN jpc[req.id] = "new" /\ req.id \notin recovered
                                ELSE jpc[req.id] # "new"
    PROVE  RequestsInOrder'
<1> DEFINE n == Len(j_chan)
<1>1. /\ n \in Nat /\ Len(j_chan') = n + 1 /\ j_chan'[n + 1] = req
      /\ \A i \in 1 .. n : j_chan'[i] = j_chan[i]
      /\ req.id \in Session
  BY QueueTyped, RequestKinds
<1> HIDE DEF n
<1>2. EntriesInOrder'
  <2>1. ASSUME NEW t \in Session \ recovered
        PROVE  IF jpc'[t] = "new" THEN j_mem[t] = H!NoEntry ELSE Filed(t)'
    <3>1. IF jpc[t] = "new" THEN j_mem[t] = H!NoEntry ELSE Filed(t)
      BY <2>1 DEF RequestsInOrder, EntriesInOrder
    <3>2. CASE t = req.id
      BY <1>1, <2>1, <3>1, <3>2, SendKeeps
    <3>3. CASE t # req.id
      BY <1>1, <2>1, <3>1, <3>3, SendKeeps
    <3> QED
      BY <3>2, <3>3
  <2> QED
    BY <2>1 DEF RequestsInOrder, EntriesInOrder, Listed
<1>3. \A t \in Session : jpc'[t] = "new" =>
         \A i \in 1 .. Len(j_chan') : j_chan'[i].id # t
  <2>1. \A t \in Session : jpc[t] = "new" => \A i \in 1 .. n : j_chan[i].id # t
    BY DEF RequestsInOrder, ChannelInOrder, n
  <2> QED
    BY <1>1, <2>1
<1>4. ASSUME NEW i \in 1 .. Len(j_chan')
      PROVE  /\ j_chan'[i].op # "forget"
             /\ j_chan'[i].op = "upsert" =>
                   /\ j_chan'[i].id \notin recovered
                   /\ j_mem'[j_chan'[i].id] = H!NoEntry
                   /\ \A k \in 1 .. i - 1 : j_chan'[k].id # j_chan'[i].id
  <2>1. CASE i \in 1 .. n
    <3>1. /\ j_chan[i].op # "forget"
          /\ j_chan[i].op = "upsert" =>
                /\ j_chan[i].id \notin recovered
                /\ j_mem[j_chan[i].id] = H!NoEntry
                /\ \A k \in 1 .. i - 1 : j_chan[k].id # j_chan[i].id
      BY <2>1 DEF RequestsInOrder, ChannelInOrder, n
    <3>2. j_chan'[i] = j_chan[i] /\ \A k \in 1 .. i - 1 : j_chan'[k] = j_chan[k]
      BY <1>1, <2>1
    <3> QED
      BY <3>1, <3>2
  <2>2. CASE i = n + 1
    <3>1. req.op = "upsert" =>
             j_mem[req.id] = H!NoEntry /\ \A k \in 1 .. n : j_chan[k].id # req.id
      BY <1>1 DEF RequestsInOrder, EntriesInOrder, ChannelInOrder, n
    <3>2. \A k \in 1 .. i - 1 : j_chan'[k] = j_chan[k] /\ k \in 1 .. n
      BY <1>1, <2>2
    <3> QED
      BY <1>1, <2>2, <3>1, <3>2
  <2> QED
    BY <1>1, <2>1, <2>2
<1>5. ChannelInOrder' /\ StartInOrder'
  BY <1>3, <1>4 DEF RequestsInOrder, ChannelInOrder, StartInOrder, Listed
<1> QED
  BY <1>2, <1>5 DEF RequestsInOrder

(* The writer takes a request: what it does to the entry is what was       *)
(* announced when the request was sent.                                    *)
LEMMA HeadIsKnown ==
    ASSUME J!TypeOK, RequestsInOrder, j_chan # << >>, j_writer = "serving"
    PROVE  /\ Head(j_chan) \in H!Request /\ Head(j_chan).id \in Session
           /\ Head(j_chan) = j_chan[1]
           /\ Head(j_chan).op \in {"upsert", "set_status", "set_transcript"}
           /\ Head(j_chan).op = "upsert" =>
                 Head(j_chan).id \notin unlisted /\ j_mem[Head(j_chan).id] = H!NoEntry
           /\ Head(j_chan).id \notin unlisted =>
                 (j_mem[Head(j_chan).id] = H!NoEntry => Head(j_chan).op = "upsert")
           /\ Head(j_chan).id \in unlisted => j_mem[Head(j_chan).id] = H!NoEntry
<1> DEFINE r == Head(j_chan)
           n == Len(j_chan)
<1>1. n \in Nat /\ n >= 1 /\ r = j_chan[1] /\ r \in H!Request
  BY QueueTyped
<1>2. /\ r.id \in Session
      /\ r.op \in {"upsert", "set_status", "set_transcript", "forget"}
  BY <1>1, RequestKinds
<1>3. /\ r.op # "forget"
      /\ r.op = "upsert" => j_mem[r.id] = H!NoEntry /\ r.id \notin recovered
      /\ r.id \in unlisted => j_mem[r.id] = H!NoEntry
  BY <1>1 DEF RequestsInOrder, ChannelInOrder, EntriesInOrder
<1>4. ASSUME r.op # "upsert", r.id \notin unlisted PROVE j_mem[r.id] # H!NoEntry
  <2>0. CASE r.id \in recovered
    BY <1>4, <2>0 DEF RequestsInOrder, EntriesInOrder, Listed
  <2>1. jpc[r.id] # "new"
    BY <1>1, <1>2 DEF RequestsInOrder, ChannelInOrder
  <2>2. r.id \notin recovered => Filed(r.id)
    BY <1>2, <2>1 DEF RequestsInOrder, EntriesInOrder
  <2>3. ASSUME NEW i \in 1 .. n, j_chan[i].op = "upsert", j_chan[i].id = r.id
        PROVE  FALSE
    <3>1. i # 1 /\ 1 \in 1 .. i - 1
      BY <1>1, <1>4, <2>3
    <3>2. \A k \in 1 .. i - 1 : j_chan[k].id # j_chan[i].id
      BY <2>3 DEF RequestsInOrder, ChannelInOrder
    <3> QED
      BY <1>1, <2>3, <3>1, <3>2
  <2> QED
    BY <2>0, <2>2, <2>3 DEF Filed
<1>5. r.op = "upsert" => r.id \notin unlisted
  BY <1>3 DEF RequestsInOrder
<1> QED
  BY <1>1, <1>2, <1>3, <1>4, <1>5

LEMMA ServedIs ==
    ASSUME J!TypeOK, RequestsInOrder, J!H!ServeRequest
    PROVE  LET r == Head(j_chan) IN
           /\ j_writer = "serving" /\ UNCHANGED j_writer
           /\ j_chan # << >> /\ j_chan' = Tail(j_chan)
           /\ j_audio' \subseteq j_audio /\ j_disk' \in H!DiskImage
           /\ j_mem' \in H!Entries
           /\ \A t \in Session \ {r.id} : j_mem'[t] = j_mem[t]
           /\ r.id \in unlisted => j_mem' = j_mem
           /\ r.id \notin unlisted =>
                 /\ j_mem'[r.id] # H!NoEntry /\ j_mem'[r.id].status = StatusOf(r)
                 /\ j_mem[r.id].transcript => j_mem'[r.id].transcript
                 /\ r.op = "set_transcript" => j_mem'[r.id].transcript
<1> DEFINE r == Head(j_chan)
           es == H!Apply(j_mem, r)
<1>1. /\ j_writer = "serving" /\ UNCHANGED j_writer
      /\ j_chan # << >> /\ j_chan' = Tail(j_chan)
      /\ j_mem' = es /\ j_audio' \subseteq j_audio
      /\ j_disk' \in Persisted(j_disk, es) \/ UNCHANGED j_disk
  <2>1. J!H!Apply(j_mem, r) = es
    BY SameHistory
  <2>2. J!H!persist(es) => j_disk' \in Persisted(j_disk, es)
    BY DEF J!H!persist, Persisted
  <2> HIDE DEF es
  <2> QED
    BY <2>1, <2>2 DEF J!H!ServeRequest
<1>2. /\ r \in H!Request /\ r.id \in Session
      /\ r.op \in {"upsert", "set_status", "set_transcript"}
      /\ r.op = "upsert" => r.id \notin unlisted /\ j_mem[r.id] = H!NoEntry
      /\ r.id \notin unlisted => (j_mem[r.id] = H!NoEntry => r.op = "upsert")
      /\ r.id \in unlisted => j_mem[r.id] = H!NoEntry
  BY <1>1, HeadIsKnown
<1>3. j_mem \in H!Entries /\ j_disk \in H!DiskImage
  BY QueueTyped
<1>4. /\ es \in H!Entries
      /\ \A t \in Session \ {r.id} : es[t] = j_mem[t]
      /\ r.id \in unlisted => es = j_mem
      /\ r.id \notin unlisted =>
            /\ es[r.id] # H!NoEntry /\ es[r.id].status = StatusOf(r)
            /\ j_mem[r.id].transcript => es[r.id].transcript
            /\ r.op = "set_transcript" => es[r.id].transcript
  <2> HIDE DEF r
  <2>1. CASE r.op = "upsert"
    BY <1>2, <1>3, <2>1, ApplyUpsert, NoEntryIs DEF StatusOf
  <2>2. CASE r.op = "set_status"
    BY <1>2, <1>3, <2>2, ApplyStatus DEF StatusOf
  <2>3. CASE r.op = "set_transcript"
    BY <1>2, <1>3, <2>3, ApplyTranscript DEF StatusOf
  <2> QED
    BY <1>2, <2>1, <2>2, <2>3
<1> HIDE DEF es
<1>5. j_disk' \in H!DiskImage
  BY <1>1, <1>3, <1>4, PersistIs
<1> QED
  BY <1>1, <1>4, <1>5

LEMMA ServeKeeps ==
    ASSUME J!TypeOK, RequestsInOrder, J!H!ServeRequest,
           UNCHANGED <<jpc, recovered, unlisted>>
    PROVE  /\ \A t \in Session \ unlisted :
                 /\ \A st : Settled(t, st) => Settled(t, st)'
                 /\ TranscriptSent(t) => TranscriptSent(t)'
           /\ j_chan' \in Seq(H!Request) /\ Len(j_chan') <= ChannelDepth
           /\ RequestsInOrder'
<1> DEFINE r == Head(j_chan)
           n == Len(j_chan)
<1>1. /\ j_writer = "serving" /\ UNCHANGED j_writer
      /\ j_chan # << >> /\ j_chan' = Tail(j_chan)
      /\ \A t \in Session \ {r.id} : j_mem'[t] = j_mem[t]
      /\ r.id \in unlisted => j_mem' = j_mem
      /\ r.id \notin unlisted =>
            /\ j_mem'[r.id] # H!NoEntry /\ j_mem'[r.id].status = StatusOf(r)
            /\ j_mem[r.id].transcript => j_mem'[r.id].transcript
            /\ r.op = "set_transcript" => j_mem'[r.id].transcript
  BY ServedIs
<1>2. /\ r \in H!Request /\ r.id \in Session /\ r = j_chan[1]
      /\ r.op = "upsert" => r.id \notin unlisted /\ j_mem[r.id] = H!NoEntry
  BY <1>1, HeadIsKnown
<1>3. /\ n \in Nat /\ n >= 1 /\ Len(j_chan') = n - 1
      /\ j_chan' \in Seq(H!Request) /\ n <= ChannelDepth
      /\ \A i \in 1 .. n - 1 : j_chan'[i] = j_chan[i + 1]
  BY <1>1, QueueTyped, HeadTailProperties
<1> HIDE DEF r, n
<1>4. \A i \in 1 .. n : i = 1 \/ (i - 1 \in 1 .. Len(j_chan') /\ j_chan'[i - 1] = j_chan[i])
  BY <1>3
<1>5. \A i \in 1 .. Len(j_chan') : i + 1 \in 2 .. n /\ j_chan'[i] = j_chan[i + 1]
  BY <1>3
<1>6. ASSUME NEW t \in Session \ unlisted, NEW st, Settled(t, st)
      PROVE  Settled(t, st)'
  <2>1. CASE /\ \A i \in 1 .. n : j_chan[i].id # t
             /\ j_mem[t].status = st
    <3>1. r.id # t
      BY <1>2, <1>3, <2>1
    <3>2. \A i \in 1 .. Len(j_chan') : j_chan'[i].id # t
      BY <1>3, <1>5, <2>1
    <3> QED
      BY <1>1, <2>1, <3>1, <3>2 DEF Settled
  <2>2. ASSUME NEW i \in 1 .. n, j_chan[i].id = t, StatusOf(j_chan[i]) = st,
               \A k \in i + 1 .. n : j_chan[k].id # t
        PROVE  Settled(t, st)'
    <3>1. CASE i = 1
      <4>1. \A k \in 1 .. Len(j_chan') : j_chan'[k].id # t
        BY <1>3, <1>5, <2>2, <3>1
      <4> QED
        BY <1>1, <1>2, <1>6, <2>2, <3>1, <4>1 DEF Settled
    <3>2. CASE i # 1
      <4>1. /\ i - 1 \in 1 .. Len(j_chan') /\ j_chan'[i - 1] = j_chan[i]
        BY <1>4, <3>2
      <4>2. \A k \in (i - 1) + 1 .. Len(j_chan') : j_chan'[k].id # t
        <5> SUFFICES ASSUME NEW k \in (i - 1) + 1 .. Len(j_chan')
                     PROVE  j_chan'[k].id # t
          OBVIOUS
        <5>1. k \in 1 .. Len(j_chan') /\ k + 1 \in i + 1 .. n
          BY <1>3
        <5> QED
          BY <1>5, <2>2, <5>1
      <4> QED
        BY <2>2, <4>1, <4>2 DEF Settled
    <3> QED
      BY <3>1, <3>2
  <2> QED
    BY <1>6, <2>1, <2>2 DEF Settled, n
<1>7. ASSUME NEW t \in Session \ unlisted, TranscriptSent(t)
      PROVE  TranscriptSent(t)'
  <2>1. CASE j_mem[t].transcript
    BY <1>1, <1>7, <2>1 DEF TranscriptSent
  <2>2. ASSUME NEW i \in 1 .. n, j_chan[i] = H!SetTranscript(t)
        PROVE  TranscriptSent(t)'
    <3>1. CASE i = 1
      BY <1>1, <1>2, <1>7, <2>2, <3>1, RequestsTyped DEF TranscriptSent
    <3>2. CASE i # 1
      BY <1>4, <2>2, <3>2 DEF TranscriptSent
    <3> QED
      BY <3>1, <3>2
  <2> QED
    BY <1>7, <2>1, <2>2 DEF TranscriptSent, n
<1>8. ASSUME NEW t \in Session, Filed(t) PROVE Filed(t)'
  <2>1. CASE j_mem[t] # H!NoEntry
    <3>1. j_mem'[t] # H!NoEntry
      BY <1>1, <1>2, <2>1
    <3> QED
      BY <3>1 DEF Filed
  <2>2. ASSUME NEW i \in 1 .. n, j_chan[i].op = "upsert", j_chan[i].id = t
        PROVE  Filed(t)'
    <3>1. CASE i = 1
      BY <1>1, <1>2, <2>2, <3>1 DEF Filed
    <3>2. CASE i # 1
      BY <1>4, <2>2, <3>2 DEF Filed
    <3> QED
      BY <3>1, <3>2
  <2> QED
    BY <1>8, <2>1, <2>2 DEF Filed, n
<1>9. ASSUME NEW t \in Session, jpc[t] = "new"
      PROVE  /\ j_mem'[t] = j_mem[t]
             /\ \A i \in 1 .. Len(j_chan') : j_chan'[i].id # t
  <2>1. \A i \in 1 .. n : j_chan[i].id # t
    BY <1>9 DEF RequestsInOrder, ChannelInOrder, n
  <2>2. r.id # t
    BY <1>2, <1>3, <2>1
  <2>3. \A i \in 1 .. Len(j_chan') : j_chan'[i].id # t
    BY <1>3, <1>5, <2>1
  <2> QED
    BY <1>1, <2>2, <2>3
<1>10. ASSUME NEW i \in 1 .. Len(j_chan')
       PROVE  /\ j_chan'[i].op # "forget"
              /\ j_chan'[i].op = "upsert" =>
                    /\ j_chan'[i].id \notin recovered
                    /\ j_mem'[j_chan'[i].id] = H!NoEntry
                    /\ \A k \in 1 .. i - 1 : j_chan'[k].id # j_chan'[i].id
  <2>1. i + 1 \in 1 .. n /\ j_chan'[i] = j_chan[i + 1]
    BY <1>3, <1>5
  <2>2. /\ j_chan[i + 1].op # "forget"
        /\ j_chan[i + 1].op = "upsert" =>
              /\ j_chan[i + 1].id \notin recovered
              /\ j_mem[j_chan[i + 1].id] = H!NoEntry
              /\ \A k \in 1 .. (i + 1) - 1 : j_chan[k].id # j_chan[i + 1].id
    BY <2>1 DEF RequestsInOrder, ChannelInOrder, n
  <2>3. j_chan[i + 1].id \in Session
    BY <2>1, QueueTyped DEF n
  <2>4. 1 \in 1 .. (i + 1) - 1
    BY <1>3
  <2>5. \A k \in 1 .. i - 1 : k + 1 \in 1 .. (i + 1) - 1 /\ j_chan'[k] = j_chan[k + 1]
    BY <1>3
  <2> QED
    BY <1>1, <1>2, <2>1, <2>2, <2>3, <2>4, <2>5
<1>11. ChannelInOrder' /\ StartInOrder'
  BY <1>1, <1>9, <1>10 DEF ChannelInOrder, StartInOrder
<1>12. EntriesInOrder'
  <2>1. \A t \in Session \ recovered :
           IF jpc[t] = "new" THEN j_mem[t] = H!NoEntry ELSE Filed(t)
    BY DEF RequestsInOrder, EntriesInOrder
  <2>2. \A t \in Session \ recovered :
           IF jpc[t] = "new" THEN j_mem'[t] = H!NoEntry ELSE Filed(t)'
    BY <1>8, <1>9, <2>1
  <2>3. \A t \in unlisted : j_mem'[t] = j_mem[t]
    BY <1>1 DEF RequestsInOrder
  <2>4. \A t \in Listed : j_mem'[t] # H!NoEntry
    <3>1. \A t \in Listed : t \in Session /\ j_mem[t] # H!NoEntry
      BY <1>1 DEF RequestsInOrder, EntriesInOrder, Listed
    <3> QED
      BY <1>1, <1>2, <3>1
  <2>5. \A t \in unlisted : j_mem[t] = H!NoEntry
    BY DEF RequestsInOrder, EntriesInOrder
  <2> QED
    BY <2>2, <2>3, <2>4, <2>5 DEF EntriesInOrder, Listed
<1>13. RequestsInOrder'
  BY <1>11, <1>12 DEF RequestsInOrder
<1> QED
  BY <1>3, <1>6, <1>7, <1>13, DaemonAssumption

(* No permit is lost and none is invented.                                 *)
LEMMA LaneStep == J!TypeOK /\ LaneIsWhole /\ [J!Next]_(J!vars) => LaneIsWhole'
<1> SUFFICES ASSUME J!TypeOK, LaneIsWhole, [J!Next]_(J!vars) PROVE LaneIsWhole'
  OBVIOUS
<1> USE DaemonAssumption
<1>1. ASSUME UNCHANGED <<Holders, permits>> PROVE LaneIsWhole'
  BY <1>1 DEF LaneIsWhole
<1>2. ASSUME NEW j \in Session, jpc[j] \notin J!HoldsPermit, permits > 0,
             Holders' = Holders \union {j}, permits' = permits - 1
      PROVE  LaneIsWhole'
  <2>1. j \notin Holders
    BY <1>2 DEF Holders
  <2>2. /\ IsFiniteSet(Holders') /\ Cardinality(Holders') = Cardinality(Holders) + 1
        /\ Cardinality(Holders) \in Nat
    BY <1>2, <2>1, FS_AddElement, FS_CardinalityType DEF LaneIsWhole
  <2> QED
    BY <1>2, <2>2 DEF LaneIsWhole
<1>3. ASSUME NEW j \in Session, jpc[j] \in J!HoldsPermit,
             Holders' = Holders \ {j}, permits' = permits + 1
      PROVE  LaneIsWhole'
  <2>1. j \in Holders
    BY <1>3 DEF Holders
  <2>2. /\ IsFiniteSet(Holders') /\ Cardinality(Holders') = Cardinality(Holders) - 1
        /\ Cardinality(Holders) \in Nat
    BY <1>3, <2>1, FS_RemoveElement, FS_CardinalityType DEF LaneIsWhole
  <2> QED
    BY <1>3, <2>2 DEF LaneIsWhole
<1>4. ASSUME NEW j \in Session, NEW from, NEW to,
             jpc[j] = from, jpc' = [jpc EXCEPT ![j] = to],
             from \in J!HoldsPermit <=> to \in J!HoldsPermit
      PROVE  Holders' = Holders
  BY <1>4 DEF Holders, J!TypeOK
<1>5. ASSUME NEW j \in Session, J!FileEntry(j) \/ J!Submit(j)
      PROVE  LaneIsWhole'
  BY <1>1, <1>4, <1>5 DEF J!FileEntry, J!Submit, J!submit, J!HoldsPermit
<1>15. ASSUME NEW j \in Session, J!SubmitRecovered(j) PROVE LaneIsWhole'
  BY <1>1, <1>4, <1>15 DEF J!SubmitRecovered, J!submit, J!HoldsPermit
<1>6. ASSUME NEW j \in Session, J!AcquirePermit(j) PROVE LaneIsWhole'
  <2>1. /\ permits > 0 /\ permits' = permits - 1
        /\ jpc[j] = "queued" /\ jpc' = [jpc EXCEPT ![j] = "acquired"]
    BY <1>6 DEF J!AcquirePermit, J!Task
  <2>2. Holders' = Holders \union {j}
    BY <2>1 DEF Holders, J!TypeOK, J!HoldsPermit
  <2> QED
    BY <1>2, <2>1, <2>2 DEF J!HoldsPermit
<1>7. ASSUME NEW j \in Session, J!MarkTranscribing(j) PROVE LaneIsWhole'
  BY <1>1, <1>4, <1>7 DEF J!MarkTranscribing, J!Task, J!HoldsPermit
<1>8. ASSUME NEW j \in Session, J!Transcribed(j) PROVE LaneIsWhole'
  <2>1. /\ permits' = permits + 1 /\ jpc[j] = "transcribing"
        /\ \/ jpc' = [jpc EXCEPT ![j] = "succeeded"]
           \/ jpc' = [jpc EXCEPT ![j] = "failed"]
    BY <1>8 DEF J!Transcribed, J!Task
  <2>2. Holders' = Holders \ {j}
    BY <2>1 DEF Holders, J!TypeOK, J!HoldsPermit
  <2> QED
    BY <1>3, <2>1, <2>2 DEF J!HoldsPermit
<1>9. ASSUME NEW j \in Session, J!RecordResult(j) \/ J!AnnounceResult(j)
      PROVE  LaneIsWhole'
  BY <1>1, <1>4, <1>9
  DEF J!RecordResult, J!AnnounceResult, J!Task, J!HoldsPermit
<1>10. ASSUME NEW j \in Session, J!ProgressResult(j) \/ J!FinishJob(j)
       PROVE  LaneIsWhole'
  BY <1>1, <1>4, <1>10
  DEF J!ProgressResult, J!FinishJob, J!Task, J!HoldsPermit
<1>11. ASSUME NEW j \in Session, J!DropAborted(j) PROVE LaneIsWhole'
  <2>1. /\ jpc' = [jpc EXCEPT ![j] = "dropped"]
        /\ permits' = permits + J!PermitOf(j) /\ permits \in Nat
    BY <1>11 DEF J!DropAborted, LaneIsWhole
  <2>2. CASE jpc[j] \in J!HoldsPermit
    <3>1. Holders' = Holders \ {j}
      BY <2>1 DEF Holders, J!TypeOK, J!HoldsPermit
    <3> QED
      BY <1>3, <2>1, <2>2, <3>1 DEF J!PermitOf
  <2>3. CASE jpc[j] \notin J!HoldsPermit
    <3>1. Holders' = Holders
      BY <1>4, <2>1, <2>3 DEF J!HoldsPermit
    <3> QED
      BY <1>1, <2>1, <2>3, <3>1 DEF J!PermitOf
  <2> QED
    BY <2>2, <2>3
<1>12. ASSUME UNCHANGED <<jpc, permits>> PROVE LaneIsWhole'
  BY <1>1, <1>12 DEF Holders
<1>13. ASSUME NEW j \in Session, J!Cancel(j) \/ J!RecordCancel(j)
       PROVE  LaneIsWhole'
  BY <1>12, <1>13 DEF J!Cancel, J!RecordCancel
<1>14. CASE J!CloseQueue \/ J!ExitQueue \/ J!WriterStep \/ UNCHANGED J!vars
  BY <1>12, <1>14
  DEF J!CloseQueue, J!ExitQueue, J!WriterStep, J!vars, J!jobVars
<1> QED
  BY <1>5, <1>6, <1>7, <1>8, <1>9, <1>10, <1>11, <1>13, <1>14, <1>15
  DEF J!Next, J!JobStep

(* What the writer finds at the start: entries of the sessions to recover. *)
LEMMA LoadedIs ==
    ASSUME J!TypeOK, RequestsInOrder, J!H!LoadHistory, UNCHANGED <<recovered, unlisted>>
    PROVE  /\ j_writer = "loading" /\ j_writer' = "serving"
           /\ UNCHANGED <<j_chan, j_audio>>
           /\ j_mem = H!NoEntries
           /\ j_mem' \in H!Entries /\ j_disk' \in H!DiskImage
           /\ \A t \in Session : j_mem'[t] = H!NoEntry <=> t \notin Listed
<1> DEFINE es == H!recover(j_disk.sessions)
<1>1. /\ j_writer = "loading" /\ j_writer' = "serving"
      /\ UNCHANGED <<j_chan, j_audio>>
  BY DEF J!H!LoadHistory
<1>2. /\ j_mem = H!NoEntries /\ j_disk.readable = TRUE
      /\ \A t \in Session : j_disk.sessions[t] = H!NoEntry <=> t \notin Listed
  BY <1>1 DEF RequestsInOrder, StartInOrder
<1>3. j_disk \in H!DiskImage /\ j_disk.sessions \in H!Entries
  BY QueueTyped
<1>4. es \in H!Entries /\ \A t \in Session : es[t] = H!NoEntry <=> t \notin Listed
  BY <1>2, <1>3, RecoverIs
<1>5. /\ j_mem' = es
      /\ J!H!persist(es) \/ UNCHANGED j_disk
  BY <1>2, SameHistory DEF J!H!LoadHistory
<1> HIDE DEF es
<1>6. J!H!persist(es) => j_disk' \in Persisted(j_disk, es)
  BY DEF J!H!persist, Persisted
<1>7. j_disk' \in H!DiskImage
  BY <1>3, <1>4, <1>5, <1>6, PersistIs
<1> QED
  BY <1>1, <1>2, <1>4, <1>5, <1>7

(* A fresh start tells nobody what the history holds.                      *)
LEMMA LoadKeeps ==
    ASSUME J!TypeOK, RequestsInOrder, J!H!LoadHistory,
           UNCHANGED <<jpc, recovered, unlisted>>
    PROVE  /\ \A t \in Session :
                 /\ \A st \in {"done", "failed"} : Settled(t, st) => Settled(t, st)'
                 /\ TranscriptSent(t) => TranscriptSent(t)'
           /\ RequestsInOrder'
<1>1. /\ j_writer' = "serving" /\ UNCHANGED j_chan
      /\ j_mem = H!NoEntries /\ j_mem' \in H!Entries
      /\ \A t \in Session : j_mem'[t] = H!NoEntry <=> t \notin Listed
  BY LoadedIs
<1>2. \A t \in Session : /\ j_mem[t] = H!NoEntry /\ j_mem[t].status = "absent"
                         /\ j_mem[t].transcript = FALSE
  BY <1>1, NoEntryIs DEF H!NoEntries
<1>3. ASSUME NEW t \in Session
      PROVE  /\ \A st \in {"done", "failed"} : Settled(t, st) => Settled(t, st)'
             /\ TranscriptSent(t) => TranscriptSent(t)'
  <2>1. j_mem[t].status # "done" /\ j_mem[t].status # "failed"
    BY <1>2
  <2> QED
    BY <1>1, <1>2, <2>1 DEF Settled, TranscriptSent
<1>4. EntriesInOrder'
  <2>1. ASSUME NEW j \in Session \ recovered
        PROVE  IF jpc[j] = "new" THEN j_mem'[j] = H!NoEntry ELSE Filed(j)'
    <3>1. j_mem'[j] = H!NoEntry
      BY <1>1, <2>1 DEF Listed
    <3>2. jpc[j] # "new" => Filed(j)
      BY <2>1 DEF RequestsInOrder, EntriesInOrder
    <3> QED
      BY <1>1, <1>2, <3>1, <3>2 DEF Filed
  <2>2. /\ \A j \in unlisted : j_mem'[j] = H!NoEntry
        /\ \A j \in Listed : j_mem'[j] # H!NoEntry
    BY <1>1 DEF RequestsInOrder, Listed
  <2> QED
    BY <2>1, <2>2 DEF EntriesInOrder, Listed
<1>5. ChannelInOrder'
  <2>1. ASSUME NEW i \in 1 .. Len(j_chan), j_chan[i].op = "upsert"
        PROVE  j_mem'[j_chan[i].id] = H!NoEntry
    <3>1. j_chan[i].id \in Session /\ j_chan[i].id \notin recovered
      BY <2>1, QueueTyped DEF RequestsInOrder, ChannelInOrder
    <3> QED
      BY <1>1, <3>1 DEF Listed
  <2> QED
    BY <1>1, <2>1 DEF RequestsInOrder, ChannelInOrder
<1>6. StartInOrder'
  BY <1>1 DEF StartInOrder
<1> QED
  BY <1>3, <1>4, <1>5, <1>6 DEF RequestsInOrder

(* Every step of the queue keeps the types.                                *)
LEMMA JobTypeStep ==
    ASSUME JobsInv, [J!Next]_(J!vars)
    PROVE  J!TypeOK'
<1> DEFINE Answers == {"none", "pending", "ok", "err", "dropped"}
           Verdicts == {"none", "completed", "failed"}
           HistOK == /\ j_chan \in Seq(H!Request) /\ Len(j_chan) <= ChannelDepth
                     /\ j_mem \in H!Entries /\ j_disk \in H!DiskImage
                     /\ j_audio \subseteq Session
                     /\ j_writer \in {"loading", "serving", "down"}
           LocalOK == /\ jpc \in [Session -> J!JobPc] /\ auto \subseteq Session
                      /\ registry \in [Session -> J!JobState]
                      /\ aborting \subseteq Session
                      /\ cancelling \in [Session -> 0 .. MaxCancels]
                      /\ cancels \in 0 .. MaxCancels
                      /\ done \in [Session -> Answers]
                      /\ announced \in [Session -> Verdicts]
                      /\ accepting \in BOOLEAN
                      /\ closing \in {"open", "draining", "exited"}
                      /\ recovered \subseteq Session /\ unlisted \subseteq recovered
<1>1. J!TypeOK /\ HistOK /\ LocalOK
  BY QueueTyped DEF JobsInv, J!TypeOK, J!H!HistTypeOK
<1>2. permits' \in 0 .. Concurrency
  <2>1. LaneIsWhole'
    BY LaneStep DEF JobsInv
  <2>2. Cardinality(Holders)' \in Nat /\ permits' \in Nat
    BY <2>1, FS_CardinalityType DEF LaneIsWhole
  <2> QED
    BY <2>1, <2>2, DaemonAssumption DEF LaneIsWhole
<1>3. HistOK' /\ LocalOK' => J!TypeOK'
  BY <1>2, SameHistory DEF J!TypeOK, J!H!HistTypeOK
<1>4. ASSUME NEW req \in H!Request, J!H!Send(req),
             UNCHANGED <<j_mem, j_disk, j_writer>>, j_audio' \subseteq Session
      PROVE  HistOK'
  BY <1>1, <1>4, DaemonAssumption DEF J!H!Send
<1>5. ASSUME UNCHANGED J!histVars PROVE HistOK'
  BY <1>1, <1>5 DEF J!histVars
<1> HIDE DEF HistOK
<1>6. ASSUME NEW j \in Session, J!FileEntry(j) PROVE J!TypeOK'
  <2>1. HistOK'
    BY <1>1, <1>4, <1>6, RequestsTyped, QueueTyped DEF J!FileEntry
  <2>2. LocalOK'
    BY <1>1, <1>6 DEF J!FileEntry, J!JobPc, J!processVars
  <2> QED
    BY <1>3, <2>1, <2>2
<1>7. ASSUME NEW j \in Session, J!Submit(j) \/ J!SubmitRecovered(j)
      PROVE  J!TypeOK'
  <2>1. HistOK'
    BY <1>5, <1>7 DEF J!Submit, J!SubmitRecovered
  <2>2. LocalOK'
    <3>0. /\ J!submit(j)
          /\ UNCHANGED <<auto, aborting, cancelling, cancels, announced, J!processVars>>
      BY <1>7 DEF J!Submit, J!SubmitRecovered
    <3>1. CASE accepting
      BY <1>1, <3>0, <3>1
      DEF J!submit, J!JobPc, J!TaskPc, J!JobState, J!processVars
    <3>2. CASE ~accepting
      BY <1>1, <3>0, <3>2 DEF J!submit, J!JobPc, J!processVars
    <3> QED
      BY <3>1, <3>2
  <2> QED
    BY <1>3, <2>1, <2>2
<1>8. ASSUME NEW j \in Session, J!AcquirePermit(j) \/ J!Transcribed(j)
      PROVE  J!TypeOK'
  <2>1. HistOK'
    BY <1>5, <1>8 DEF J!AcquirePermit, J!Transcribed
  <2>2. LocalOK'
    BY <1>1, <1>8
    DEF J!AcquirePermit, J!Transcribed, J!Task, J!JobPc, J!TaskPc, J!JobState,
        J!processVars
  <2> QED
    BY <1>3, <2>1, <2>2
<1>9. ASSUME NEW j \in Session, J!MarkTranscribing(j) \/ J!RecordResult(j)
      PROVE  J!TypeOK'
  <2>1. HistOK'
    BY <1>1, <1>4, <1>9, RequestsTyped, QueueTyped
    DEF J!MarkTranscribing, J!RecordResult, J!RecordTranscript, J!RecordFailure
  <2>2. LocalOK'
    BY <1>1, <1>9
    DEF J!MarkTranscribing, J!RecordResult, J!Task, J!JobPc, J!TaskPc, J!processVars
  <2> QED
    BY <1>3, <2>1, <2>2
<1>10. ASSUME NEW j \in Session,
              J!AnnounceResult(j) \/ J!ProgressResult(j) \/ J!FinishJob(j)
       PROVE  J!TypeOK'
  <2>1. HistOK'
    BY <1>5, <1>10 DEF J!AnnounceResult, J!ProgressResult, J!FinishJob
  <2>2. LocalOK'
    BY <1>1, <1>10
    DEF J!AnnounceResult, J!ProgressResult, J!FinishJob, J!Task, J!JobPc,
        J!TaskPc, J!JobState, J!processVars
  <2> QED
    BY <1>3, <2>1, <2>2
<1>11. ASSUME NEW j \in Session, J!Cancel(j) PROVE J!TypeOK'
  <2>1. HistOK'
    BY <1>5, <1>11 DEF J!Cancel
  <2>2. cancels' \in 0 .. MaxCancels /\ cancelling[j] + 1 \in 0 .. MaxCancels
    <3>1. cancels' = cancels + 1 /\ cancels < MaxCancels
      BY <1>11 DEF J!Cancel
    <3>2. cancelling[j] <= cancels
      BY DEF JobsInv, CancelStops
    <3> QED
      BY <1>1, <3>1, <3>2, DaemonAssumption
  <2>3. cancelling' \in [Session -> 0 .. MaxCancels]
    BY <1>1, <1>11, <2>2 DEF J!Cancel
  <2>4. LocalOK'
    BY <1>1, <1>11, <2>2, <2>3 DEF J!Cancel, J!abort, J!JobState, J!processVars
  <2> QED
    BY <1>3, <2>1, <2>4
<1>12. ASSUME NEW j \in Session, J!DropAborted(j) PROVE J!TypeOK'
  <2>1. HistOK'
    BY <1>5, <1>12 DEF J!DropAborted
  <2>2. LocalOK'
    BY <1>1, <1>12 DEF J!DropAborted, J!SenderDropped, J!JobPc, J!processVars
  <2> QED
    BY <1>3, <2>1, <2>2
<1>13. ASSUME NEW j \in Session, J!RecordCancel(j) PROVE J!TypeOK'
  <2>1. HistOK'
    BY <1>1, <1>4, <1>13, RequestsTyped, QueueTyped DEF J!RecordCancel
  <2>2. cancelling[j] - 1 \in 0 .. MaxCancels
    BY <1>1, <1>13, DaemonAssumption DEF J!RecordCancel
  <2>3. cancelling' \in [Session -> 0 .. MaxCancels]
    BY <1>1, <1>13, <2>2 DEF J!RecordCancel
  <2>4. LocalOK'
    BY <1>1, <1>13, <2>3 DEF J!RecordCancel, J!processVars
  <2> QED
    BY <1>3, <2>1, <2>4
<1>14. CASE J!CloseQueue \/ J!ExitQueue
  <2>1. HistOK'
    BY <1>5, <1>14 DEF J!CloseQueue, J!ExitQueue
  <2>2. LocalOK'
    BY <1>1, <1>14 DEF J!CloseQueue, J!ExitQueue, J!jobVars
  <2> QED
    BY <1>3, <2>1, <2>2
<1>15. CASE J!WriterStep
  <2>1. /\ UNCHANGED <<J!jobVars, J!processVars>>
        /\ UNCHANGED <<jpc, recovered, unlisted>>
    BY <1>15 DEF J!WriterStep, J!jobVars, J!processVars
  <2>2. HistOK'
    <3>1. CASE J!H!LoadHistory
      BY <1>1, <2>1, <3>1, LoadedIs DEF JobsInv, HistOK
    <3>2. CASE J!H!ServeRequest
      <4>1. /\ j_mem' \in H!Entries /\ j_disk' \in H!DiskImage
            /\ j_audio' \subseteq j_audio /\ UNCHANGED j_writer
        BY <3>2, ServedIs DEF JobsInv
      <4>2. j_chan' \in Seq(H!Request) /\ Len(j_chan') <= ChannelDepth
        BY <2>1, <3>2, ServeKeeps DEF JobsInv
      <4> QED
        BY <1>1, <4>1, <4>2 DEF HistOK
    <3> QED
      BY <1>15, <3>1, <3>2 DEF J!WriterStep
  <2>3. LocalOK'
    BY <1>1, <2>1 DEF J!jobVars, J!processVars
  <2> QED
    BY <1>3, <2>2, <2>3
<1>16. CASE UNCHANGED J!vars
  <2>1. HistOK'
    BY <1>5, <1>16 DEF J!vars
  <2>2. LocalOK'
    BY <1>1, <1>16 DEF J!vars, J!jobVars, J!processVars
  <2> QED
    BY <1>3, <2>1, <2>2
<1> QED
  BY <1>6, <1>7, <1>8, <1>9, <1>10, <1>11, <1>12, <1>13, <1>14, <1>15, <1>16
  DEF J!Next, J!JobStep

(* What a job's own request and the other jobs' requests leave true.       *)
LEMMA ToldKeeps ==
    ASSUME NEW t \in Session, HistoryTold(t),
           jpc'[t] = jpc[t], announced'[t] = announced[t],
           registry'[t] = registry[t], cancelling'[t] = cancelling[t],
           t \in aborting' <=> t \in aborting,
           UNCHANGED unlisted,
           t \notin unlisted =>
              /\ \A st \in {"done", "failed"} : Settled(t, st) => Settled(t, st)'
              /\ TranscriptSent(t) => TranscriptSent(t)'
    PROVE  HistoryTold(t)'
BY DEF HistoryTold, Announced, Told

LEMMA SameQueue ==
    ASSUME UNCHANGED J!histVars
    PROVE  \A t \in Session :
              /\ \A st : Settled(t, st) => Settled(t, st)'
              /\ TranscriptSent(t) => TranscriptSent(t)'
              /\ Filed(t) => Filed(t)'
BY DEF J!histVars, Settled, TranscriptSent, Filed

LEMMA CancelStep ==
    ASSUME JobsInv, [J!Next]_(J!vars), NEW t \in Session
    PROVE  CancelStops(t)'
<1> DEFINE Locals == <<jpc, registry, aborting, cancelling, cancels>>
<1>1. /\ jpc \in [Session -> J!JobPc] /\ registry \in [Session -> J!JobState]
      /\ cancelling \in [Session -> Nat] /\ cancels \in Nat
      /\ CancelStops(t)
  BY DaemonAssumption DEF JobsInv, J!TypeOK
<1>2. ASSUME UNCHANGED Locals PROVE CancelStops(t)'
  BY <1>1, <1>2 DEF CancelStops
<1>3. ASSUME NEW j \in Session, J!FileEntry(j) PROVE CancelStops(t)'
  BY <1>1, <1>3 DEF J!FileEntry, CancelStops, J!TaskPc
<1>4. ASSUME NEW j \in Session, J!Submit(j) \/ J!SubmitRecovered(j)
      PROVE  CancelStops(t)'
  BY <1>1, <1>4 DEF J!Submit, J!SubmitRecovered, J!submit, CancelStops, J!TaskPc
<1>5. ASSUME NEW j \in Session,
             J!AcquirePermit(j) \/ J!MarkTranscribing(j) \/ J!Transcribed(j)
      PROVE  CancelStops(t)'
  BY <1>1, <1>5
  DEF J!AcquirePermit, J!MarkTranscribing, J!Transcribed, J!Task, CancelStops,
      J!TaskPc
<1>6. ASSUME NEW j \in Session, J!RecordResult(j) \/ J!AnnounceResult(j)
      PROVE  CancelStops(t)'
  BY <1>1, <1>6
  DEF J!RecordResult, J!AnnounceResult, J!Task, CancelStops, J!TaskPc
<1>7. ASSUME NEW j \in Session, J!ProgressResult(j) \/ J!FinishJob(j)
      PROVE  CancelStops(t)'
  BY <1>1, <1>7
  DEF J!ProgressResult, J!FinishJob, J!Task, CancelStops, J!TaskPc
<1>8. ASSUME NEW j \in Session, J!Cancel(j) PROVE CancelStops(t)'
  BY <1>1, <1>8 DEF J!Cancel, J!abort, CancelStops
<1>9. ASSUME NEW j \in Session, J!DropAborted(j) PROVE CancelStops(t)'
  <2>1. jpc[j] \in J!TaskPc
    BY <1>9 DEF J!DropAborted, JobsInv, CancelStops
  <2> QED
    BY <1>1, <1>9, <2>1 DEF J!DropAborted, CancelStops, J!TaskPc
<1>10. ASSUME NEW j \in Session, J!RecordCancel(j) PROVE CancelStops(t)'
  BY <1>1, <1>10 DEF J!RecordCancel, CancelStops
<1>11. CASE J!CloseQueue \/ J!ExitQueue \/ J!WriterStep \/ UNCHANGED J!vars
  BY <1>2, <1>11
  DEF J!CloseQueue, J!ExitQueue, J!WriterStep, J!vars, J!jobVars
<1> QED
  BY <1>3, <1>4, <1>5, <1>6, <1>7, <1>8, <1>9, <1>10, <1>11
  DEF J!Next, J!JobStep

(* A cancelled job whose history update is pending has not run to its end. *)
LEMMA CancelPending ==
    ASSUME JobsInv, NEW j \in Session, cancelling[j] > 0
    PROVE  /\ registry[j] = "cancelled"
           /\ jpc[j] \notin {"new", "filed", "refused", "gone"}
           /\ jpc[j] \notin J!TaskPc \/ j \in aborting
BY DEF JobsInv, CancelStops

LEMMA OrderStep ==
    ASSUME JobsInv, [J!Next]_(J!vars)
    PROVE  RequestsInOrder'
<1>1. J!TypeOK /\ RequestsInOrder /\ J!TypeOK'
  BY JobTypeStep DEF JobsInv
<1>2. jpc \in [Session -> J!JobPc] /\ jpc' \in [Session -> J!JobPc]
  BY <1>1 DEF J!TypeOK
<1>3. ASSUME UNCHANGED J!histVars, UNCHANGED <<recovered, unlisted>>,
             \A t \in Session : jpc'[t] = "new" => jpc[t] = "new",
             \A t \in Session \ recovered : jpc[t] = "new" => jpc'[t] = "new"
      PROVE  RequestsInOrder'
  <2>1. UNCHANGED <<j_chan, j_mem, j_disk, j_writer>>
    BY <1>3 DEF J!histVars
  <2>2. \A t \in Session : Filed(t) => Filed(t)'
    BY <1>3, SameQueue
  <2>3. EntriesInOrder'
    BY <1>1, <1>3, <2>1, <2>2 DEF RequestsInOrder, EntriesInOrder, Listed
  <2>4. ChannelInOrder'
    BY <1>1, <1>3, <2>1 DEF RequestsInOrder, ChannelInOrder
  <2>5. StartInOrder'
    BY <1>1, <1>3, <2>1 DEF RequestsInOrder, StartInOrder, Listed
  <2> QED
    BY <1>1, <1>3, <2>3, <2>4, <2>5 DEF RequestsInOrder
<1>4. ASSUME NEW j \in Session, J!FileEntry(j) PROVE RequestsInOrder'
  <2> DEFINE req == J!H!Upsert(j, "recorded")
  <2>1. /\ j_chan' = Append(j_chan, req) /\ UNCHANGED <<j_mem, j_disk, j_writer>>
        /\ jpc[j] = "new" /\ j \notin recovered /\ jpc' = [jpc EXCEPT ![j] = "filed"]
        /\ UNCHANGED <<recovered, unlisted>>
    BY <1>4 DEF J!FileEntry, J!H!Send, J!processVars
  <2>2. req \in H!Request /\ req.id = j /\ req.op = "upsert"
    BY RequestsTyped
  <2> HIDE DEF req
  <2>3. jpc'[j] # "new" /\ \A t \in Session \ {j} : jpc'[t] = jpc[t]
    BY <1>2, <2>1
  <2> QED
    BY <1>1, <1>2, <2>1, <2>2, <2>3, SendInOrder
<1>5. ASSUME NEW j \in Session, NEW req \in H!Request,
             req.id = j, req.op \in {"set_status", "set_transcript"},
             J!H!Send(req), UNCHANGED <<j_mem, j_disk, j_writer>>,
             UNCHANGED J!processVars, jpc[j] # "new", jpc'[j] # "new",
             \A t \in Session \ {j} : jpc'[t] = jpc[t]
      PROVE  RequestsInOrder'
  <2>1. j_chan' = Append(j_chan, req) /\ UNCHANGED <<recovered, unlisted>>
    BY <1>5 DEF J!H!Send, J!processVars
  <2> QED
    BY <1>1, <1>2, <1>5, <2>1, SendInOrder
<1>6. ASSUME NEW j \in Session, NEW from, NEW to, J!Task(j, from, to),
             from # "new", to # "new"
      PROVE  /\ jpc[j] # "new" /\ jpc'[j] # "new"
             /\ \A t \in Session \ {j} : jpc'[t] = jpc[t]
  BY <1>2, <1>6 DEF J!Task
<1>7. ASSUME NEW j \in Session, J!Submit(j) \/ J!SubmitRecovered(j)
      PROVE  RequestsInOrder'
  <2>1. UNCHANGED J!histVars /\ UNCHANGED <<recovered, unlisted>>
    BY <1>7 DEF J!Submit, J!SubmitRecovered, J!processVars
  <2>2. /\ \A t \in Session : jpc'[t] = "new" => jpc[t] = "new"
        /\ \A t \in Session \ recovered : jpc[t] = "new" => jpc'[t] = "new"
    BY <1>2, <1>7 DEF J!Submit, J!SubmitRecovered, J!submit
  <2> QED
    BY <1>3, <2>1, <2>2
<1>8. ASSUME NEW j \in Session,
             J!AcquirePermit(j) \/ J!Transcribed(j) \/ J!AnnounceResult(j)
               \/ J!ProgressResult(j) \/ J!FinishJob(j)
      PROVE  RequestsInOrder'
  <2>1. UNCHANGED J!histVars /\ UNCHANGED <<recovered, unlisted>>
    BY <1>8 DEF J!AcquirePermit, J!Transcribed, J!AnnounceResult,
                J!ProgressResult, J!FinishJob, J!processVars
  <2>2. \A t \in Session : jpc'[t] = "new" <=> jpc[t] = "new"
    BY <1>6, <1>8 DEF J!AcquirePermit, J!Transcribed, J!AnnounceResult,
                      J!ProgressResult, J!FinishJob
  <2> QED
    BY <1>3, <2>1, <2>2
<1>9. ASSUME NEW j \in Session, J!MarkTranscribing(j) PROVE RequestsInOrder'
  BY <1>5, <1>6, <1>9, RequestsTyped DEF J!MarkTranscribing
<1>10. ASSUME NEW j \in Session, J!RecordResult(j) PROVE RequestsInOrder'
  <2>1. /\ J!H!Send(H!SetTranscript(j)) \/ J!H!Send(J!H!SetStatus(j, "failed"))
        /\ UNCHANGED <<j_mem, j_disk, j_writer>> /\ UNCHANGED J!processVars
    BY <1>10, RequestsTyped
    DEF J!RecordResult, J!RecordTranscript, J!RecordFailure
  <2>2. /\ jpc[j] # "new" /\ jpc'[j] # "new"
        /\ \A t \in Session \ {j} : jpc'[t] = jpc[t]
    BY <1>6, <1>10 DEF J!RecordResult
  <2> QED
    BY <1>5, <2>1, <2>2, RequestsTyped
<1>11. ASSUME NEW j \in Session, J!Cancel(j) PROVE RequestsInOrder'
  BY <1>3, <1>11 DEF J!Cancel, J!processVars
<1>12. ASSUME NEW j \in Session, J!DropAborted(j) PROVE RequestsInOrder'
  <2>1. jpc[j] \in J!TaskPc
    BY <1>12 DEF J!DropAborted, JobsInv, CancelStops
  <2>2. \A t \in Session : jpc'[t] = "new" <=> jpc[t] = "new"
    BY <1>2, <1>12, <2>1 DEF J!DropAborted, J!TaskPc
  <2> QED
    BY <1>3, <1>12, <2>2 DEF J!DropAborted, J!processVars
<1>13. ASSUME NEW j \in Session, J!RecordCancel(j) PROVE RequestsInOrder'
  <2>1. /\ J!H!Send(J!H!SetStatus(j, "failed")) /\ UNCHANGED jpc
        /\ UNCHANGED <<j_mem, j_disk, j_writer>> /\ cancelling[j] > 0
        /\ UNCHANGED J!processVars
    BY <1>13 DEF J!RecordCancel
  <2>2. jpc[j] # "new"
    BY <2>1, CancelPending
  <2> QED
    BY <1>5, <2>1, <2>2, RequestsTyped
<1>14. CASE J!CloseQueue \/ J!ExitQueue \/ UNCHANGED J!vars
  BY <1>3, <1>14 DEF J!CloseQueue, J!ExitQueue, J!vars, J!jobVars, J!processVars
<1>15. CASE J!WriterStep
  <2>1. UNCHANGED <<jpc, recovered, unlisted>>
    BY <1>15 DEF J!WriterStep, J!jobVars, J!processVars
  <2>2. CASE J!H!LoadHistory
    BY <1>1, <2>1, <2>2, LoadKeeps
  <2>3. CASE J!H!ServeRequest
    BY <1>1, <2>1, <2>3, ServeKeeps
  <2> QED
    BY <1>15, <2>2, <2>3 DEF J!WriterStep
<1> QED
  BY <1>4, <1>7, <1>8, <1>9, <1>10, <1>11, <1>12, <1>13, <1>14, <1>15
  DEF J!Next, J!JobStep

LEMMA ToldStep ==
    ASSUME JobsInv, [J!Next]_(J!vars), NEW t \in Session
    PROVE  HistoryTold(t)'
<1>1. /\ J!TypeOK /\ RequestsInOrder /\ CancelStops(t) /\ HistoryTold(t)
      /\ jpc \in [Session -> J!JobPc] /\ registry \in [Session -> J!JobState]
      /\ cancelling \in [Session -> Nat]
      /\ announced \in [Session -> {"none", "completed", "failed"}]
  BY DaemonAssumption DEF JobsInv, J!TypeOK
<1> DEFINE Same == /\ jpc'[t] = jpc[t] /\ announced'[t] = announced[t]
                   /\ registry'[t] = registry[t] /\ cancelling'[t] = cancelling[t]
                   /\ t \in aborting' <=> t \in aborting
           Kept == t \notin unlisted =>
                      /\ \A st \in {"done", "failed"} : Settled(t, st) => Settled(t, st)'
                      /\ TranscriptSent(t) => TranscriptSent(t)'
<1>0. UNCHANGED unlisted
  BY DEF J!Next, J!JobStep, J!FileEntry, J!Submit, J!SubmitRecovered,
         J!AcquirePermit, J!MarkTranscribing, J!Transcribed, J!RecordResult,
         J!AnnounceResult, J!ProgressResult, J!FinishJob, J!Cancel, J!DropAborted,
         J!RecordCancel, J!CloseQueue, J!ExitQueue, J!WriterStep, J!vars,
         J!processVars
<1>2. Same /\ Kept => HistoryTold(t)'
  BY <1>0, <1>1, ToldKeeps
<1>3. UNCHANGED J!histVars => Kept
  BY SameQueue
<1>4. ASSUME NEW j \in Session, NEW req \in H!Request, J!H!Send(req),
             UNCHANGED j_mem, req.id = j
      PROVE  /\ t # j => Kept
             /\ Settled(j, StatusOf(req))'
             /\ TranscriptSent(t) => TranscriptSent(t)'
             /\ req = H!SetTranscript(j) => TranscriptSent(j)'
  <2>1. j_chan' = Append(j_chan, req)
    BY <1>4 DEF J!H!Send
  <2> QED
    BY <1>1, <1>4, <2>1, SendKeeps
<1> HIDE DEF Kept
<1>5. ASSUME NEW j \in Session, J!FileEntry(j) PROVE HistoryTold(t)'
  <2>1. CASE t # j
    <3>1. Kept
      BY <1>4, <1>5, <2>1, RequestsTyped DEF J!FileEntry
    <3>2. Same
      BY <1>0, <1>1, <1>5, <2>1 DEF J!FileEntry
    <3> QED
      BY <1>2, <3>1, <3>2
  <2>2. CASE t = j
    BY <1>0, <1>1, <1>5, <2>2
    DEF J!FileEntry, HistoryTold, Announced, Told, CancelStops, OkPc, ErrPc
  <2> QED
    BY <2>1, <2>2
<1>6. ASSUME NEW j \in Session, J!Submit(j) \/ J!SubmitRecovered(j)
      PROVE  HistoryTold(t)'
  <2>1. CASE t # j
    <3>1. Kept
      BY <1>3, <1>6 DEF J!Submit, J!SubmitRecovered
    <3>2. Same
      BY <1>0, <1>1, <1>6, <2>1 DEF J!Submit, J!SubmitRecovered, J!submit
    <3> QED
      BY <1>2, <3>1, <3>2
  <2>2. CASE t = j
    BY <1>0, <1>1, <1>6, <2>2
    DEF J!Submit, J!SubmitRecovered, J!submit, HistoryTold, Announced, Told,
        CancelStops, OkPc, ErrPc
  <2> QED
    BY <2>1, <2>2
<1>7. ASSUME NEW j \in Session, J!AcquirePermit(j) \/ J!Transcribed(j)
      PROVE  HistoryTold(t)'
  <2>1. Kept
    BY <1>3, <1>7 DEF J!AcquirePermit, J!Transcribed
  <2>2. CASE t # j
    <3>1. Same
      BY <1>0, <1>1, <1>7, <2>2 DEF J!AcquirePermit, J!Transcribed, J!Task
    <3> QED
      BY <1>2, <2>1, <3>1
  <2>3. CASE t = j
    BY <1>0, <1>1, <1>7, <2>3
    DEF J!AcquirePermit, J!Transcribed, J!Task, HistoryTold, Announced, Told, CancelStops, OkPc,
        ErrPc, J!TaskPc
  <2> QED
    BY <2>2, <2>3
<1>8. ASSUME NEW j \in Session, J!MarkTranscribing(j) PROVE HistoryTold(t)'
  <2>1. CASE t # j
    <3>1. Kept
      BY <1>4, <1>8, <2>1, RequestsTyped DEF J!MarkTranscribing
    <3>2. Same
      BY <1>0, <1>1, <1>8, <2>1 DEF J!MarkTranscribing, J!Task
    <3> QED
      BY <1>2, <3>1, <3>2
  <2>2. CASE t = j
    BY <1>0, <1>1, <1>8, <2>2
    DEF J!MarkTranscribing, J!Task, HistoryTold, Announced, Told, CancelStops, OkPc, ErrPc,
        J!TaskPc
  <2> QED
    BY <2>1, <2>2
<1>9. ASSUME NEW j \in Session, J!RecordResult(j) PROVE HistoryTold(t)'
  <2>1. /\ UNCHANGED <<j_mem, registry, announced, cancelling, aborting>>
        /\ \/ /\ J!Task(j, "succeeded", "okRecorded")
              /\ J!H!Send(H!SetTranscript(j))
           \/ /\ J!Task(j, "failed", "errRecorded")
              /\ J!H!Send(J!H!SetStatus(j, "failed"))
    BY <1>9, RequestsTyped
    DEF J!RecordResult, J!RecordTranscript, J!RecordFailure
  <2>2. CASE t # j
    <3>1. Kept
      BY <1>4, <2>1, <2>2, RequestsTyped
    <3>2. Same
      BY <1>0, <1>1, <2>1, <2>2 DEF J!Task
    <3> QED
      BY <1>2, <3>1, <3>2
  <2>3. CASE t = j /\ jpc[j] = "succeeded"
    <3>1. /\ jpc'[j] = "okRecorded" /\ j \notin aborting
          /\ J!H!Send(H!SetTranscript(j))
      BY <1>0, <1>1, <2>1, <2>3 DEF J!Task
    <3>2. Settled(t, "done")' /\ TranscriptSent(t)'
      BY <1>4, <2>1, <2>3, <3>1, RequestsTyped
    <3>3. registry[t] # "cancelled"
      BY <1>0, <1>1, <2>3, <3>1 DEF CancelStops, J!TaskPc
    <3> QED
      BY <1>0, <1>1, <2>1, <2>3, <3>1, <3>2, <3>3 DEF HistoryTold, Announced, Told, OkPc, ErrPc
  <2>4. CASE t = j /\ jpc[j] = "failed"
    <3>1. /\ jpc'[j] = "errRecorded" /\ j \notin aborting
          /\ J!H!Send(J!H!SetStatus(j, "failed"))
      BY <1>0, <1>1, <2>1, <2>4 DEF J!Task
    <3>2. Settled(t, "failed")'
      BY <1>4, <2>1, <2>4, <3>1, RequestsTyped
    <3>3. registry[t] # "cancelled"
      BY <1>0, <1>1, <2>4, <3>1 DEF CancelStops, J!TaskPc
    <3> QED
      BY <1>0, <1>1, <2>1, <2>4, <3>1, <3>2, <3>3 DEF HistoryTold, Announced, Told, OkPc, ErrPc
  <2> QED
    BY <2>1, <2>2, <2>3, <2>4 DEF J!Task
<1>10. ASSUME NEW j \in Session,
              J!AnnounceResult(j) \/ J!ProgressResult(j) \/ J!FinishJob(j)
       PROVE  HistoryTold(t)'
  <2>1. Kept
    BY <1>3, <1>10 DEF J!AnnounceResult, J!ProgressResult, J!FinishJob
  <2>2. CASE t # j
    <3>1. Same
      BY <1>0, <1>1, <1>10, <2>2
      DEF J!AnnounceResult, J!ProgressResult, J!FinishJob, J!Task
    <3> QED
      BY <1>2, <2>1, <3>1
  <2>3. CASE t = j
    <3>1. j \notin aborting /\ j \notin aborting' /\ jpc[j] \in OkPc \union ErrPc
      BY <1>10
      DEF J!AnnounceResult, J!ProgressResult, J!FinishJob, J!Task, OkPc, ErrPc
    <3>2. registry[t] # "cancelled"
      BY <1>0, <1>1, <2>3, <3>1 DEF CancelStops, J!TaskPc, OkPc, ErrPc
    <3>0. jpc[j] \in ErrPc => announced[t] # "completed"
      BY <1>1, <2>3 DEF HistoryTold, Announced, ErrPc
    <3>3. t \notin unlisted =>
          /\ jpc[j] \in OkPc => Settled(t, "done")' /\ TranscriptSent(t)'
          /\ jpc[j] \in ErrPc => Settled(t, "failed")'
      BY <1>0, <1>1, <2>1, <2>3, <3>1 DEF Kept, HistoryTold, Announced, Told, OkPc, ErrPc
    <3>4. CASE J!AnnounceResult(j)
      BY <1>0, <1>1, <2>3, <3>0, <3>1, <3>2, <3>3, <3>4
      DEF J!AnnounceResult, J!Task, HistoryTold, Announced, Told, OkPc,
          ErrPc
    <3>5. CASE J!ProgressResult(j)
      BY <1>0, <1>1, <2>3, <3>0, <3>1, <3>2, <3>3, <3>5
      DEF J!ProgressResult, J!Task, HistoryTold, Announced, Told, OkPc,
          ErrPc
    <3>6. CASE J!FinishJob(j)
      BY <1>0, <1>1, <2>3, <3>0, <3>1, <3>2, <3>3, <3>6
      DEF J!FinishJob, J!Task, HistoryTold, Announced, Told, OkPc,
          ErrPc
    <3> QED
      BY <1>10, <3>4, <3>5, <3>6
  <2> QED
    BY <2>2, <2>3
<1>11. ASSUME NEW j \in Session, J!Cancel(j) PROVE HistoryTold(t)'
  <2>1. Kept
    BY <1>3, <1>11 DEF J!Cancel
  <2>2. CASE t # j
    <3>1. Same
      BY <1>0, <1>1, <1>11, <2>2 DEF J!Cancel, J!abort
    <3> QED
      BY <1>2, <2>1, <3>1
  <2>3. CASE t = j
    <3>1. /\ UNCHANGED <<jpc, announced>> /\ cancelling'[t] > 0
          /\ aborting \subseteq aborting'
      BY <1>0, <1>1, <1>11, <2>3 DEF J!Cancel, J!abort
    <3>2. cancelling'[t] # 0
      BY <3>1
    <3> QED
      BY <1>0, <1>1, <2>1, <3>1, <3>2 DEF Kept, HistoryTold, Announced, Told
  <2> QED
    BY <2>2, <2>3
<1>12. ASSUME NEW j \in Session, J!DropAborted(j) PROVE HistoryTold(t)'
  <2>1. Kept
    BY <1>3, <1>12 DEF J!DropAborted
  <2>2. CASE t # j
    <3>1. Same
      BY <1>0, <1>1, <1>12, <2>2 DEF J!DropAborted
    <3> QED
      BY <1>2, <2>1, <3>1
  <2>3. CASE t = j
    <3>1. /\ jpc'[t] = "dropped" /\ UNCHANGED <<announced, registry, cancelling>>
      BY <1>0, <1>1, <1>12, <2>3 DEF J!DropAborted
    <3> QED
      BY <1>0, <1>1, <2>1, <3>1 DEF Kept, HistoryTold, Announced, Told, OkPc, ErrPc
  <2> QED
    BY <2>2, <2>3
<1>13. ASSUME NEW j \in Session, J!RecordCancel(j) PROVE HistoryTold(t)'
  <2>1. /\ J!H!Send(J!H!SetStatus(j, "failed")) /\ cancelling[j] > 0
        /\ cancelling' = [cancelling EXCEPT ![j] = @ - 1]
        /\ UNCHANGED <<j_mem, jpc, registry, announced, aborting>>
    BY <1>13 DEF J!RecordCancel
  <2>2. CASE t # j
    <3>1. Kept
      BY <1>4, <2>1, <2>2, RequestsTyped
    <3>2. Same
      BY <1>0, <1>1, <2>1, <2>2
    <3> QED
      BY <1>2, <3>1, <3>2
  <2>3. CASE t = j
    <3>1. /\ Settled(t, "failed")'
          /\ TranscriptSent(t) => TranscriptSent(t)'
      BY <1>4, <2>1, <2>3, RequestsTyped
    <3>2. /\ jpc[t] # "gone"
          /\ jpc[t] \in OkPc \union ErrPc => t \in aborting
      BY <2>1, <2>3, CancelPending DEF OkPc, ErrPc, J!TaskPc
    <3> QED
      BY <1>0, <1>1, <2>1, <3>1, <3>2 DEF HistoryTold, Announced, Told
  <2> QED
    BY <2>2, <2>3
<1>14. CASE J!CloseQueue \/ J!ExitQueue \/ UNCHANGED J!vars
  <2>1. Kept
    BY <1>3, <1>14 DEF J!CloseQueue, J!ExitQueue, J!vars
  <2>2. Same
    BY <1>14 DEF J!CloseQueue, J!ExitQueue, J!vars, J!jobVars
  <2> QED
    BY <1>2, <2>1, <2>2
<1>15. CASE J!WriterStep
  <2>1. Same /\ UNCHANGED <<jpc, recovered, unlisted>>
    BY <1>15 DEF J!WriterStep, J!jobVars, J!processVars
  <2>2. CASE J!H!LoadHistory
    <3>1. Kept
      BY <1>1, <2>1, <2>2, LoadKeeps DEF Kept
    <3> QED
      BY <1>2, <2>1, <3>1
  <2>3. CASE J!H!ServeRequest
    <3>1. Kept
      BY <1>0, <1>1, <2>1, <2>3, ServeKeeps DEF Kept
    <3> QED
      BY <1>2, <2>1, <3>1
  <2> QED
    BY <1>15, <2>2, <2>3 DEF J!WriterStep
<1> QED
  BY <1>5, <1>6, <1>7, <1>8, <1>9, <1>10, <1>11, <1>12, <1>13, <1>14, <1>15
  DEF J!Next, J!JobStep

LEMMA JobsInit == J!Init => JobsInv
<1> SUFFICES ASSUME J!Init PROVE JobsInv
  OBVIOUS
<1>1. /\ \A j \in Session : jpc[j] = "new" /\ registry[j] = "absent"
      /\ \A j \in Session : announced[j] = "none" /\ cancelling[j] = 0
      /\ aborting = {} /\ cancels = 0 /\ permits = Concurrency
      /\ j_chan = << >> /\ j_writer = "loading"
      /\ j_mem = H!NoEntries
      /\ recovered \subseteq Session /\ unlisted \subseteq recovered
  BY SameHistory DEF J!Init, J!JobInit
<1>7. /\ j_disk \in H!DiskImage /\ j_disk.readable = TRUE
      /\ \A j \in Session : j_disk.sessions[j] = H!NoEntry <=> j \notin Listed
  <2>1. PICK e \in J!LeftEntry :
           j_disk = [readable |-> TRUE,
                     sessions |-> [j \in Session |-> IF j \in Listed THEN e
                                                   ELSE H!NoEntry]]
    BY SameHistory DEF J!Init, Listed
  <2>2. e \in H!Entry
    <3>1. PICK st \in H!Status, c \in BOOLEAN, f \in BOOLEAN :
             e = [status |-> st, transcript |-> c, error |-> f]
      <4>1. PICK st \in H!Status :
               e = [status |-> st, transcript |-> st = "done",
                    error |-> st \in {"interrupted", "failed"}]
        BY DEF J!LeftEntry, H!Status, J!H!Status
      <4>2. PICK c \in BOOLEAN : c = (st = "done")
        OBVIOUS
      <4>3. (st \in {"interrupted", "failed"}) \in BOOLEAN
        OBVIOUS
      <4>4. PICK f \in BOOLEAN : f = (st \in {"interrupted", "failed"})
        BY <4>3, Zenon
      <4> QED
        BY <4>1, <4>2, <4>4, Zenon
    <3> QED
      BY <3>1 DEF H!Entry
  <2>3. e # H!NoEntry
    BY <2>2, NoEntryIs
  <2>4. [j \in Session |-> IF j \in Listed THEN e ELSE H!NoEntry] \in H!Entries
    BY <2>2 DEF H!Entries
  <2> QED
    BY <2>1, <2>3, <2>4 DEF H!DiskImage
<1>2. j_mem = H!NoEntries /\ \A j \in Session : j_mem[j] = H!NoEntry
  BY <1>1, NoEntriesIs DEF H!NoEntries
<1>3. J!TypeOK
  <2>1. /\ j_chan \in Seq(H!Request) /\ Len(j_chan) = 0
        /\ j_mem \in H!Entries /\ j_disk \in H!DiskImage /\ j_audio \subseteq Session
        /\ j_writer \in {"loading", "serving", "down"}
    BY <1>1, <1>7, NoEntriesIs DEF J!Init
  <2>2. J!H!HistTypeOK
    BY <2>1, SameHistory, DaemonAssumption DEF J!H!HistTypeOK
  <2> QED
    BY <2>2, DaemonAssumption
    DEF J!Init, J!JobInit, J!TypeOK, J!JobPc, J!JobState
<1>4. LaneIsWhole
  <2>1. Holders = {}
    BY <1>1 DEF Holders, J!HoldsPermit
  <2>2. IsFiniteSet(Holders) /\ Cardinality(Holders) = 0
    BY <2>1, FS_EmptySet
  <2> QED
    BY <1>1, <2>2, DaemonAssumption DEF LaneIsWhole
<1>5. RequestsInOrder
  <2>1. EntriesInOrder
    BY <1>1, <1>2 DEF EntriesInOrder
  <2>2. ChannelInOrder
    BY <1>1 DEF ChannelInOrder
  <2>3. StartInOrder
    BY <1>1, <1>7 DEF StartInOrder
  <2> QED
    BY <1>1, <2>1, <2>2, <2>3 DEF RequestsInOrder
<1>6. \A j \in Session : CancelStops(j) /\ HistoryTold(j)
  <2> SUFFICES ASSUME NEW j \in Session PROVE CancelStops(j) /\ HistoryTold(j)
    OBVIOUS
  <2>1. CancelStops(j)
    BY <1>1 DEF CancelStops, J!TaskPc
  <2>2. HistoryTold(j)
    BY <1>1 DEF HistoryTold, Announced, Told, OkPc, ErrPc
  <2> QED
    BY <2>1, <2>2
<1> QED
  BY <1>3, <1>4, <1>5, <1>6 DEF JobsInv

LEMMA JobsHolds == Spec => []JobsInv
<1>1. Init => JobsInv
  BY JobsInit DEF Init
<1>2. JobsInv /\ [Next]_vars => JobsInv'
  <2> SUFFICES ASSUME JobsInv, [Next]_vars PROVE JobsInv'
    OBVIOUS
  <2>1. J!Next \/ UNCHANGED jvars
    BY DEF Next, vars
  <2>2. UNCHANGED jvars => UNCHANGED J!vars
    BY DEF jvars, J!vars, J!jobVars, J!processVars, J!histVars
  <2>3. [J!Next]_(J!vars)
    BY <2>1, <2>2
  <2>4. J!TypeOK' /\ LaneIsWhole' /\ RequestsInOrder'
    BY <2>3, JobTypeStep, LaneStep, OrderStep DEF JobsInv
  <2>5. \A j \in Session : CancelStops(j)' /\ HistoryTold(j)'
    BY <2>3, CancelStep, ToldStep
  <2> QED
    BY <2>4, <2>5 DEF JobsInv
<1> QED
  BY <1>1, <1>2, PTL DEF Spec

(* In every reachable state, for every number of jobs, permits and cancels *)
(* and every channel depth, the lane's permits are conserved, the index    *)
(* file follows memory and, for every job but a recovered one that the     *)
(* index does not list, a completed job's transcript was sent, a cancelled *)
(* job ends failed and a finished one leaves its result (queue.rs,         *)
(* jobs_service.rs, orphan_recovery.rs, writer.rs).                        *)
THEOREM OutcomesAreRecorded == Spec => []OutcomesRecorded
<1>1. JobsInv => /\ J!TypeOK /\ J!PermitsConserved /\ J!CompletedIsRecorded
                 /\ J!CancelledEndsFailed /\ J!OutcomeReachesHistory
  <2> SUFFICES ASSUME JobsInv
               PROVE  /\ J!PermitsConserved /\ J!CompletedIsRecorded
                      /\ J!CancelledEndsFailed /\ J!OutcomeReachesHistory
    BY DEF JobsInv
  <2>1. J!PermitsConserved
    <3>1. permits + Cardinality(Holders) = Concurrency
      BY DEF JobsInv, LaneIsWhole
    <3>2. J!Cardinality(Holders) = Cardinality(Holders)
      BY Zenon DEF J!Cardinality, Cardinality
    <3> QED
      BY <3>1, <3>2, Zenon DEF Holders, J!PermitsConserved
  <2>2. J!CompletedIsRecorded
    <3>1. \A j \in Session \ unlisted : announced[j] = "completed" => TranscriptSent(j)
      BY DEF JobsInv, HistoryTold, Told
    <3> QED
      BY <3>1, RequestsTyped DEF J!CompletedIsRecorded, TranscriptSent
  <2>3. ASSUME NEW j \in Session, NEW st, Settled(j, st), j_chan = << >>
        PROVE  j_mem[j].status = st
    BY <2>3 DEF Settled
  <2>4. J!CancelledEndsFailed
    BY <2>3 DEF JobsInv, HistoryTold, Told, J!CancelledEndsFailed
  <2>5. J!OutcomeReachesHistory
    BY <2>3 DEF JobsInv, HistoryTold, Told, J!OutcomeReachesHistory
  <2> QED
    BY <2>1, <2>2, <2>4, <2>5
<1>2. HistoryInv => H!HistTypeOK /\ H!DiskMatchesMemory
  BY DEF HistoryInv
<1>3. JobsInv /\ HistoryInv => OutcomesRecorded
  BY <1>1, <1>2 DEF OutcomesRecorded
<1> QED
  BY <1>3, JobsHolds, HistoryHolds, PTL
=============================================================================
