----------------------------- MODULE MCBackends -----------------------------
(***************************************************************************)
(* Model-checking instance of what works alone for a while: Transcription  *)
(* (one run of a backend), ModelDownload (single-file models),             *)
(* BundleInstall (directory bundles) and MicSetup (calibration and the     *)
(* wizard). One part runs in a behaviour. Every invariant includes the type*)
(* invariants of the parts it speaks of.                                   *)
(***************************************************************************)
EXTENDS Integers, Sequences

CONSTANTS
    Runs,             \* runs of a backend, commands of the wizard (bound)
    MaxRetries, Budget, ClientTimeout, RetryAfters, RetryAfterMax, BackoffCap,
    Size, Tasks, MaxFaults, MaxShared,
    Files, Archives, MaxEntries, MaxUnpacked, BundleFaults,
    Loudness, StartVolumes, Low, Goal, Bottom, Tolerance, MaxIterations,
    Absent, Varies, Unread, Zero, Least, Muted

VARIABLE part   \* the part of the system that runs

VARIABLES run, job, pc, outcome, input, children, workers, killed, txt, json,
          torn, http, logged, computed, renaming
T == INSTANCE Transcription
tvars == <<run, job, pc, outcome, input, children, workers, killed, txt, json,
           torn, http, logged, computed, renaming>>

VARIABLES m_part, final, data, started, owner, m_pc, handle, hashed, next,
          cancelled, label, msgs, token, drains, shared, by, faults
M == INSTANCE ModelDownload
     WITH part <- m_part, pc <- m_pc
mvars == <<m_part, final, data, started, owner, m_pc, handle, hashed, next,
           cancelled, label, msgs, token, drains, shared, by, faults>>

VARIABLES source, place, b_final, staging, b_pc, todo, unpacked, result,
          b_faults
B == INSTANCE BundleInstall
     WITH MaxFaults <- BundleFaults, final <- b_final, pc <- b_pc,
          faults <- b_faults
bvars == <<source, place, b_final, staging, b_pc, todo, unpacked, result,
           b_faults>>

VARIABLES l_pc, cmd, voice, volume, before, known, peak, iter, l_result,
          isDefault, user, exit, runs
L == INSTANCE MicSetup
     WITH MinVolume <- Low, Target <- Goal, Floor <- Bottom, pc <- l_pc,
          result <- l_result
lvars == <<l_pc, cmd, voice, volume, before, known, peak, iter, l_result,
           isDefault, user, exit, runs>>

(* The bounds are numbers and the levels whole decibel steps. A bundle has *)
(* several files, none of them named like what the installer adds. A voice *)
(* is above what silence reads as, at any volume but 0 (SILENCE_FLOOR_DB is*)
(* -120 dB), and the target lies between silence and clipping.                  *)
ASSUME BackendsAssumption ==
    /\ {Runs, MaxRetries, Budget, ClientTimeout, RetryAfterMax, BackoffCap,
        Size, Tasks, MaxFaults, MaxEntries, MaxUnpacked, BundleFaults,
        Tolerance} \subseteq Nat
    /\ RetryAfters \subseteq Nat
    /\ MaxIterations \in Nat \ {0}

ASSUME BundleAssumption ==
    /\ Files \in Seq(B!Expected)
    /\ \E m, n \in B!Expected : m # n
    /\ B!Expected \intersect {"extra", "part", ".."} = {}
    /\ Archives \subseteq Seq(B!Entry)

ASSUME LevelAssumption ==
    /\ Loudness \union (StartVolumes \ {Zero}) \union {Low, Goal, Bottom} \subseteq Int
    /\ Zero \notin Int /\ Least \in {Zero, Low}
    /\ Low <= 0 /\ Bottom <= Goal /\ Goal <= 0
    /\ \A l \in Loudness : \A v \in (StartVolumes \ {Zero}) \union (Low .. 0) :
          l + v >= Bottom
    /\ {Varies, Muted} \intersect Loudness = {}
    /\ Absent \notin L!Profile \union L!Names

(* Levels in steps of some dB; one voice clips at full volume.             *)
MCLoudness == {-5, -2, 4}
MCStarts == {-6, 2, Zero}
MCLow == -6
MCGoal == -2
MCBottom == -12

MCFiles == <<"a", "b">>

(* Archives of up to four entries: good ones, one that lacks a file,       *)
(* oversized and lying ones, a link and a path that leaves the directory.  *)
File(n, d, s) == [kind |-> "file", name |-> n, declared |-> d, size |-> s]
Dir == [kind |-> "dir", name |-> "extra", declared |-> 0, size |-> 0]
Link == [kind |-> "link", name |-> "a", declared |-> 0, size |-> 0]
MCArchives ==
    { <<File("a", 1, 1), File("b", 1, 1)>>,
      <<Dir, File("a", 1, 1), File("b", 2, 2)>>,
      <<File("a", 1, 1), File("extra", 1, 1)>>,
      <<File("a", 2, 2), File("b", 3, 3)>>,
      <<File("a", 1, 1), File("b", 1, 9)>>,
      <<File("a", 9, 1), File("b", 1, 1)>>,
      <<File("a", 1, 1), Link>>,
      <<File("..", 1, 1), File("a", 1, 1)>>,
      <<Dir, Dir, File("a", 1, 1), File("b", 1, 1)>> }

(* One part runs; the others keep one of their initial states.             *)
Init ==
    /\ part \in {"transcription", "models", "bundles", "levels"}
    /\ T!Init
    /\ M!Init /\ (part # "models" => drains)
    /\ B!Init /\ (part # "bundles" => source = <<"multi">> /\ place = "file")
    /\ L!Init /\ (part # "levels" => volume = (CHOOSE v \in StartVolumes : TRUE) /\ user["default"] = Absent)

Next ==
    \/ /\ part = "transcription" /\ T!Next
       /\ UNCHANGED <<part, mvars, bvars, lvars>>
    \/ /\ part = "models" /\ M!Next
       /\ UNCHANGED <<part, tvars, bvars, lvars>>
    \/ /\ part = "bundles" /\ B!Next
       /\ UNCHANGED <<part, tvars, mvars, lvars>>
    \/ /\ part = "levels" /\ L!Next
       /\ UNCHANGED <<part, tvars, mvars, bvars>>

vars == <<part, tvars, mvars, bvars, lvars>>

(* The runtime polls the running part; see each part's Fairness.           *)
Fair(i) ==
    \/ /\ part = "transcription" /\ i = 1 /\ T!Step
       /\ UNCHANGED <<part, mvars, bvars, lvars>>
    \/ /\ part = "models"
       /\ \/ i = 1 /\ \E t \in M!Task : M!Proceeds(t)
          \/ i = 2 /\ M!apply_msg
          \/ i = 3 /\ M!ClickDownload
       /\ UNCHANGED <<part, tvars, bvars, lvars>>
    \/ /\ part = "bundles" /\ i = 1 /\ (B!Begin \/ B!Step)
       /\ UNCHANGED <<part, tvars, mvars, lvars>>
    \/ /\ part = "levels" /\ i = 1 /\ L!Step
       /\ UNCHANGED <<part, tvars, mvars, bvars>>

Spec ==
    /\ Init /\ [][Next]_vars
    /\ \A i \in 1 .. 3 : WF_vars(Fair(i))

-----------------------------------------------------------------------------
(* A run that reports success left both artifacts whole, one that fails    *)
(* before its backend has a transcript leaves an earlier one alone, only   *)
(* writes in place tear, retries answer transient failures and stay in the *)
(* budget, a cancelled job leaves no whisper-cli, and the chosen input is  *)
(* accepted and can be produced (coordinator.rs, whisper_cpp.rs,           *)
(* deepgram.rs, parakeet.rs).                                              *)
TranscriptionHolds ==
    /\ part = "transcription" =>
          /\ T!TypeOK
          /\ T!OkHasBothArtifacts
          /\ T!NoTornTranscript
          /\ T!WithinBudget
          /\ T!RetriesAreWarranted
          /\ T!NoStrayChild
          /\ T!InputIsProducible

(* What is found under a model's final name is the model, over crashes and *)
(* resumed downloads, unless the download that put it there overlapped     *)
(* another one; an idle row, the list, the resolver and the installer*)
(* agree on it, success is reported for a bundle that is there, and        *)
(* unpacking stops near its limit (download.rs, model_management.rs,       *)
(* models.rs, bundle_download.rs, archive_extract.rs).                     *)
ModelsHold ==
    /\ part = "models" =>
          /\ M!TypeOK
          /\ M!InstalledIsVerified
          /\ M!RowTellsTruth
    /\ part = "bundles" =>
          /\ B!TypeOK
          /\ B!CompleteIsVerified
          /\ B!InstalledIsComplete
          /\ B!AgreeOnInstalled
          /\ B!ExtractionIsBounded

(* A steady voice is calibrated where that is possible, too quiet is told  *)
(* only to who is or is muted, and a finished wizard stored what was chosen*)
(* with a backend the build has, also after interrupted runs (audio.rs,    *)
(* level.rs).                                                              *)
LevelsHold ==
    /\ part = "levels" =>
          /\ L!TypeOK
          /\ L!SteadyConverges
          /\ L!TooQuietIsTrue
          /\ L!DoneMatchesChoice
          /\ L!DoneIsRunnable

(* A whisper.cpp run returns through its log, a bundle's final path is     *)
(* touched only for a complete new one, and the wizard only adds to a      *)
(* profile (whisper_cpp.rs, bundle_download.rs, audio.rs).                 *)
StepsKeep ==
    /\ T!LogBeforeReturn
    /\ B!FinalWaitsForStaging
    /\ L!OverridesOnlyGrow

(* A Deepgram run returns whatever the server does, a cancelled download   *)
(* ends unless its GET is never answered, where it is answered trying again*)
(* installs a model, and it does a bundle, and calibrate and setup come to *)
(* an end (deepgram.rs, download.rs, bundle_download.rs, audio.rs).        *)
BackendsEnd ==
    /\ T!DeepgramReturns
    /\ M!CancelIsHeard
    /\ []<>(\A t \in M!Task : ~M!Waiting(t)) => <>[](part = "models" => M!Installed)
    /\ B!Converges
    /\ L!SetupEnds
=============================================================================
