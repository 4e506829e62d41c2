--------------------------- MODULE BackendsProofs ---------------------------
(***************************************************************************)
(* Proofs about MCBackends, for every value of its constants: one run of a *)
(* backend, the two installers of models, and the microphone set-up.  Each *)
(* part has an inductive invariant of its own; a step of another part      *)
(* leaves its variables alone.                                             *)
(***************************************************************************)
EXTENDS MCBackends, SequenceTheorems, TLAPS

-----------------------------------------------------------------------------
(* One run of a backend *)

(* Where a run of each backend may await.                                  *)
Phases(b) ==
    CASE b = "whisper-cpp" ->
           {"canonicalize", "prepare", "running", "log", "txt", "json"}
      [] b = "deepgram" ->
           {"metadata", "attempt", "sent", "sleep", "txt", "json"}
      [] b = "parakeet" -> {"collect", "infer", "txt", "json"}
      [] OTHER -> {}

Answered == T!Statuses \union T!Transport \union {"none"}
HttpType == [attempt : Nat, elapsed : Nat, until : Nat, last : Answered]

(* The attempts of a Deepgram run: counted, warranted, in the budget.      *)
HttpInv ==
    /\ http \in HttpType
    /\ http.attempt <= MaxRetries + 1
    /\ http.elapsed <= Budget /\ http.until <= Budget
    /\ pc = "metadata" => http.attempt = 0
    /\ pc \in {"attempt", "sleep"} => http.attempt <= MaxRetries
    /\ pc \in {"sent", "sleep"} => http.attempt >= 1
    /\ (http.attempt >= 1 /\ pc = "attempt") \/ http.attempt > 1 \/ pc = "sleep"
          => T!status_is_retryable(http.last)

(* What is on disk, in each phase.                                         *)
ArtifactInv ==
    /\ {txt, json} \subseteq computed \union {0}
    /\ torn \subseteq {"txt", "json"}
    /\ "txt" \in torn => txt \notin renaming
    /\ "json" \in torn => json \notin renaming
    /\ pc # "idle" => (run \in renaming <=> job.backend = "whisper-cpp" /\ ~job.far)
    /\ pc \in {"txt", "json"} => run \in computed
    /\ pc = "json" => txt = run /\ "txt" \notin torn
    /\ pc \notin {"idle", "log"} => outcome = "none"
    /\ outcome = "ok" => txt = run /\ json = run /\ torn = {}

RunInv ==
    /\ run \in 0 .. Runs /\ job \in T!Job /\ pc \in T!Awaits
    /\ input \in {"none", "EncodedFile", "PcmBuffer", "PcmChunks"}
    /\ {txt, json} \subseteq 0 .. Runs /\ {txt, json} \subseteq 0 .. run
    /\ children \union workers \union killed \union computed \subseteq 1 .. Runs
    /\ renaming \subseteq 1 .. Runs /\ renaming \subseteq 1 .. run
    /\ logged \in 0 .. 1 /\ (pc # "idle" => logged = 0)
    /\ pc # "idle" => run >= 1 /\ pc \in Phases(job.backend)

TranscriptionInv ==
    /\ RunInv /\ HttpInv /\ ArtifactInv
    /\ T!NoStrayChild /\ T!InputIsProducible

-----------------------------------------------------------------------------
(* Single-file models *)

Blocks == 0 .. Size
ModelPc == {"none", "head", "resume", "get", "stream", "verify", "rename",
            "ended"}
Message == {"Started", "Installed", "Cancelled", "Failed"}
Labels == {"Download", "Cancel", "Retry", "Resume", "Installed"}
ContentsOf(f) == IF f = 0 THEN << >> ELSE data[f]

ModelTypes ==
    /\ m_part \in 0 .. Tasks /\ final \in 0 .. Tasks /\ token \in 0 .. Tasks
    /\ handle \in [M!Task -> 0 .. Tasks]
    /\ data \in [M!Task -> Seq(Blocks)] /\ hashed \in [M!Task -> Seq(Blocks)]
    /\ next \in [M!Task -> Nat \ {0}]
    /\ m_pc \in [M!Task -> ModelPc] /\ owner \in [M!Task -> {"row", "cli"}]
    /\ cancelled \in [M!Task -> BOOLEAN]
    /\ started \in 0 .. Tasks
    /\ msgs \in Seq(Message) /\ label \in Labels
    /\ drains \in BOOLEAN /\ faults \in 0 .. MaxFaults
    /\ shared \subseteq M!Task /\ by \in 0 .. Tasks

(* A download that runs beside no other has the .part for itself, and its  *)
(* hash is that of the .part; nobody touches what it put in place.         *)
OneDownload ==
    /\ \A t \in M!Task : m_pc[t] = "none" <=> t > started
    /\ \A t, u \in M!Task : M!Active(t) /\ M!Active(u) => t = u \/ t \in shared
    /\ \A t \in M!Task : M!Active(t) /\ t \notin shared => final = 0
    /\ \A t \in M!Task :
          m_pc[t] \in {"none", "head", "resume", "get"} =>
             /\ m_part # t /\ final # t /\ data[t] = << >>
             /\ \A u \in M!Task : handle[u] # t
    /\ \A t \in M!Task : m_pc[t] = "stream" => handle[t] # 0
    /\ \A t \in M!Task : m_pc[t] = "stream" /\ t \notin shared => handle[t] = m_part
    /\ \A t \in M!Task :
          m_pc[t] \in {"get", "stream", "verify", "rename"} /\ t \notin shared =>
             hashed[t] = ContentsOf(m_part)
    /\ \A t \in M!Task : m_pc[t] = "rename" => hashed[t] = M!Model
    /\ final # 0 /\ by \notin shared =>
          data[final] = M!Model /\ \A t \in M!Task : ~M!Active(t)

NoCli == \A t \in M!Task : owner[t] = "cli" => m_pc[t] = "none"

(* The label once the window has caught up.                                *)
EndLabel == IF msgs = << >> THEN label ELSE M!LabelFor[msgs[Len(msgs)]]

RowInv ==
    M!Idle /\ NoCli /\ shared = {} =>
        /\ EndLabel = "Installed" <=> final # 0
        /\ EndLabel # "Cancel"

ModelInv == ModelTypes /\ OneDownload /\ RowInv

-----------------------------------------------------------------------------
(* Bundles *)

Quality == {"absent", "torn", "good", "foreign"}
Multi == source = <<"multi">>

BundleTypes ==
    /\ Multi \/ source \in Archives
    /\ place \in {"none", "dir", "file"}
    /\ b_final \in [B!Names -> Quality] /\ staging \in [B!Names -> Quality]
    /\ b_pc \in {"idle", "fetch", "body", "extract", "check", "remove", "rename"}
    /\ result \in {"none", "installed", "failed"}
    /\ unpacked \in Nat /\ b_faults \in 0 .. BundleFaults
    /\ place # "dir" => b_final = B!Empty

(* What lies in the staging directory was verified, or is being fetched.   *)
StagingInv ==
    /\ Multi /\ b_pc \in {"fetch", "body"} =>
          /\ todo \in Seq(B!Expected)
          /\ \A n \in B!Expected :
                staging[n] = "good" \/ \E i \in 1 .. Len(todo) : todo[i] = n
    /\ Multi /\ b_pc \in {"check", "remove", "rename"} =>
          \A n \in B!Expected : staging[n] = "good"
    /\ ~Multi => \A n \in B!Expected : staging[n] \in {"absent", "good"}
    /\ ~Multi /\ b_pc \in {"fetch", "body", "extract"} => todo \in Seq(B!Entry)
    /\ b_pc = "body" => todo # << >>
    /\ b_pc = "extract" => ~Multi
    /\ b_pc \in {"remove", "rename"} => B!missing_files(staging) = {}
    /\ b_pc \in {"fetch", "body"} => unpacked = 0
    /\ b_pc = "extract" => unpacked <= MaxUnpacked

BundleInv ==
    /\ BundleTypes /\ StagingInv /\ B!CompleteIsVerified /\ B!ExtractionIsBounded
    /\ result = "installed" => b_pc = "idle" /\ B!bundle_complete

-----------------------------------------------------------------------------
(* The microphone set-up *)

Volumes == StartVolumes \union {Least} \union Low .. 0
LevelPc == {"idle", "floor", "live", "speech", "current", "apply", "measure",
            "prompts", "arguments", "backend", "confirm", "default", "sources",
            "outputs"}
SetupPc == {"live", "prompts", "backend", "confirm", "outputs"}

LevelTypes ==
    /\ l_pc \in LevelPc /\ cmd \in L!Command /\ voice \in Loudness \union {Varies, Muted}
    /\ volume \in Volumes /\ before \in Volumes \union {Unread}
    /\ known \in Volumes /\ peak \in Bottom .. 0 /\ iter \in 0 .. MaxIterations
    /\ l_result \in {"none", "converged", "stopped", "tooquiet"}
    /\ isDefault \in BOOLEAN /\ user \in [L!Names -> L!Profile \union {Absent}]
    /\ exit \in {"none", "ok", "done", "failed", "refused", "aborted",
                 "interrupted"}
    /\ runs \in 0 .. Runs

(* A steady voice whose loudness the program measures from a volume it     *)
(* could read: how far the loop has come.                                  *)
Steady == voice \in Loudness /\ before \notin {Unread, Zero} /\ Goal - voice \in Low .. 0

LoopInv ==
    /\ l_pc \in {"floor", "live", "speech", "current", "apply", "measure"} =>
          l_result = "none"
    /\ l_pc \in {"current", "apply"} /\ voice # Varies =>
          peak = L!analyze(voice, volume)
    /\ l_pc \in {"apply", "measure"} /\ Steady => volume # Zero
    /\ l_pc = "apply" => iter >= 1
    /\ l_pc = "measure" => iter >= 1
    /\ l_pc = "apply" /\ Steady =>
          known = volume /\ volume <= before + (iter - 1) * Goal
    /\ l_pc = "measure" /\ Steady /\ volume # Goal - voice =>
          /\ before + voice > (iter - 1) * (0 - Goal)
          /\ volume <= before + iter * Goal

(* What the wizard has asked and written so far.                           *)
WizardInv ==
    /\ l_pc \in SetupPc => cmd.kind = "setup"
    /\ l_pc = "arguments" => cmd.kind # "setup"
    /\ l_pc # "idle" => exit = "none"
    /\ l_pc \in {"backend", "confirm", "sources", "outputs"} => cmd.name \in L!Names
    /\ l_pc = "default" /\ cmd.kind = "setup" => cmd.name \in L!Names
    /\ l_pc \in {"confirm", "default", "sources", "outputs"} /\ cmd.kind = "setup" =>
          \/ cmd.name \in L!Shipped
          \/ L!ensure_backend_compiled(cmd.name)
    /\ l_pc = "outputs" =>
          /\ user[cmd.name] # Absent /\ user[cmd.name].mic
          /\ user[cmd.name].system = cmd.system

LevelInv ==
    /\ LevelTypes /\ LoopInv /\ WizardInv
    /\ L!SteadyConverges /\ L!TooQuietIsTrue
    /\ L!DoneMatchesChoice /\ L!DoneIsRunnable
    /\ exit = "done" => l_pc = "idle"
-----------------------------------------------------------------------------
(* Proof: one run of a backend *)

LEMMA HttpTyped ==
    ASSUME HttpInv
    PROVE  /\ http.attempt \in Nat /\ http.elapsed \in Nat /\ http.until \in Nat
           /\ http.last \in Answered
BY DEF HttpInv, HttpType

LEMMA HttpSet ==
    ASSUME NEW h \in HttpType, NEW a \in Nat, NEW u \in Nat,
           NEW k, k = [h EXCEPT !.attempt = a, !.until = u]
    PROVE  /\ k \in HttpType /\ k.attempt = a /\ k.until = u
           /\ k.elapsed = h.elapsed /\ k.last = h.last
BY DEF HttpType

LEMMA HttpPut ==
    ASSUME NEW h \in HttpType, NEW u \in Nat, NEW x \in Answered,
           NEW k, k = [h EXCEPT !.until = u, !.last = x]
    PROVE  /\ k \in HttpType /\ k.attempt = h.attempt /\ k.until = u
           /\ k.elapsed = h.elapsed /\ k.last = x
BY DEF HttpType

(* A step that leaves the attempts alone and ends outside of them.         *)
LEMMA HttpStays ==
    ASSUME HttpInv, UNCHANGED http,
           pc' \notin {"metadata", "attempt", "sent", "sleep"}
    PROVE  HttpInv'
BY DEF HttpInv

LEMMA NoHttpIs ==
    T!NoHttp \in HttpType /\ T!NoHttp.attempt = 0 /\ T!NoHttp.elapsed = 0
    /\ T!NoHttp.until = 0
BY DEF T!NoHttp, HttpType, Answered

(* What the coordinator accepts can be transcribed.                        *)
LEMMA AcceptedIs ==
    ASSUME NEW j \in T!Job, T!Refusal(j) = "ok"
    PROVE  /\ j.backend \in {"whisper-cpp", "deepgram", "parakeet"}
           /\ LET a == T!choose_audio_input(j.backend, j.pcm) IN
              /\ a \in T!Accepts(j.backend).input
              /\ a \in {"EncodedFile", "PcmBuffer", "PcmChunks"}
              /\ a # "EncodedFile" => j.pcm # "Unavailable"
<1>1. j.backend \in T!Backend
  BY DEF T!Job
<1>2. j.backend # "openai"
  BY DEF T!Refusal, T!build_backend
<1>3. j.backend \in {"whisper-cpp", "deepgram", "parakeet"}
  BY <1>1, <1>2 DEF T!Backend
<1>4. T!choose_audio_input(j.backend, j.pcm) # "none"
  <2>1. /\ j.backend = "deepgram" => T!resolve_model_artifact(j) # "ok"
        /\ j.backend # "deepgram" => T!resolve_model_artifact(j) # "ok"
    BY <1>3 DEF T!resolve_model_artifact
  <2> QED
    BY <2>1 DEF T!Refusal
<1>5. CASE j.backend \in {"whisper-cpp", "deepgram"}
  <2>1. /\ T!Accepts(j.backend).input = {"EncodedFile"}
        /\ T!Preferred(j.backend) = "EncodedFile"
    BY <1>5 DEF T!Accepts, T!Preferred
  <2>2. T!choose_audio_input(j.backend, j.pcm) = "EncodedFile"
    BY <2>1 DEF T!choose_audio_input
  <2> QED
    BY <1>3, <2>1, <2>2
<1>6. CASE j.backend = "parakeet"
  <2>1. /\ T!Accepts(j.backend).input = {"PcmBuffer", "PcmChunks"}
        /\ T!Preferred(j.backend) = "PcmBuffer"
    BY <1>6 DEF T!Accepts, T!Preferred
  <2>2. /\ T!choose_audio_input(j.backend, j.pcm) = "PcmBuffer"
        /\ T!ProducesPcm(j.pcm)
    BY <1>4, <2>1 DEF T!choose_audio_input
  <2> QED
    BY <1>3, <2>1, <2>2 DEF T!ProducesPcm
<1> QED
  BY <1>3, <1>5, <1>6

LEMMA TranscriptionInit == T!Init => TranscriptionInv
<1> SUFFICES ASSUME T!Init PROVE TranscriptionInv
  OBVIOUS
<1>1. job \in T!Job
  BY DEF T!Init, T!Job, T!Backend, T!Pcm
<1>2. RunInv
  BY <1>1, BackendsAssumption DEF T!Init, RunInv, T!Awaits
<1>3. HttpInv
  BY NoHttpIs, BackendsAssumption DEF T!Init, HttpInv
<1> QED
  BY <1>2, <1>3
  DEF T!Init, TranscriptionInv, ArtifactInv, T!NoStrayChild, T!InputIsProducible

LEMMA TranscribeStep ==
    ASSUME TranscriptionInv, NEW j \in T!Job, T!Transcribe(j)
    PROVE  TranscriptionInv'
<1>1. /\ pc = "idle" /\ run < Runs /\ run' = run + 1 /\ job' = j
      /\ http' = T!NoHttp /\ logged' = 0
      /\ UNCHANGED <<children, workers, killed, txt, json, torn, computed>>
      /\ renaming' = renaming \union
           (IF j.backend = "whisper-cpp" /\ ~j.far THEN {run + 1} ELSE {})
  BY DEF T!Transcribe, T!procs, T!files
<1>2. \/ T!Refusal(j) # "ok" /\ outcome' # "ok" /\ input' = "none" /\ pc' = "idle"
      \/ /\ T!Refusal(j) = "ok" /\ outcome' = "none"
         /\ input' = T!choose_audio_input(j.backend, j.pcm)
         /\ pc' = CASE j.backend = "whisper-cpp" -> "canonicalize"
                    [] j.backend = "deepgram" -> "metadata"
                    [] j.backend = "parakeet" -> "collect"
  BY <1>1 DEF T!Transcribe
<1>3. \/ pc' = "idle" /\ input' = "none" /\ outcome' # "ok"
      \/ /\ outcome' = "none"
         /\ input' \in T!Accepts(j.backend).input
         /\ input' \in {"EncodedFile", "PcmBuffer", "PcmChunks"}
         /\ input' # "EncodedFile" => j.pcm # "Unavailable"
         /\ \/ j.backend = "whisper-cpp" /\ pc' = "canonicalize"
            \/ j.backend = "deepgram" /\ pc' = "metadata"
            \/ j.backend = "parakeet" /\ pc' = "collect"
  BY <1>2, AcceptedIs
<1>4. RunInv'
  <2>1. run \in Nat /\ run' \in 0 .. Runs /\ run' >= 1
    BY <1>1, BackendsAssumption DEF TranscriptionInv, RunInv
  <2>2. pc' # "idle" => pc' \in Phases(j.backend)
    BY <1>3 DEF Phases
  <2> QED
    BY <1>1, <1>3, <2>1, <2>2 DEF TranscriptionInv, RunInv, T!Awaits
<1>5. HttpInv'
  BY <1>1, <1>3, NoHttpIs, BackendsAssumption DEF HttpInv
<1>6. ArtifactInv'
  <2>1. /\ run' \notin renaming /\ txt # run' /\ json # run'
        /\ run' = run + 1
    BY <1>1, BackendsAssumption DEF TranscriptionInv, RunInv
  <2>2. run' \in renaming' <=> j.backend = "whisper-cpp" /\ ~j.far
    BY <1>1, <2>1
  <2>3. renaming' \subseteq renaming \union {run'}
    BY <1>1
  <2>4. /\ "txt" \in torn' => txt' \notin renaming'
        /\ "json" \in torn' => json' \notin renaming'
    BY <1>1, <2>1, <2>3 DEF TranscriptionInv, ArtifactInv
  <2> QED
    BY <1>1, <1>3, <2>2, <2>4 DEF TranscriptionInv, ArtifactInv
<1>7. T!NoStrayChild'
  BY <1>1 DEF TranscriptionInv, T!NoStrayChild
<1>8. T!InputIsProducible'
  BY <1>1, <1>3 DEF T!InputIsProducible
<1> QED
  BY <1>4, <1>5, <1>6, <1>7, <1>8 DEF TranscriptionInv

(* A step of the run that neither moves the run on nor starts another one. *)
LEMMA WithinRun ==
    ASSUME TranscriptionInv, UNCHANGED <<run, job, input, renaming>>,
           pc' = "idle" \/ (pc # "idle" /\ pc' \in Phases(job.backend)),
           pc' \in T!Awaits,
           HttpInv', ArtifactInv',
           UNCHANGED <<logged, killed>>, children' \subseteq children,
           pc = "running" => run \notin children',
           workers' \subseteq workers \union {run},
           workers' \subseteq workers \/ pc # "idle",
           txt' \in {txt, run}, json' \in {json, run},
           computed' = computed \/ (pc # "idle" /\ computed' = computed \union {run})
    PROVE  TranscriptionInv'
<1>1. RunInv'
  BY DEF TranscriptionInv, RunInv
<1>2. T!NoStrayChild'
  BY DEF TranscriptionInv, T!NoStrayChild
<1>3. T!InputIsProducible'
  BY DEF TranscriptionInv, T!InputIsProducible
<1> QED
  BY <1>1, <1>2, <1>3 DEF TranscriptionInv
LEMMA LoggedIs ==
    ASSUME TranscriptionInv, pc # "idle"
    PROVE  /\ run \in 1 .. Runs /\ logged = 0 /\ pc \in Phases(job.backend)
           /\ job.backend \in T!Backend /\ job.backend # "openai"
<1>1. job.backend \in T!Backend
  BY DEF TranscriptionInv, RunInv, T!Job
<1> QED
  BY <1>1 DEF TranscriptionInv, RunInv, Phases

LEMMA WhisperStep ==
    ASSUME TranscriptionInv,
           T!Canonicalize \/ T!Prepare \/ T!ChildExits \/ T!WriteLog
    PROVE  TranscriptionInv'
<1> USE DEF T!Unmoved, T!procs, T!files
<1>1. pc \in {"canonicalize", "prepare", "running", "log"}
  BY DEF T!Canonicalize, T!Prepare, T!ChildExits, T!WriteLog
<1>2. /\ run \in 1 .. Runs /\ logged = 0 /\ job.backend = "whisper-cpp"
      /\ Phases(job.backend)
           = {"canonicalize", "prepare", "running", "log", "txt", "json"}
  BY <1>1, LoggedIs DEF Phases, T!Backend
<1>3. HttpInv'
  BY HttpStays
  DEF TranscriptionInv, T!Canonicalize, T!Prepare, T!ChildExits, T!WriteLog, T!Log
<1>4. CASE T!Canonicalize
  <2>1. ArtifactInv'
    BY <1>4 DEF TranscriptionInv, ArtifactInv, T!Canonicalize, T!Log
  <2> QED
    BY <1>1, <1>2, <1>3, <1>4, <2>1, WithinRun DEF T!Canonicalize, T!Log, T!Awaits
<1>5. CASE T!Prepare
  <2>1. ArtifactInv'
    BY <1>5 DEF TranscriptionInv, ArtifactInv, T!Prepare, T!Log
  <2>2. CASE UNCHANGED children
    BY <1>1, <1>2, <1>3, <1>5, <2>1, <2>2, WithinRun
    DEF T!Prepare, T!Log, T!Awaits, TranscriptionInv, T!NoStrayChild
  <2>3. CASE pc' = "running" /\ children' = children \union {run}
    <3>1. /\ pc = "prepare"
          /\ UNCHANGED <<run, job, input, workers, killed, txt, json, torn, computed,
                         logged, renaming>>
      BY <1>5 DEF T!Prepare
    <3>2. RunInv'
      BY <1>2, <2>3, <3>1 DEF TranscriptionInv, RunInv, T!Awaits
    <3>3. T!NoStrayChild'
      BY <2>3, <3>1 DEF TranscriptionInv, T!NoStrayChild
    <3>4. T!InputIsProducible'
      BY <3>1 DEF TranscriptionInv, T!InputIsProducible
    <3> QED
      BY <1>3, <2>1, <3>2, <3>3, <3>4 DEF TranscriptionInv
  <2> QED
    BY <1>5, <2>2, <2>3 DEF T!Prepare
<1>6. CASE T!ChildExits
  <2>1. ArtifactInv'
    BY <1>6 DEF TranscriptionInv, ArtifactInv, T!ChildExits, T!Log
  <2> QED
    BY <1>1, <1>2, <1>3, <1>6, <2>1, WithinRun DEF T!ChildExits, T!Log, T!Awaits
<1>7. CASE T!WriteLog
  <2>1. /\ pc = "log" /\ pc' = "idle" /\ logged' \in {0, 1}
        /\ UNCHANGED <<run, job, input, outcome, children, workers, killed, txt,
                       json, torn, computed, renaming>>
    BY <1>2, <1>7 DEF T!WriteLog
  <2>2. RunInv'
    BY <2>1 DEF TranscriptionInv, RunInv, T!Awaits
  <2>3. ArtifactInv' /\ T!NoStrayChild' /\ T!InputIsProducible'
    BY <2>1
    DEF TranscriptionInv, ArtifactInv, T!NoStrayChild, T!InputIsProducible
  <2> QED
    BY <1>3, <2>2, <2>3 DEF TranscriptionInv
<1> QED
  BY <1>4, <1>5, <1>6, <1>7

(* What a write, whole, torn or not begun, makes of the two files.          *)
LEMMA FilesMove ==
    ASSUME TranscriptionInv, T!WrittenAnyway, pc # "idle",
           UNCHANGED <<run, computed, renaming>>
    PROVE  /\ {txt', json'} \subseteq computed \union {0}
           /\ torn' \subseteq {"txt", "json"}
           /\ txt' \in {txt, run} /\ json' \in {json, run}
           /\ "txt" \in torn' => txt' \notin renaming
           /\ "json" \in torn' => json' \notin renaming
<1>1. CASE T!Written
  BY <1>1 DEF TranscriptionInv, ArtifactInv, T!Written
<1>2. CASE T!Tears
  <2>1. run \notin renaming
    BY <1>2 DEF TranscriptionInv, ArtifactInv, T!Tears, T!WritesInPlace
  <2> QED
    BY <1>2, <2>1 DEF TranscriptionInv, ArtifactInv, T!Tears
<1>3. CASE UNCHANGED T!files
  BY <1>3 DEF TranscriptionInv, ArtifactInv, T!files
<1> QED
  BY <1>1, <1>2, <1>3 DEF T!WrittenAnyway

LEMMA WriteStep ==
    ASSUME TranscriptionInv, T!WriteTxt \/ T!WriteJson
    PROVE  TranscriptionInv'
<1>1. /\ pc \in {"txt", "json"}
      /\ UNCHANGED <<run, job, input, children, workers, killed, http, logged,
                     computed, renaming>>
      /\ \/ pc = "txt" /\ T!Written /\ pc' = "json" /\ UNCHANGED outcome
         \/ pc = "json" /\ T!Written /\ T!Leave("ok")
         \/ T!Leave(T!Unwritable) /\ T!WrittenAnyway
  BY DEF T!WriteTxt, T!WriteJson, T!Unmoved, T!procs, T!WrittenAnyway
<1>2. \A o : T!Leave(o) => /\ outcome' = o
                           /\ pc' = IF job.backend = "whisper-cpp" THEN "log" ELSE "idle"
  BY DEF T!Leave, T!Log, T!Return
<1>3. T!Unwritable # "ok"
  BY DEF T!Unwritable
<1>4. /\ run \in 1 .. Runs /\ pc' \in {"json", "log", "idle"}
      /\ pc' \in Phases(job.backend) \union {"idle"}
  BY <1>1, <1>2, LoggedIs DEF Phases, T!Backend
<1>5. HttpInv'
  BY <1>1, <1>4, HttpStays DEF TranscriptionInv
<1>6. ArtifactInv'
  <2>1. CASE T!Leave(T!Unwritable) /\ T!WrittenAnyway
    BY <1>1, <1>2, <1>3, <1>4, <2>1, FilesMove DEF TranscriptionInv, ArtifactInv
  <2>2. CASE pc = "txt" /\ T!Written /\ pc' = "json" /\ UNCHANGED outcome
    BY <1>1, <2>2 DEF TranscriptionInv, ArtifactInv, T!Written
  <2>3. CASE pc = "json" /\ T!Written /\ T!Leave("ok")
    BY <1>1, <1>2, <1>4, <2>3 DEF TranscriptionInv, ArtifactInv, T!Written
  <2> QED
    BY <1>1, <2>1, <2>2, <2>3
<1>7. txt' \in {txt, run} /\ json' \in {json, run}
  BY <1>1, FilesMove DEF T!WrittenAnyway
<1> QED
  BY <1>1, <1>4, <1>5, <1>6, <1>7, WithinRun DEF T!Awaits

(* The delay before a retry is a number of ticks.                          *)
LEMMA DelayIsNat ==
    ASSUME NEW a \in Nat \ {0}, NEW after \in RetryAfters \union {T!NoHint}
    PROVE  T!backoff_delay(a, after) \subseteq Nat
<1>1. CASE after # T!NoHint
  BY <1>1, BackendsAssumption DEF T!backoff_delay, T!Lesser
<1>2. CASE after = T!NoHint
  <2>1. T!Lesser(a, 5) \in 1 .. 5
    BY DEF T!Lesser
  <2>2. T!Doubling[T!Lesser(a, 5)] \in Nat
    BY <2>1 DEF T!Doubling
  <2>3. T!Lesser(T!Doubling[T!Lesser(a, 5)], BackoffCap) \in Nat
    BY <2>2, BackendsAssumption DEF T!Lesser
  <2> HIDE DEF T!Doubling
  <2> QED
    BY <1>2, <2>3 DEF T!backoff_delay
<1> QED
  BY <1>1, <1>2

(* A step of the attempts: the artifacts and the processes stay as they    *)
(* are.                                                                    *)
LEMMA HttpMoves ==
    ASSUME TranscriptionInv,
           pc \in {"metadata", "attempt", "sent", "sleep"}, HttpInv',
           UNCHANGED <<run, job, input, children, workers, killed, txt, json,
                       torn, logged, renaming>>,
           \/ pc' = "idle" /\ outcome' # "ok" /\ UNCHANGED computed
           \/ /\ pc' \in {"attempt", "sent", "sleep"}
              /\ UNCHANGED <<outcome, computed>>
           \/ pc' = "txt" /\ computed' = computed \union {run} /\ UNCHANGED outcome
    PROVE  TranscriptionInv'
<1>1. /\ Phases(job.backend)
           = {"metadata", "attempt", "sent", "sleep", "txt", "json"}
  BY LoggedIs DEF Phases, T!Backend
<1>2. ArtifactInv'
  BY DEF TranscriptionInv, ArtifactInv
<1> QED
  BY <1>1, <1>2, WithinRun DEF T!Awaits

LEMMA DeepgramStep ==
    ASSUME TranscriptionInv,
           T!CheckAudio \/ T!StartAttempt \/ T!Tick \/ T!BudgetEnds \/ T!WakeUp
    PROVE  TranscriptionInv'
<1> USE DEF T!Unmoved, T!procs, T!files
<1>0. HttpInv /\ http \in HttpType /\ http.attempt \in Nat /\ http.elapsed \in Nat
      /\ http.until \in Nat
  BY HttpTyped DEF TranscriptionInv, HttpInv
<1>1. CASE T!CheckAudio
  <2>1. HttpInv'
    BY <1>0, <1>1, BackendsAssumption DEF HttpInv, T!CheckAudio, T!Return
  <2> QED
    BY <1>1, <2>1, HttpMoves DEF T!CheckAudio, T!Return
<1>2. CASE T!StartAttempt
  <2>1. CASE pc' = "idle" /\ outcome' # "ok" /\ UNCHANGED http
    <3>1. HttpInv'
      BY <1>0, <2>1 DEF HttpInv
    <3> QED
      BY <1>2, <2>1, <3>1, HttpMoves DEF T!StartAttempt
  <2>2. CASE /\ pc' = "sent" /\ UNCHANGED outcome
             /\ http' = [http EXCEPT !.attempt = @ + 1,
                                     !.until = T!Deadline(http.elapsed)]
    <3>1. T!Deadline(http.elapsed) \in Nat /\ T!Deadline(http.elapsed) <= Budget
      BY <1>0, BackendsAssumption DEF T!Deadline, T!Lesser
    <3>2. /\ http' \in HttpType /\ http'.attempt = http.attempt + 1
          /\ http'.elapsed = http.elapsed /\ http'.until <= Budget
          /\ http'.last = http.last
      <4>0. \A a, d : a = http.attempt + 1 /\ d = T!Deadline(http.elapsed) =>
               http' = [http EXCEPT !.attempt = a, !.until = d]
        BY <2>2
      <4>3. http.attempt + 1 \in Nat
        BY <1>0
      <4>1. PICK a \in Nat, d \in Nat :
              a = http.attempt + 1 /\ d = T!Deadline(http.elapsed)
        BY <3>1, <4>3
      <4>4. http' = [http EXCEPT !.attempt = a, !.until = d]
        BY <4>0, <4>1
      <4>2. /\ http' \in HttpType /\ http'.attempt = a /\ http'.until = d
            /\ http'.elapsed = http.elapsed /\ http'.last = http.last
        BY <1>0, <4>4 DEF HttpType
      <4> QED
        BY <3>1, <4>1, <4>2
    <3>3. pc = "attempt"
      BY <1>2 DEF T!StartAttempt
    <3>4. HttpInv'
      BY <1>0, <2>2, <3>2, <3>3, BackendsAssumption DEF HttpInv
    <3> QED
      BY <1>2, <2>2, <3>3, <3>4, HttpMoves DEF T!StartAttempt
  <2> QED
    BY <1>2, <2>1, <2>2 DEF T!StartAttempt, T!Return
<1>3. CASE T!Tick
  <2>1. /\ pc \in {"sent", "sleep"} /\ pc' = pc /\ http.elapsed < http.until
        /\ http' = [http EXCEPT !.elapsed = @ + 1]
    BY <1>3 DEF T!Tick
  <2>2. /\ http' \in HttpType /\ http'.attempt = http.attempt
        /\ http'.elapsed = http.elapsed + 1 /\ http'.until = http.until
        /\ http'.last = http.last
    BY <1>0, <2>1 DEF HttpType
  <2>3. HttpInv'
    BY <1>0, <2>1, <2>2, BackendsAssumption DEF HttpInv
  <2> QED
    BY <1>3, <2>1, <2>3, HttpMoves DEF T!Tick
<1>4. CASE T!BudgetEnds
  <2>1. HttpInv'
    BY <1>0, <1>4 DEF HttpInv, T!BudgetEnds, T!Return
  <2> QED
    BY <1>4, <2>1, HttpMoves DEF T!BudgetEnds, T!Return
<1>5. CASE T!WakeUp
  <2>1. HttpInv'
    BY <1>0, <1>5 DEF HttpInv, T!WakeUp
  <2> QED
    BY <1>5, <2>1, HttpMoves DEF T!WakeUp
<1> QED
  BY <1>1, <1>2, <1>3, <1>4, <1>5

LEMMA AnswerStep ==
    ASSUME TranscriptionInv, NEW r \in T!Statuses \union T!Transport,
           NEW after \in RetryAfters \union {T!NoHint}, T!Answer(r, after)
    PROVE  TranscriptionInv'
<1> USE DEF T!Unmoved, T!procs, T!files
<1>1. /\ HttpInv /\ http \in HttpType /\ http.attempt \in Nat /\ http.elapsed \in Nat
      /\ http.until \in Nat
  BY HttpTyped DEF TranscriptionInv, HttpInv
<1>2. /\ pc = "sent" /\ http.attempt >= 1
      /\ UNCHANGED <<run, job, input, children, workers, killed, txt, json, torn,
                     logged, renaming>>
  BY <1>1 DEF T!Answer, HttpInv
<1>3. \A x : T!classify_http_error(x) # "ok"
  BY DEF T!classify_http_error
<1>4. ASSUME pc' = "idle", outcome' # "ok", UNCHANGED <<http, computed>>
      PROVE  TranscriptionInv'
  <2>1. HttpInv'
    BY <1>1, <1>4 DEF HttpInv
  <2> QED
    BY <1>2, <1>4, <2>1, HttpMoves
<1>5. CASE r = "success"
  <2>1. CASE pc' = "txt" /\ UNCHANGED <<outcome, http>>
             /\ computed' = computed \union {run}
    <3>1. HttpInv'
      BY <1>1, <2>1 DEF HttpInv
    <3> QED
      BY <1>2, <2>1, <3>1, HttpMoves
  <2> QED
    BY <1>4, <1>5, <2>1 DEF T!Answer, T!Return
<1>6. CASE r # "success"
  <2>1. T!RetryOrReturn(r, after) /\ UNCHANGED computed
    BY <1>6 DEF T!Answer
  <2>2. CASE ~T!MayRetry(r)
    BY <1>3, <1>4, <2>1, <2>2 DEF T!RetryOrReturn, T!Return
  <2>3. CASE T!MayRetry(r)
    <3>1. PICK d \in T!backoff_delay(http.attempt, after) :
            IF d >= Budget - http.elapsed
            THEN /\ T!Return(IF r \in T!Transport THEN "BackendTimeout"
                             ELSE T!classify_http_error(r))
                 /\ UNCHANGED http
            ELSE /\ pc' = "sleep" /\ UNCHANGED outcome
                 /\ http' = [http EXCEPT !.until = http.elapsed + d, !.last = r]
      BY <2>1, <2>3 DEF T!RetryOrReturn
    <3>2. d \in Nat
      BY <1>1, <1>2, DelayIsNat
    <3>3. CASE d >= Budget - http.elapsed
      BY <1>3, <1>4, <2>1, <3>1, <3>3 DEF T!Return
    <3>4. CASE ~(d >= Budget - http.elapsed)
      <4>1. /\ pc' = "sleep" /\ UNCHANGED outcome
            /\ http' = [http EXCEPT !.until = http.elapsed + d, !.last = r]
        BY <3>1, <3>4
      <4>2. /\ http' \in HttpType /\ http'.attempt = http.attempt
            /\ http'.elapsed = http.elapsed /\ http'.until = http.elapsed + d
            /\ http'.last = r
        <5>1. r \in Answered
          BY DEF Answered
        <5>0. \A u : u = http.elapsed + d =>
                 http' = [http EXCEPT !.until = u, !.last = r]
          BY <4>1, Zenon
        <5>2. PICK u \in Nat : u = http.elapsed + d
          BY <1>1, <3>2
        <5>4. http' = [http EXCEPT !.until = u, !.last = r]
          BY <5>0, <5>2
        <5>3. /\ http' \in HttpType /\ http'.attempt = http.attempt
              /\ http'.until = u /\ http'.elapsed = http.elapsed /\ http'.last = r
          BY <1>1, <5>1, <5>4 DEF HttpType
        <5> QED
          BY <5>2, <5>3
      <4>3. T!status_is_retryable(r) /\ http.attempt < MaxRetries + 1
        BY <2>3 DEF T!MayRetry
      <4>4. HttpInv'
        BY <1>1, <1>2, <3>2, <3>4, <4>1, <4>2, <4>3, BackendsAssumption DEF HttpInv
      <4> QED
        BY <1>2, <2>1, <4>1, <4>4, HttpMoves
    <3> QED
      BY <3>3, <3>4
  <2> QED
    BY <2>2, <2>3
<1> QED
  BY <1>5, <1>6

LEMMA ParakeetStep ==
    ASSUME TranscriptionInv,
           T!Collect \/ \E r \in 1 .. Runs : T!InferenceEnds(r)
    PROVE  TranscriptionInv'
<1> USE DEF T!Unmoved, T!procs, T!files
<1>1. /\ UNCHANGED <<run, job, input, children, killed, txt, json, torn, http,
                     logged, renaming>>
  BY DEF T!Collect, T!InferenceEnds
<1>2. CASE T!Collect
  <2>1. /\ pc = "collect" /\ UNCHANGED computed
        /\ \/ pc' = "infer" /\ workers' = workers \union {run} /\ UNCHANGED outcome
           \/ pc' = "idle" /\ outcome' # "ok" /\ UNCHANGED workers
    <3>1. job.pcm \in T!Pcm
      BY DEF TranscriptionInv, RunInv, T!Job
    <3> QED
      BY <1>2, <3>1 DEF T!Collect, T!Return, T!Pcm
  <2>2. Phases(job.backend) = {"collect", "infer", "txt", "json"}
    BY <2>1, LoggedIs DEF Phases, T!Backend
  <2>3. HttpInv'
    BY <1>1, <2>1, HttpStays DEF TranscriptionInv
  <2>4. ArtifactInv'
    BY <1>1, <2>1 DEF TranscriptionInv, ArtifactInv
  <2> QED
    BY <1>1, <2>1, <2>2, <2>3, <2>4, WithinRun DEF T!Awaits
<1>3. ASSUME NEW r \in 1 .. Runs, T!InferenceEnds(r) PROVE TranscriptionInv'
  <2>1. CASE pc = "infer" /\ r = run
    <3>1. /\ workers' \subseteq workers
          /\ \/ pc' = "txt" /\ computed' = computed \union {run} /\ UNCHANGED outcome
             \/ pc' = "idle" /\ outcome' # "ok" /\ UNCHANGED computed
      BY <1>3, <2>1 DEF T!InferenceEnds, T!Return
    <3>2. Phases(job.backend) = {"collect", "infer", "txt", "json"}
      BY <2>1, LoggedIs DEF Phases, T!Backend
    <3>3. HttpInv'
      BY <1>1, <3>1, HttpStays DEF TranscriptionInv
    <3>4. ArtifactInv'
      BY <1>1, <2>1, <3>1 DEF TranscriptionInv, ArtifactInv
    <3> QED
      BY <1>1, <2>1, <3>1, <3>2, <3>3, <3>4, WithinRun DEF T!Awaits
  <2>2. CASE ~(pc = "infer" /\ r = run)
    <3>1. workers' \subseteq workers /\ UNCHANGED <<pc, outcome, computed>>
      BY <1>3, <2>2 DEF T!InferenceEnds
    <3>2. RunInv'
      BY <1>1, <3>1 DEF TranscriptionInv, RunInv
    <3> QED
      BY <1>1, <3>1, <3>2
      DEF TranscriptionInv, HttpInv, ArtifactInv, T!NoStrayChild,
          T!InputIsProducible
  <2> QED
    BY <2>1, <2>2
<1> QED
  BY <1>2, <1>3

LEMMA DropStep ==
    ASSUME TranscriptionInv, T!Cancel \/ T!Kill \/ T!OrphanExits
    PROVE  TranscriptionInv'
<1> USE DEF T!Unmoved, T!procs, T!files
<1>1. CASE T!OrphanExits
  <2>1. /\ children' \subseteq children
        /\ UNCHANGED <<run, job, input, pc, outcome, workers, killed, txt, json,
                       torn, http, logged, computed, renaming>>
    BY <1>1 DEF T!OrphanExits
  <2>2. RunInv'
    BY <2>1 DEF TranscriptionInv, RunInv
  <2> QED
    BY <2>1, <2>2
    DEF TranscriptionInv, HttpInv, ArtifactInv, T!NoStrayChild, T!InputIsProducible
<1>2. CASE T!Cancel \/ T!Kill
  <2>1. /\ pc # "idle" /\ pc' = "idle" /\ outcome' \in {"cancelled", "killed"}
        /\ UNCHANGED <<run, job, input, http, logged, computed, renaming>>
        /\ T!WrittenAnyway
        /\ workers' \subseteq workers
        /\ \/ children' = children \ {run} /\ UNCHANGED killed
           \/ killed' = killed \union {run} /\ UNCHANGED children
    BY <1>2 DEF T!Cancel, T!Kill, T!Return
  <2>2. run \in 1 .. Runs
    BY <2>1, LoggedIs
  <2>0. /\ {txt', json'} \subseteq computed \union {0}
        /\ torn' \subseteq {"txt", "json"}
        /\ txt' \in {txt, run} /\ json' \in {json, run}
        /\ "txt" \in torn' => txt' \notin renaming
        /\ "json" \in torn' => json' \notin renaming
    BY <2>1, FilesMove
  <2>3. RunInv'
    BY <2>0, <2>1, <2>2 DEF TranscriptionInv, RunInv, T!Awaits
  <2>4. HttpInv'
    BY <2>1, HttpStays DEF TranscriptionInv
  <2>5. ArtifactInv'
    BY <2>0, <2>1 DEF TranscriptionInv, ArtifactInv
  <2>6. T!NoStrayChild'
    BY <2>1 DEF TranscriptionInv, T!NoStrayChild
  <2>7. T!InputIsProducible'
    BY <2>1 DEF T!InputIsProducible
  <2> QED
    BY <2>3, <2>4, <2>5, <2>6, <2>7 DEF TranscriptionInv
<1> QED
  BY <1>1, <1>2

LEMMA TranscriptionStep ==
    TranscriptionInv /\ [T!Next]_(T!vars) => TranscriptionInv'
<1> SUFFICES ASSUME TranscriptionInv, [T!Next]_(T!vars) PROVE TranscriptionInv'
  OBVIOUS
<1>1. ASSUME T!Answers PROVE TranscriptionInv'
  <2>1. {"429", "503"} \subseteq T!Statuses
    BY DEF T!Statuses
  <2> QED
    BY <1>1, <2>1, AnswerStep DEF T!Answers
<1>2. CASE UNCHANGED T!vars
  <2>1. UNCHANGED <<run, job, pc, outcome, input, children, workers, killed, txt,
                    json, torn, http, logged, computed, renaming>>
    BY <1>2 DEF T!vars
  <2> QED
    BY <2>1
    DEF TranscriptionInv, RunInv, HttpInv, ArtifactInv, T!NoStrayChild,
        T!InputIsProducible
<1> QED
  BY <1>1, <1>2, WhisperStep, WriteStep, DeepgramStep, ParakeetStep, DropStep,
     TranscribeStep
  DEF T!Next, T!Step

LEMMA TranscriptionKept == TranscriptionInv =>
    /\ T!TypeOK /\ T!OkHasBothArtifacts /\ T!NoTornTranscript /\ T!WithinBudget
    /\ T!RetriesAreWarranted /\ T!NoStrayChild /\ T!InputIsProducible
<1> SUFFICES ASSUME TranscriptionInv
             PROVE  T!TypeOK /\ T!OkHasBothArtifacts /\ T!NoTornTranscript
                    /\ T!WithinBudget /\ T!RetriesAreWarranted
  BY DEF TranscriptionInv
<1>0. /\ children \union workers \union killed \union computed \union renaming
           \subseteq 1 .. Runs
      /\ {txt, json} \subseteq 0 .. Runs /\ torn \subseteq {"txt", "json"}
  BY DEF TranscriptionInv, RunInv, ArtifactInv
<1>2. /\ http.attempt \in 0 .. MaxRetries + 1
      /\ {http.elapsed, http.until} \subseteq Nat
  BY HttpTyped, BackendsAssumption DEF TranscriptionInv, HttpInv
<1>1. T!TypeOK
  BY <1>0, <1>2 DEF TranscriptionInv, RunInv, T!TypeOK
<1> QED
  BY <1>1
  DEF TranscriptionInv, ArtifactInv, HttpInv, T!OkHasBothArtifacts,
      T!NoTornTranscript, T!WithinBudget, T!RetriesAreWarranted

(* A whisper.cpp run that went as far as the backend ends with its log.    *)
LEMMA LogStep ==
    ASSUME TranscriptionInv, [T!Next]_(T!vars),
           job.backend = "whisper-cpp", pc # "idle", pc' = "idle",
           outcome' \notin {"cancelled", "killed"}
    PROVE  pc = "log"
<1>1. pc \in {"canonicalize", "prepare", "running", "log", "txt", "json"}
  BY DEF TranscriptionInv, RunInv, Phases
<1>2. ~T!Cancel /\ ~T!Kill
  BY DEF T!Cancel, T!Kill, T!Return
<1>3. ~T!Answers
  BY <1>1 DEF T!Answers, T!Answer
<1>4. ~(T!CheckAudio \/ T!StartAttempt \/ T!Tick \/ T!BudgetEnds \/ T!WakeUp
          \/ T!Collect)
  BY <1>1
  DEF T!CheckAudio, T!StartAttempt, T!Tick, T!BudgetEnds, T!WakeUp, T!Collect
<1>5. ~\E r \in 1 .. Runs : T!InferenceEnds(r)
  BY <1>1 DEF T!InferenceEnds
<1>6. ~(T!Canonicalize \/ T!Prepare \/ T!ChildExits \/ T!WriteTxt \/ T!WriteJson)
  BY DEF T!Canonicalize, T!Prepare, T!ChildExits, T!WriteTxt, T!WriteJson,
         T!Leave, T!Log
<1>7. ~T!OrphanExits /\ ~UNCHANGED T!vars /\ \A j \in T!Job : ~T!Transcribe(j)
  BY DEF T!OrphanExits, T!vars, T!Transcribe
<1> QED
  BY <1>2, <1>3, <1>4, <1>5, <1>6, <1>7 DEF T!Next, T!Step, T!WriteLog

-----------------------------------------------------------------------------
(* Proof: single-file models *)

(* The four messages and the label that each leads to.                     *)
LEMMA LabelOf ==
    /\ M!LabelFor["Started"] = "Cancel" /\ M!LabelFor["Installed"] = "Installed"
    /\ M!LabelFor["Cancelled"] = "Resume" /\ M!LabelFor["Failed"] = "Retry"
    /\ \A x \in Message : M!LabelFor[x] \in Labels
<1>1. /\ M!LabelFor["Started"] = "Cancel" /\ M!LabelFor["Installed"] = "Installed"
      /\ M!LabelFor["Cancelled"] = "Resume" /\ M!LabelFor["Failed"] = "Retry"
  BY DEF M!LabelFor
<1> QED
  BY <1>1 DEF Message, Labels

(* What a download is, under the bounds.                                   *)
LEMMA TaskIs ==
    ASSUME ModelTypes, NEW t \in M!Task
    PROVE  /\ t \in Nat \ {0} /\ t \in 0 .. Tasks /\ Tasks \in Nat /\ Size \in Nat
           /\ handle[t] \in 0 .. Tasks /\ data[t] \in Seq(Blocks)
           /\ hashed[t] \in Seq(Blocks) /\ next[t] \in Nat \ {0}
           /\ Len(hashed[t]) \in Nat
           /\ (m_part # 0 => m_part \in M!Task) /\ (final # 0 => final \in M!Task)
           /\ ContentsOf(m_part) \in Seq(Blocks)
<1>1. Tasks \in Nat /\ Size \in Nat
  BY BackendsAssumption
<1>2. \A f \in 0 .. Tasks : f # 0 => f \in M!Task
  BY <1>1 DEF M!Task
<1>3. /\ t \in Nat \ {0} /\ t \in 0 .. Tasks
  BY <1>1 DEF M!Task
<1>4. << >> \in Seq(Blocks)
  OBVIOUS
<1> QED
  BY <1>1, <1>2, <1>3, <1>4 DEF ModelTypes, ContentsOf

LEMMA FaultsAreNat == MaxFaults \in Nat
BY BackendsAssumption

LEMMA ModelInit == M!Init => ModelInv
<1> SUFFICES ASSUME M!Init PROVE ModelInv
  OBVIOUS
<1> USE DEF M!Init, M!NoFile
<1>1. Tasks \in Nat /\ Size \in Nat /\ MaxFaults \in Nat
  BY BackendsAssumption
<1>2. << >> \in Seq(Blocks) /\ << >> \in Seq(Message)
  OBVIOUS
<1>3. label = "Download"
  BY DEF M!InitialLabel, M!Installed
<1>4. ModelTypes
  BY <1>1, <1>2, <1>3 DEF ModelTypes, ModelPc, Labels
<1>5. OneDownload
  BY <1>1 DEF OneDownload, M!Task, M!Active
<1>6. RowInv
  BY <1>3 DEF M!Installed, RowInv, EndLabel
<1> QED
  BY <1>4, <1>5, <1>6 DEF ModelInv

(* The frame of a step of download t.                                      *)
LEMMA StepFrame ==
    ASSUME ModelInv, NEW t \in M!Task, M!Step(t)
    PROVE  /\ M!Active(t) /\ (t \notin shared => final = 0)
           /\ UNCHANGED <<started, owner, cancelled, label, token, drains, shared>>
           /\ faults' \in {faults, faults + 1} /\ (faults' # faults => faults < MaxFaults)
           /\ \A u \in M!Task : u # t => m_pc'[u] = m_pc[u]
           /\ \/ \E x \in ModelPc \ {"none", "ended"} :
                    m_pc' = [m_pc EXCEPT ![t] = x] /\ UNCHANGED msgs
              \/ \E x \in {"Installed", "Cancelled", "Failed"} :
                    M!Finish(t, x) /\ (x # "Installed" => UNCHANGED final)
                    /\ (x = "Installed" => final' # 0)
<1> USE DEF M!disk, M!tasks, M!row, M!Fault, M!Proceed, ModelPc
<1>0. m_pc \in [M!Task -> ModelPc] /\ M!NoFile = 0
  BY DEF ModelInv, ModelTypes, M!NoFile
<1>1. M!Active(t)
  BY DEF M!Step, M!head_validate, M!prepare_resume, M!Get, M!Chunk, M!StreamEnds,
         M!Verify, M!finalise_rename, M!Active
<1>2. t \notin shared => final = 0
  BY <1>1 DEF ModelInv, OneDownload
<1>3. \A x : M!Finish(t, x) => m_pc' = [m_pc EXCEPT ![t] = "ended"]
  BY DEF M!Finish
<1>4. m_pc[t] \in ModelPc /\ (m_pc[t] = "stream" => m_pc = [m_pc EXCEPT ![t] = "stream"])
  BY <1>0
<1>5. CASE M!head_validate(t)
  BY <1>0, <1>1, <1>2, <1>3, <1>5 DEF M!head_validate
<1>6. CASE M!prepare_resume(t)
  BY <1>0, <1>1, <1>2, <1>6 DEF M!prepare_resume
<1>7. CASE M!Get(t)
  BY <1>0, <1>1, <1>2, <1>3, <1>7 DEF M!Get
<1>8. CASE M!Chunk(t)
  BY <1>0, <1>1, <1>2, <1>4, <1>8 DEF M!Chunk
<1>9. CASE M!StreamEnds(t)
  BY <1>0, <1>1, <1>2, <1>3, <1>9 DEF M!StreamEnds
<1>10. CASE M!Verify(t)
  BY <1>0, <1>1, <1>2, <1>3, <1>10 DEF M!Verify
<1>11. CASE M!finalise_rename(t)
  BY <1>0, <1>1, <1>2, <1>3, <1>11 DEF M!finalise_rename
<1> QED
  BY <1>5, <1>6, <1>7, <1>8, <1>9, <1>10, <1>11 DEF M!Step

LEMMA StepTypes ==
    ASSUME ModelInv, NEW t \in M!Task, M!Step(t)
    PROVE  ModelTypes'
<1> USE DEF M!disk, M!tasks, M!row
<1>1. ModelTypes
  BY DEF ModelInv
<1>2. /\ UNCHANGED <<started, owner, cancelled, label, token, drains, shared>>
      /\ faults' \in 0 .. MaxFaults /\ by' \in 0 .. Tasks
  <2>1. /\ UNCHANGED <<started, owner, cancelled, label, token, drains, shared>>
        /\ faults' \in {faults, faults + 1} /\ (faults' # faults => faults < MaxFaults)
    BY StepFrame
  <2>2. MaxFaults \in Nat /\ faults \in 0 .. MaxFaults
    BY <1>1, BackendsAssumption DEF ModelTypes
  <2>3. by' \in {by, t}
    BY DEF M!Step, M!head_validate, M!prepare_resume, M!Get, M!Chunk, M!StreamEnds,
           M!Verify, M!finalise_rename
  <2>4. t \in 0 .. Tasks /\ by \in 0 .. Tasks
    BY <1>1, TaskIs DEF ModelTypes
  <2> QED
    BY <2>1, <2>2, <2>3, <2>4
<1>3. m_pc' \in [M!Task -> ModelPc] /\ msgs' \in Seq(Message)
  <2>1. CASE \E x \in ModelPc \ {"none", "ended"} :
                m_pc' = [m_pc EXCEPT ![t] = x] /\ UNCHANGED msgs
    BY <1>1, <2>1 DEF ModelTypes
  <2>2. ASSUME NEW x \in {"Installed", "Cancelled", "Failed"}, M!Finish(t, x)
        PROVE  m_pc' \in [M!Task -> ModelPc] /\ msgs' \in Seq(Message)
    BY <1>1, <2>2 DEF ModelTypes, M!Finish, ModelPc, Message
  <2> QED
    BY <2>1, <2>2, StepFrame
<1>4. /\ m_part' \in 0 .. Tasks /\ final' \in 0 .. Tasks
      /\ handle' \in [M!Task -> 0 .. Tasks]
      /\ data' \in [M!Task -> Seq(Blocks)] /\ hashed' \in [M!Task -> Seq(Blocks)]
      /\ next' \in [M!Task -> Nat \ {0}]
  <2>0. /\ m_part \in 0 .. Tasks /\ final \in 0 .. Tasks
        /\ handle \in [M!Task -> 0 .. Tasks]
        /\ data \in [M!Task -> Seq(Blocks)] /\ hashed \in [M!Task -> Seq(Blocks)]
        /\ next \in [M!Task -> Nat \ {0}] /\ M!NoFile = 0
    BY <1>1 DEF ModelTypes, M!NoFile
  <2>1. CASE M!head_validate(t) \/ M!StreamEnds(t)
    BY <2>0, <2>1 DEF M!head_validate, M!StreamEnds
  <2>2. CASE M!prepare_resume(t)
    <3>1. M!Contents(m_part) \in Seq(Blocks)
      BY <1>1, TaskIs DEF M!Contents, ContentsOf, M!NoFile
    <3>2. hashed' = [hashed EXCEPT ![t] = M!Contents(m_part)]
      BY <2>2 DEF M!prepare_resume
    <3>3. UNCHANGED <<m_part, final, handle, data, next>>
      BY <2>2 DEF M!prepare_resume
    <3> QED
      BY <2>0, <3>1, <3>2, <3>3
  <2>3. CASE M!Get(t)
    <3>1. Len(hashed[t]) \in Nat /\ t \in 0 .. Tasks
      BY <1>1, TaskIs
    <3>2. UNCHANGED <<final, data, hashed>>
      BY <2>3 DEF M!Get
    <3>3. next' \in [M!Task -> Nat \ {0}]
      BY <2>0, <2>3, <3>1 DEF M!Get
    <3>4. m_part' \in 0 .. Tasks
      BY <2>0, <2>3, <3>1 DEF M!Get
    <3>5. handle' \in [M!Task -> 0 .. Tasks]
      BY <2>0, <2>3, <3>4 DEF M!Get
    <3> QED
      BY <2>0, <3>2, <3>3, <3>4, <3>5
  <2>4. CASE M!Chunk(t)
    <3>1. handle[t] \in M!Task
      <4>1. handle[t] # 0
        BY <2>4 DEF M!Chunk, ModelInv, OneDownload
      <4>2. handle[t] \in 0 .. Tasks /\ Tasks \in Nat
        BY <1>1, TaskIs
      <4> QED
        BY <4>1, <4>2 DEF M!Task
    <3>2. PICK b \in {next[t], 0} :
            /\ data' = [data EXCEPT ![handle[t]] = Append(@, b)]
            /\ hashed' = [hashed EXCEPT ![t] = Append(@, b)]
      BY <2>4 DEF M!Chunk
    <3>3. b \in Blocks
      BY <1>1, <2>4, TaskIs DEF M!Chunk, Blocks
    <3>4. /\ Append(data[handle[t]], b) \in Seq(Blocks)
          /\ Append(hashed[t], b) \in Seq(Blocks)
      BY <2>0, <3>1, <3>3
    <3>5. /\ next' = [next EXCEPT ![t] = @ + 1] /\ next[t] + 1 \in Nat \ {0}
          /\ UNCHANGED <<m_part, final, handle>>
      BY <2>0, <2>4 DEF M!Chunk
    <3> QED
      BY <2>0, <3>2, <3>4, <3>5
  <2>5. CASE M!Verify(t)
    <3>1. m_part' \in {m_part, 0} /\ UNCHANGED <<final, handle, data, hashed, next>>
      BY <2>0, <2>5 DEF M!Verify
    <3> QED
      BY <1>1, <2>0, <3>1, TaskIs
  <2>6. CASE M!finalise_rename(t)
    <3>1. /\ {m_part', final'} \subseteq {m_part, final, 0}
          /\ UNCHANGED <<handle, data, hashed, next>>
      BY <2>0, <2>6 DEF M!finalise_rename
    <3> QED
      BY <1>1, <2>0, <3>1, TaskIs
  <2> QED
    BY <2>1, <2>2, <2>3, <2>4, <2>5, <2>6 DEF M!Step
<1> QED
  BY <1>1, <1>2, <1>3, <1>4 DEF ModelTypes

(* A download that runs alone appends to the .part, which holds what it    *)
(* hashed; none touches a file that another one has yet to create.         *)
LEMMA StepOne ==
    ASSUME ModelInv, NEW t \in M!Task, M!Step(t)
    PROVE  OneDownload'
<1> USE DEF M!disk, M!tasks, M!row, M!NoFile
<1>1. ModelTypes /\ OneDownload
  BY DEF ModelInv
<1>2. /\ M!Active(t) /\ (t \notin shared => final = 0) /\ t \in Nat \ {0}
      /\ M!NoFile = 0 /\ UNCHANGED <<started, owner, shared>>
      /\ \A u \in M!Task : u # t => m_pc'[u] = m_pc[u]
  BY <1>1, StepFrame, TaskIs
<1>3. /\ \A u \in M!Task : u # t /\ M!Active(u) => t \in shared /\ u \in shared
      /\ final # 0 => by \in shared
  BY <1>1, <1>2 DEF OneDownload
<1>4. m_pc[t] # "none" /\ m_pc'[t] # "none" /\ m_pc'[t] \in ModelPc
  BY <1>1, <1>2, StepFrame DEF M!Active, M!Finish, ModelTypes, ModelPc
<1>5. /\ \A u \in M!Task : m_pc'[u] = "none" <=> u > started'
      /\ \A u \in M!Task : M!Active(u)' => M!Active(u)
      /\ \A u, v \in M!Task : M!Active(u)' /\ M!Active(v)' => u = v \/ u \in shared'
  BY <1>1, <1>2, <1>4 DEF OneDownload, M!Active
<1>6. \A u \in M!Task : m_pc[u] \in {"none", "head", "resume", "get"} =>
         /\ m_part # u /\ final # u /\ data[u] = << >>
         /\ \A v \in M!Task : handle[v] # u
  BY <1>1 DEF OneDownload
(* What remains to be shown of the step.                                   *)
<1> DEFINE Fine ==
       /\ t \notin shared /\ m_pc'[t] # "ended" => final' = 0
       /\ \A u \in M!Task : u # t /\ m_pc[u] \in {"none", "head", "resume", "get"} =>
             /\ m_part' # u /\ final' # u /\ data'[u] = data[u]
             /\ handle'[t] # u
       /\ m_pc'[t] \in {"head", "resume", "get"} =>
             /\ m_part' # t /\ final' # t /\ data'[t] = << >>
             /\ handle' = handle /\ m_pc[t] \in {"head", "resume"}
       /\ \A u \in M!Task : u # t => handle'[u] = handle[u] /\ hashed'[u] = hashed[u]
       /\ m_pc'[t] = "stream" => handle'[t] # 0
       /\ m_pc'[t] = "stream" /\ t \notin shared => handle'[t] = m_part'
       /\ m_pc'[t] \in {"get", "stream", "verify", "rename"} /\ t \notin shared =>
             hashed'[t] = ContentsOf(m_part)'
       /\ m_pc'[t] = "rename" => hashed'[t] = M!Model
       /\ final' # 0 /\ by' \notin shared =>
             m_pc'[t] = "ended" /\ t \notin shared /\ data'[final'] = M!Model
<1>7. ASSUME Fine PROVE OneDownload'
  <2>1. \A u \in M!Task : M!Active(u)' /\ u \notin shared' => u = t /\ final' = 0
    BY <1>2, <1>3, <1>5, <1>7 DEF M!Active
  <2>2. \A u \in M!Task : m_pc'[u] \in {"none", "head", "resume", "get"} =>
             /\ m_part' # u /\ final' # u /\ data'[u] = << >>
             /\ \A v \in M!Task : handle'[v] # u
    <3>1. ASSUME NEW u \in M!Task, u # t,
                 m_pc'[u] \in {"none", "head", "resume", "get"}
          PROVE  /\ m_part' # u /\ final' # u /\ data'[u] = << >>
                 /\ \A v \in M!Task : handle'[v] # u
      <4>1. m_pc[u] \in {"none", "head", "resume", "get"}
        BY <1>2, <3>1
      <4> QED
        BY <1>6, <1>7, <3>1, <4>1
    <3>2. m_pc'[t] \in {"none", "head", "resume", "get"} =>
             /\ m_part' # t /\ final' # t /\ data'[t] = << >>
             /\ \A v \in M!Task : handle'[v] # t
      BY <1>4, <1>6, <1>7
    <3> QED
      BY <3>1, <3>2
  <2>3. \A u \in M!Task :
           /\ m_pc'[u] = "stream" => handle'[u] # 0
           /\ m_pc'[u] = "rename" => hashed'[u] = M!Model
    BY <1>1, <1>2, <1>7 DEF OneDownload
  <2>4. \A u \in M!Task : u \notin shared' =>
           /\ m_pc'[u] = "stream" => handle'[u] = m_part'
           /\ m_pc'[u] \in {"get", "stream", "verify", "rename"} =>
                 hashed'[u] = ContentsOf(m_part)'
    <3>1. \A u \in M!Task :
             m_pc'[u] \in {"get", "stream", "verify", "rename"} => M!Active(u)'
      BY DEF M!Active
    <3> QED
      BY <1>2, <1>7, <2>1, <3>1
  <2>5. final' # 0 /\ by' \notin shared' =>
           data'[final'] = M!Model /\ \A u \in M!Task : ~M!Active(u)'
    <3>1. ASSUME final' # 0, by' \notin shared', NEW u \in M!Task, M!Active(u)'
          PROVE  FALSE
      <4>1. m_pc'[t] = "ended" /\ t \notin shared
        BY <1>2, <1>7, <3>1
      <4>2. u # t
        BY <3>1, <4>1 DEF M!Active
      <4> QED
        BY <1>3, <1>5, <3>1, <4>1, <4>2
    <3> QED
      BY <1>2, <1>7, <3>1
  <2> QED
    BY <1>5, <2>1, <2>2, <2>3, <2>4, <2>5 DEF OneDownload
<1>8. m_pc \in [M!Task -> ModelPc] /\ \A x : M!Finish(t, x) => m_pc'[t] = "ended"
  BY <1>1 DEF ModelTypes, M!Finish
<1>9. /\ m_pc[t] = "stream" => handle[t] # 0
      /\ t \notin shared /\ m_pc[t] = "stream" => handle[t] = m_part
      /\ t \notin shared /\ m_pc[t] \in {"get", "stream", "verify", "rename"} =>
           hashed[t] = ContentsOf(m_part)
      /\ m_pc[t] = "rename" => hashed[t] = M!Model
      /\ handle \in [M!Task -> 0 .. Tasks] /\ hashed \in [M!Task -> Seq(Blocks)]
  BY <1>1 DEF OneDownload, ModelTypes
<1>10. CASE M!head_validate(t)
  <2>1. /\ UNCHANGED <<m_part, final, data, handle, hashed, by>> /\ m_pc[t] = "head"
        /\ m_pc'[t] \in {"resume", "ended"}
    BY <1>8, <1>10 DEF M!head_validate, M!Proceed
  <2> QED
    BY <1>2, <1>3, <1>6, <1>7, <1>9, <2>1
<1>11. CASE M!prepare_resume(t)
  <2>1. /\ UNCHANGED <<m_part, final, data, handle, by>> /\ m_pc[t] = "resume"
        /\ m_pc'[t] = "get" /\ hashed' = [hashed EXCEPT ![t] = M!Contents(m_part)]
    BY <1>1, <1>8, <1>11 DEF M!prepare_resume, M!Proceed, ModelTypes
  <2>2. /\ hashed'[t] = ContentsOf(m_part)'
        /\ \A u \in M!Task : u # t => hashed'[u] = hashed[u]
    BY <1>9, <2>1 DEF ContentsOf, M!Contents
  <2>3. Fine
    BY <1>2, <1>3, <1>6, <1>9, <2>1, <2>2
  <2> QED
    BY <1>7, <2>3
<1>12. CASE M!Get(t)
  <2>1. /\ UNCHANGED <<final, data, hashed, by>> /\ m_pc[t] = "get"
        /\ \/ m_pc'[t] \in {"verify", "ended"} /\ UNCHANGED <<m_part, handle>>
           \/ /\ m_pc'[t] = "stream" /\ m_part' = IF m_part = 0 THEN t ELSE m_part
              /\ handle' = [handle EXCEPT ![t] = m_part']
    BY <1>1, <1>8, <1>12 DEF M!Get, M!Proceed, ModelTypes
  <2>2. m_pc'[t] # "ended" => ContentsOf(m_part)' = ContentsOf(m_part)
    BY <1>2, <1>6, <2>1 DEF ContentsOf
  <2>3. /\ \A u \in M!Task : u # t => handle'[u] = handle[u]
        /\ m_pc'[t] = "stream" => handle'[t] = m_part' /\ m_part' # 0
    BY <1>2, <1>9, <2>1
  <2>4. \A u \in M!Task : u # t /\ m_pc[u] \in {"none", "head", "resume", "get"} =>
           m_part' # u /\ handle'[t] # u
    BY <1>2, <1>6, <1>9, <2>1, <2>3
  <2>5. Fine
    BY <1>2, <1>3, <1>6, <1>9, <2>1, <2>2, <2>3, <2>4
  <2> QED
    BY <1>7, <2>5
<1>13. CASE M!Chunk(t)
  <2>1. PICK b \in {next[t], 0} :
          /\ data' = [data EXCEPT ![handle[t]] = Append(@, b)]
          /\ hashed' = [hashed EXCEPT ![t] = Append(@, b)]
    BY <1>13 DEF M!Chunk
  <2>2. /\ UNCHANGED <<m_part, final, m_pc, handle, by>> /\ m_pc[t] = "stream"
        /\ handle[t] \in M!Task
    <3>1. handle[t] \in 0 .. Tasks /\ Tasks \in Nat
      BY <1>1, TaskIs
    <3> QED
      BY <1>9, <1>13, <3>1 DEF M!Chunk, M!Task
  <2>3. /\ data'[handle[t]] = Append(data[handle[t]], b)
        /\ \A u \in M!Task : u # handle[t] => data'[u] = data[u]
        /\ hashed'[t] = Append(hashed[t], b)
        /\ \A u \in M!Task : u # t => hashed'[u] = hashed[u]
    BY <1>1, <1>9, <2>1, <2>2 DEF ModelTypes
  <2>4. t \notin shared => hashed'[t] = ContentsOf(m_part)'
    BY <1>9, <2>2, <2>3 DEF ContentsOf
  <2>5. Fine
    BY <1>2, <1>3, <1>6, <1>9, <2>2, <2>3, <2>4
  <2> QED
    BY <1>7, <2>5
<1>14. CASE M!StreamEnds(t)
  <2>1. /\ UNCHANGED <<m_part, final, data, handle, hashed, by>> /\ m_pc[t] = "stream"
        /\ m_pc'[t] \in {"verify", "ended"}
    BY <1>8, <1>14 DEF M!StreamEnds, M!Proceed
  <2>2. ContentsOf(m_part)' = ContentsOf(m_part)
    BY <2>1 DEF ContentsOf
  <2> QED
    BY <1>2, <1>3, <1>6, <1>7, <1>9, <2>1, <2>2
<1>15. CASE M!Verify(t)
  <2>1. /\ UNCHANGED <<final, data, handle, hashed, by>> /\ m_pc[t] = "verify"
        /\ \/ m_pc'[t] = "rename" /\ UNCHANGED m_part /\ hashed[t] = M!Model
           \/ m_pc'[t] = "ended" /\ m_part' = 0
    BY <1>8, <1>15 DEF M!Verify, M!Proceed
  <2>2. m_part' = m_part => ContentsOf(m_part)' = ContentsOf(m_part)
    BY <2>1 DEF ContentsOf
  <2>3. \A u \in M!Task : u # 0
    BY <1>1, TaskIs
  <2>4. Fine
    BY <1>2, <1>3, <1>6, <1>9, <2>1, <2>2, <2>3
  <2> QED
    BY <1>7, <2>4
<1>16. CASE M!finalise_rename(t)
  <2>1. /\ UNCHANGED <<data, handle, hashed>> /\ m_pc[t] = "rename" /\ m_pc'[t] = "ended"
        /\ \/ m_part = 0 /\ UNCHANGED <<m_part, final, by>>
           \/ m_part # 0 /\ final' = m_part /\ m_part' = 0 /\ by' = t
    BY <1>8, <1>16 DEF M!finalise_rename
  <2>2. t \notin shared /\ m_part # 0 => data[m_part] = M!Model
    BY <1>9, <2>1 DEF ContentsOf
  <2>3. \A u \in M!Task : u # 0
    BY <1>1, TaskIs
  <2>4. Fine
    BY <1>2, <1>3, <1>6, <1>9, <2>1, <2>2, <2>3
  <2> QED
    BY <1>7, <2>4
<1> QED
  BY <1>10, <1>11, <1>12, <1>13, <1>14, <1>15, <1>16 DEF M!Step

LEMMA StepRow ==
    ASSUME ModelInv, NEW t \in M!Task, M!Step(t)
    PROVE  RowInv'
<1>1. ModelTypes
  BY DEF ModelInv
<1>2. CASE \E x \in ModelPc \ {"none", "ended"} : m_pc' = [m_pc EXCEPT ![t] = x]
  <2>1. M!Active(t)'
    BY <1>1, <1>2 DEF ModelTypes, M!Active
  <2> QED
    BY <2>1 DEF RowInv, M!Idle
<1>3. ASSUME NEW x \in {"Installed", "Cancelled", "Failed"}, M!Finish(t, x),
             x # "Installed" => UNCHANGED final, x = "Installed" => final' # 0
      PROVE  RowInv'
  <2>1. (t \notin shared => final = 0) /\ UNCHANGED <<owner, label, shared>>
    BY StepFrame
  <2>2. m_pc'[t] = "ended"
    BY <1>1, <1>3 DEF ModelTypes, M!Finish
  <2>3. CASE owner[t] # "row"
    <3>1. owner[t] = "cli"
      BY <1>1, <2>3 DEF ModelTypes
    <3>2. ~NoCli'
      BY <2>1, <2>2, <3>1 DEF NoCli
    <3> QED
      BY <3>2 DEF RowInv
  <2>4. CASE owner[t] = "row"
    <3>1. msgs' = Append(msgs, x) /\ msgs \in Seq(Message) /\ x \in Message
      BY <1>1, <1>3, <2>4 DEF M!Finish, ModelTypes, Message
    <3>2. msgs' # << >> /\ msgs'[Len(msgs')] = x
      BY <3>1
    <3>3. EndLabel' = M!LabelFor[x]
      BY <3>2 DEF EndLabel
    <3> QED
      BY <1>3, <2>1, <3>3, LabelOf DEF RowInv
  <2> QED
    BY <2>3, <2>4
<1> QED
  BY <1>2, <1>3, StepFrame

(* A download that starts has touched nothing yet, and those that it joins *)
(* are shared from now on.                                                 *)
LEMMA StartKeeps ==
    ASSUME ModelInv, NEW t \in M!Task, NEW who \in {"row", "cli"}, M!Start(t, who),
           UNCHANGED <<m_part, final, data, handle, hashed, next, cancelled,
                       label, drains, by>>,
           token' \in {token, t}, msgs' \in Seq(Message)
    PROVE  /\ ModelTypes' /\ OneDownload'
           /\ m_pc'[t] \in {"ended", "head"} /\ (final # 0 \/ M!Active(t)')
           /\ owner'[t] = who
<1> USE DEF M!NoFile
<1>1. ModelTypes /\ OneDownload
  BY DEF ModelInv
<1>2. /\ t = started + 1 /\ started' = t
      /\ owner' = [owner EXCEPT ![t] = who]
      /\ m_pc' = [m_pc EXCEPT ![t] = IF final # 0 THEN "ended" ELSE "head"]
  BY DEF M!Start, M!Installed
<1>3. /\ t \in 0 .. Tasks /\ started \in Nat /\ t \in Nat
      /\ m_pc \in [M!Task -> ModelPc]
  <2>1. t \in 0 .. Tasks /\ t \in Nat
    BY <1>1, TaskIs
  <2>2. started \in 0 .. Tasks /\ m_pc \in [M!Task -> ModelPc]
    BY <1>1 DEF ModelTypes
  <2> QED
    BY <2>1, <2>2
<1>4. /\ \/ M!Idle /\ shared' = shared
         \/ shared' = shared \union {t} \union {u \in M!Task : M!Active(u)}
      /\ faults' = faults \/ (faults' = faults + 1 /\ faults < MaxFaults)
  BY DEF M!Start, M!Fault
<1>5. ModelTypes'
  <2>1. faults' \in 0 .. MaxFaults
    <3>1. faults \in 0 .. MaxFaults
      BY <1>1 DEF ModelTypes
    <3> QED
      BY <1>4, <3>1, FaultsAreNat
  <2>2. shared' \subseteq M!Task
    BY <1>1, <1>4 DEF ModelTypes
  <2> QED
    BY <1>1, <1>2, <1>3, <2>1, <2>2 DEF ModelTypes, ModelPc
<1>6. /\ m_pc'[t] = IF final # 0 THEN "ended" ELSE "head"
      /\ \A u \in M!Task : u # t => m_pc'[u] = m_pc[u]
  BY <1>2, <1>3
<1>7. m_pc[t] = "none"
  BY <1>1, <1>2, <1>3 DEF OneDownload
<1>8. \A u \in M!Task :
         m_pc'[u] \in {"none", "head", "resume", "get"} =>
             /\ m_part # u /\ final # u /\ data[u] = << >>
             /\ \A v \in M!Task : handle[v] # u
  BY <1>1, <1>6, <1>7 DEF OneDownload
<1>9. \A u \in M!Task : m_pc'[u] = "none" <=> u > started'
  <2>1. \A u \in M!Task : u \in Nat
    BY <1>1, TaskIs
  <2>2. \A u \in M!Task : m_pc[u] = "none" <=> u > started
    BY <1>1 DEF OneDownload
  <2> QED
    BY <1>2, <1>3, <1>6, <2>1, <2>2
<1>10. /\ shared \subseteq shared'
       /\ \A u \in M!Task : u # t /\ M!Active(u)' => M!Active(u) /\ u \in shared'
       /\ ~M!Idle => t \in shared'
       /\ M!Active(t)' => final = 0
  BY <1>4, <1>6 DEF M!Idle, M!Active
<1>11. /\ \A u, v \in M!Task : M!Active(u)' /\ M!Active(v)' => u = v \/ u \in shared'
       /\ \A u \in M!Task : M!Active(u)' /\ u \notin shared' => final = 0
  BY <1>10 DEF M!Idle
<1>12. \A u \in M!Task :
         /\ m_pc'[u] = "stream" => handle[u] # 0
         /\ m_pc'[u] = "stream" /\ u \notin shared' => handle[u] = m_part
         /\ m_pc'[u] \in {"get", "stream", "verify", "rename"} /\ u \notin shared' =>
               hashed[u] = ContentsOf(m_part)
         /\ m_pc'[u] = "rename" => hashed[u] = M!Model
  BY <1>1, <1>6, <1>10 DEF OneDownload
<1>13. final # 0 /\ by \notin shared' =>
          data[final] = M!Model /\ \A u \in M!Task : ~M!Active(u)'
  BY <1>1, <1>10 DEF OneDownload
<1>14. OneDownload'
  BY <1>8, <1>9, <1>11, <1>12, <1>13 DEF OneDownload, ContentsOf
<1> QED
  BY <1>2, <1>3, <1>1, <1>5, <1>6, <1>14 DEF M!Active, ModelTypes

LEMMA UserStep ==
    ASSUME ModelInv, M!CliInstalls \/ M!ClickDownload \/ M!ClickCancel
    PROVE  ModelInv'
<1> USE DEF M!disk, M!tasks, M!row
<1>0. ModelTypes
  BY DEF ModelInv
<1>1. CASE M!CliInstalls
  <2>1. PICK t \in M!Task : M!Start(t, "cli")
    BY <1>1 DEF M!CliInstalls
  <2>2. UNCHANGED <<m_part, final, data, handle, hashed, next, cancelled, label,
                    token, drains, by, msgs>>
    BY <1>1 DEF M!CliInstalls
  <2>3. msgs' \in Seq(Message)
    BY <1>0, <2>2 DEF ModelTypes
  <2>4. /\ ModelTypes' /\ OneDownload'
        /\ m_pc'[t] # "none" /\ owner'[t] = "cli"
    BY <2>1, <2>2, <2>3, StartKeeps
  <2>5. RowInv'
    BY <2>4 DEF RowInv, NoCli
  <2> QED
    BY <2>4, <2>5 DEF ModelInv
<1>2. CASE M!ClickDownload
  <2>1. PICK t \in M!Task :
          /\ M!Start(t, "row") /\ token' = t
          /\ msgs' = IF M!Installed THEN msgs \o <<"Started", "Installed">>
                     ELSE Append(msgs, "Started")
    BY <1>2 DEF M!ClickDownload
  <2>2. UNCHANGED <<m_part, final, data, handle, hashed, next, cancelled, label,
                    drains, by>>
    BY <1>2 DEF M!ClickDownload
  <2>3. /\ msgs' \in Seq(Message)
        /\ M!Installed => msgs' # << >> /\ msgs'[Len(msgs')] = "Installed"
    <3>1. msgs \in Seq(Message) /\ <<"Started", "Installed">> \in Seq(Message)
      BY <1>0 DEF ModelTypes, Message
    <3>2. "Started" \in Message
      BY DEF Message
    <3>3. Append(msgs, "Started") \in Seq(Message)
      BY <3>1, <3>2
    <3>4. /\ msgs \o <<"Started", "Installed">> \in Seq(Message)
          /\ Len(msgs \o <<"Started", "Installed">>) = Len(msgs) + 2
          /\ (msgs \o <<"Started", "Installed">>)[Len(msgs) + 2] = "Installed"
      <4> DEFINE w == <<"Started", "Installed">>
      <4>1. w \in Seq(Message) /\ Len(w) = 2 /\ w[2] = "Installed"
        BY <3>1
      <4> HIDE DEF w
      <4> DEFINE n == Len(msgs)
      <4>2. n \in Nat
        BY <3>1
      <4>3. /\ msgs \o w \in Seq(Message) /\ Len(msgs \o w) = n + Len(w)
            /\ \A i \in 1 .. n + Len(w) :
                  (msgs \o w)[i] = IF i <= n THEN msgs[i] ELSE w[i - n]
        BY <3>1, <4>1, ConcatProperties
      <4> HIDE DEF n
      <4>4. /\ n + 2 \in 1 .. n + Len(w) /\ ~(n + 2 <= n) /\ (n + 2) - n = 2
        BY <4>1, <4>2
      <4>5. (msgs \o w)[n + 2] = "Installed" /\ Len(msgs \o w) = n + 2
        BY <4>1, <4>3, <4>4
      <4> QED
        BY <4>3, <4>5 DEF n, w
    <3>5. Len(msgs) + 2 # 0
      BY <3>1
    <3>6. msgs \o <<"Started", "Installed">> # << >>
      BY <3>4, <3>5
    <3> QED
      BY <2>1, <3>3, <3>4, <3>6
  <2>4. /\ ModelTypes' /\ OneDownload'
        /\ (final # 0 \/ M!Active(t)')
    BY <2>1, <2>2, <2>3, StartKeeps
  <2>5. RowInv'
    <3>1. CASE M!Active(t)'
      BY <3>1 DEF RowInv, M!Idle
    <3>2. CASE final # 0
      <4>1. EndLabel' = "Installed"
        BY <2>3, <3>2, LabelOf DEF EndLabel, M!Installed, M!NoFile
      <4> QED
        BY <2>2, <3>2, <4>1 DEF RowInv
    <3> QED
      BY <2>4, <3>1, <3>2
  <2> QED
    BY <2>4, <2>5 DEF ModelInv
<1>3. CASE M!ClickCancel
  <2>1. /\ UNCHANGED <<m_part, final, data, started, owner, m_pc, handle, hashed,
                       next, label, msgs, token, drains, shared, by>>
        /\ faults' = faults + 1 /\ faults < MaxFaults /\ token # 0
        /\ cancelled' = [cancelled EXCEPT ![token] = TRUE]
    BY <1>3 DEF M!ClickCancel, M!Fault
  <2>2. ModelTypes'
    <3>1. faults' \in 0 .. MaxFaults
      <4>1. faults \in 0 .. MaxFaults
        BY <1>0 DEF ModelTypes
      <4> QED
        BY <2>1, <4>1, FaultsAreNat
    <3> QED
      BY <1>0, <2>1, <3>1 DEF ModelTypes
  <2>3. OneDownload'
    BY <2>1 DEF ModelInv, OneDownload, M!Active, ContentsOf
  <2>4. RowInv'
    BY <2>1 DEF ModelInv, RowInv, M!Idle, M!Active, NoCli, EndLabel
  <2> QED
    BY <2>2, <2>3, <2>4 DEF ModelInv
<1> QED
  BY <1>1, <1>2, <1>3

(* A message that is applied was, or was not, the last one.                *)
LEMMA MessageStep ==
    ASSUME ModelInv, M!apply_msg
    PROVE  ModelInv'
<1>1. /\ UNCHANGED <<m_part, final, data, started, owner, m_pc, handle, hashed,
                     next, cancelled, token, drains, shared, by, faults>>
      /\ msgs # << >> /\ label' = M!LabelFor[Head(msgs)] /\ msgs' = Tail(msgs)
  BY DEF M!apply_msg, M!disk, M!tasks
<1>2. ModelTypes /\ msgs \in Seq(Message)
  BY DEF ModelInv, ModelTypes
<1>3. msgs' \in Seq(Message) /\ label' \in Labels
  BY <1>1, <1>2, LabelOf
<1>4. ModelTypes'
  BY <1>1, <1>2, <1>3 DEF ModelTypes
<1>5. OneDownload'
  BY <1>1 DEF ModelInv, OneDownload, M!Active, ContentsOf
<1>7. EndLabel' = EndLabel
  <2>1. /\ Len(msgs) \in Nat \ {0} /\ Len(Tail(msgs)) = Len(msgs) - 1
        /\ \A i \in 1 .. Len(msgs) - 1 : Tail(msgs)[i] = msgs[i + 1]
        /\ Head(msgs) = msgs[1]
    BY <1>1, <1>2
  <2>2. CASE Len(msgs) = 1
    <3>1. Tail(msgs) = << >>
      BY <1>1, <1>3, <2>1, <2>2, EmptySeq
    <3> QED
      BY <1>1, <2>1, <2>2, <3>1 DEF EndLabel
  <2>3. CASE Len(msgs) # 1
    <3>1. /\ Tail(msgs) # << >>
          /\ Tail(msgs)[Len(Tail(msgs))] = msgs[Len(msgs)]
      <4> DEFINE n == Len(msgs)
      <4>1. n \in Nat /\ n >= 2
        BY <2>1, <2>3
      <4>2. Len(Tail(msgs)) = n - 1 /\ Tail(msgs)[n - 1] = msgs[n]
        <5>1. n - 1 \in 1 .. n - 1 /\ (n - 1) + 1 = n
          BY <4>1
        <5> QED
          BY <2>1, <5>1
      <4>3. Len(Tail(msgs)) # Len(<< >>)
        <5>1. Len(Tail(msgs)) = n - 1 /\ Len(<< >>) = 0
          BY <4>2, EmptySeq
        <5>2. n - 1 # 0
          <6> HIDE DEF n
          <6> QED
            BY <4>1
        <5> QED
          BY <5>1, <5>2, Zenon
      <4>4. Tail(msgs) # << >>
        BY <4>3, Zenon
      <4>5. Tail(msgs)[Len(Tail(msgs))] = msgs[Len(msgs)]
        BY <4>2
      <4> QED
        BY <4>4, <4>5
    <3> QED
      BY <1>1, <3>1 DEF EndLabel
  <2> QED
    BY <2>2, <2>3
<1>8. RowInv'
  BY <1>1, <1>7 DEF ModelInv, RowInv, M!Idle, M!Active, NoCli
<1> QED
  BY <1>4, <1>5, <1>8 DEF ModelInv

LEMMA KillStep ==
    ASSUME ModelInv, M!WindowRestarts \/ \E t \in M!Task : M!CliKilled(t)
    PROVE  ModelInv'
<1> USE DEF M!disk, M!tasks, M!row
<1>0. ModelTypes /\ OneDownload
  BY DEF ModelInv
<1>1. /\ UNCHANGED <<m_part, final, data, started, owner, handle, hashed, next,
                     cancelled, drains, shared, by>>
      /\ faults < MaxFaults /\ faults' = faults + 1
      /\ m_pc' \in [M!Task -> ModelPc]
      /\ \A t \in M!Task : m_pc'[t] = m_pc[t] \/ (m_pc'[t] = "ended" /\ M!Active(t))
  BY <1>0
  DEF ModelTypes, M!WindowRestarts, M!CliKilled, M!Fault, ModelPc
<1>2. \/ label' = M!InitialLabel /\ msgs' = << >> /\ token' = 0
      \/ /\ UNCHANGED <<label, msgs, token>>
         /\ \E t \in M!Task : owner[t] = "cli" /\ m_pc'[t] = "ended"
  BY <1>0 DEF ModelTypes, M!WindowRestarts, M!CliKilled
<1>3. label' \in Labels /\ msgs' \in Seq(Message) /\ token' \in 0 .. Tasks
  <2>1. << >> \in Seq(Message) /\ Tasks \in Nat /\ M!InitialLabel \in Labels
    BY BackendsAssumption DEF M!InitialLabel, Labels
  <2> QED
    <3>1. 0 \in 0 .. Tasks
      BY <2>1
    <3>2. label \in Labels /\ msgs \in Seq(Message) /\ token \in 0 .. Tasks
      BY <1>0 DEF ModelTypes
    <3> QED
      BY <1>2, <2>1, <3>1, <3>2
<1>4. ModelTypes'
  <2>1. faults' \in 0 .. MaxFaults
    <3>1. faults \in 0 .. MaxFaults
      BY <1>0 DEF ModelTypes
    <3> QED
      BY <1>1, <3>1, FaultsAreNat
  <2> QED
    BY <1>0, <1>1, <1>3, <2>1 DEF ModelTypes
<1>5. OneDownload'
  <2>1. \A t \in M!Task : /\ M!Active(t)' => M!Active(t) /\ m_pc'[t] = m_pc[t]
                          /\ m_pc'[t] = "none" <=> m_pc[t] = "none"
                          /\ m_pc'[t] # "ended" => m_pc'[t] = m_pc[t]
    BY <1>1 DEF M!Active
  <2> QED
    BY <1>0, <1>1, <2>1 DEF OneDownload, ContentsOf
<1>7. RowInv'
  <2>1. CASE label' = M!InitialLabel /\ msgs' = << >>
    <3>1. EndLabel' = M!InitialLabel
      BY <2>1 DEF EndLabel
    <3> QED
      BY <1>1, <3>1 DEF RowInv, M!InitialLabel, M!Installed, M!NoFile
  <2>2. CASE \E t \in M!Task : owner[t] = "cli" /\ m_pc'[t] = "ended"
    BY <1>1, <2>2 DEF RowInv, NoCli
  <2> QED
    BY <1>2, <2>1, <2>2
<1> QED
  BY <1>4, <1>5, <1>7 DEF ModelInv

LEMMA ModelStep == ModelInv /\ [M!Next]_(M!vars) => ModelInv'
<1> SUFFICES ASSUME ModelInv, [M!Next]_(M!vars) PROVE ModelInv'
  OBVIOUS
<1>1. CASE UNCHANGED M!vars
  <2>1. UNCHANGED <<m_part, final, data, started, owner, m_pc, handle, hashed,
                    next, cancelled, label, msgs, token, drains, shared, by,
                    faults>>
    BY <1>1 DEF M!vars, M!disk, M!tasks, M!row
  <2>2. ModelTypes'
    BY <2>1 DEF ModelInv, ModelTypes
  <2>3. OneDownload'
    BY <2>1 DEF ModelInv, OneDownload, M!Active, ContentsOf
  <2>4. RowInv'
    BY <2>1 DEF ModelInv, RowInv, M!Idle, M!Active, NoCli, EndLabel
  <2> QED
    BY <2>2, <2>3, <2>4 DEF ModelInv
<1>2. ASSUME NEW t \in M!Task, M!Step(t) PROVE ModelInv'
  BY <1>2, StepTypes, StepOne, StepRow DEF ModelInv
<1> QED
  BY <1>1, <1>2, UserStep, MessageStep, KillStep DEF M!Next

LEMMA ModelKept ==
    ModelInv => M!TypeOK /\ M!InstalledIsVerified /\ M!RowTellsTruth
<1> SUFFICES ASSUME ModelInv
             PROVE  M!TypeOK /\ M!InstalledIsVerified /\ M!RowTellsTruth
  OBVIOUS
<1>1. ModelTypes /\ RowInv /\ OneDownload
  BY DEF ModelInv
<1>2. M!TypeOK
  <2>1. \A t \in M!Task : handle[t] \in 0 .. Tasks
    BY <1>1 DEF ModelTypes
  <2> QED
    BY <1>1, <2>1 DEF ModelTypes, M!TypeOK, ModelPc, Labels, Blocks
<1>3. M!RowTellsTruth
  BY <1>1 DEF RowInv, M!RowTellsTruth, NoCli, EndLabel, M!Installed, M!NoFile
<1>4. M!InstalledIsVerified
  BY <1>1 DEF OneDownload, M!InstalledIsVerified, M!Installed, M!NoFile
<1> QED
  BY <1>2, <1>3, <1>4

-----------------------------------------------------------------------------
(* Proof: bundles *)

(* What a sequence lists is its head or in its tail.                       *)
LEMMA FirstOrRest ==
    ASSUME NEW S, NEW s \in Seq(S), s # << >>
    PROVE  /\ Head(s) \in S /\ Tail(s) \in Seq(S)
           /\ Head(s) = s[1] /\ 1 \in 1 .. Len(s)
           /\ \A n : (\E i \in 1 .. Len(s) : s[i] = n) =>
                 n = Head(s) \/ \E i \in 1 .. Len(Tail(s)) : Tail(s)[i] = n
<1> DEFINE k == Len(s)
<1>1. k \in Nat \ {0} /\ Head(s) \in S /\ Tail(s) \in Seq(S)
  BY EmptySeq, HeadTailProperties
<1>2. /\ Len(Tail(s)) = k - 1
      /\ \A i \in 1 .. Len(Tail(s)) : Tail(s)[i] = s[i + 1]
  BY HeadTailProperties
<1>3. Head(s) = s[1]
  OBVIOUS
<1> HIDE DEF k
<1>4. 1 \in 1 .. k
  BY <1>1
<1>5. ASSUME NEW n, NEW i \in 1 .. k, s[i] = n
      PROVE  n = Head(s) \/ \E j \in 1 .. Len(Tail(s)) : Tail(s)[j] = n
  <2>1. CASE i = 1
    BY <1>3, <1>5, <2>1
  <2>2. CASE i # 1
    <3>1. i - 1 \in 1 .. k - 1 /\ (i - 1) + 1 = i
      BY <1>1, <2>2
    <3>2. Tail(s)[i - 1] = n
      BY <1>2, <1>5, <3>1
    <3> QED
      BY <1>2, <3>1, <3>2
  <2> QED
    BY <2>1, <2>2
<1> QED
  BY <1>1, <1>3, <1>4, <1>5 DEF k

(* What the assumptions say of the files of a bundle.                      *)
LEMMA FilesAre ==
    /\ Files \in Seq(B!Expected)
    /\ \A n \in B!Expected : \E i \in 1 .. Len(Files) : Files[i] = n
    /\ "part" \notin B!Expected /\ ".." \notin B!Expected
    /\ "extra" \notin B!Expected
    /\ B!Expected \subseteq B!Names /\ {"extra", "part"} \subseteq B!Names
    /\ B!Empty \in [B!Names -> Quality]
    /\ \A n \in B!Names : B!Empty[n] = "absent"
    /\ MaxUnpacked \in Nat /\ BundleFaults \in Nat
BY BundleAssumption, BackendsAssumption DEF B!Expected, B!Names, B!Empty, Quality

LEMMA BundleInit == B!Init => BundleInv
<1> SUFFICES ASSUME B!Init PROVE BundleInv
  OBVIOUS
<1>1. /\ source \in {<<"multi">>} \union Archives /\ place \in {"none", "dir", "file"}
      /\ b_final \in IF place = "dir" THEN B!HandMade ELSE {B!Empty}
      /\ staging = B!Empty /\ b_pc = "idle" /\ unpacked = 0
      /\ result = "none" /\ b_faults = 0
  BY DEF B!Init
<1>2. \A f \in B!HandMade : f \in [B!Names -> Quality]
        /\ \E n \in B!Expected : f[n] = "absent"
  <2>1. PICK m \in B!Expected, n \in B!Expected : m # n
    BY BundleAssumption
  <2>2. ASSUME NEW x \in B!Expected
        PROVE  /\ [B!Empty EXCEPT ![x] = "foreign"] \in [B!Names -> Quality]
               /\ \A y \in B!Expected : y # x =>
                     [B!Empty EXCEPT ![x] = "foreign"][y] = "absent"
    BY FilesAre DEF Quality
  <2>3. \A x \in B!Expected : \E y \in B!Expected : y # x
    BY <2>1
  <2>4. \E y \in B!Expected : B!Empty[y] = "absent"
    BY <2>1, FilesAre
  <2>5. ASSUME NEW f \in B!HandMade
        PROVE  f = B!Empty \/ \E x \in B!Expected : f = [B!Empty EXCEPT ![x] = "foreign"]
    BY <2>5 DEF B!HandMade
  <2>6. ASSUME NEW f, NEW x \in B!Expected, f = [B!Empty EXCEPT ![x] = "foreign"]
        PROVE  f \in [B!Names -> Quality] /\ \E z \in B!Expected : f[z] = "absent"
    <3>1. PICK y \in B!Expected : y # x
      BY <2>3
    <3> QED
      BY <2>2, <2>6, <3>1
  <2> QED
    BY <2>4, <2>5, <2>6, FilesAre
<1>3. BundleTypes
  BY <1>1, <1>2, FilesAre DEF BundleTypes, Multi
<1>4. B!CompleteIsVerified
  BY <1>1, <1>2 DEF B!CompleteIsVerified, B!bundle_complete, B!missing_files
<1>5. StagingInv
  BY <1>1, FilesAre DEF StagingInv
<1>6. B!ExtractionIsBounded
  BY <1>1, FilesAre DEF B!ExtractionIsBounded
<1> QED
  BY <1>1, <1>3, <1>4, <1>5, <1>6 DEF BundleInv

(* A step that leaves the final path alone: its types, its bound and what  *)
(* it makes of the staging directory are enough.                           *)
LEMMA BesideFinal ==
    ASSUME BundleInv, UNCHANGED <<source, place, b_final>>,
           staging' \in [B!Names -> Quality],
           b_pc' \in {"idle", "fetch", "body", "extract", "check", "remove",
                      "rename"},
           result' \in {"none", "installed", "failed"},
           result' = "installed" => b_pc' = "idle" /\ B!bundle_complete,
           unpacked' \in Nat, unpacked' <= 2 * MaxUnpacked,
           b_faults' = b_faults \/ B!Fault,
           StagingInv'
    PROVE  BundleInv'
<1>1. b_faults' \in 0 .. BundleFaults
  BY FilesAre DEF BundleInv, BundleTypes, B!Fault
<1>2. BundleTypes'
  BY <1>1 DEF BundleInv, BundleTypes, Multi
<1>3. (B!bundle_complete <=> B!bundle_complete') /\ B!CompleteIsVerified'
  BY DEF BundleInv, B!CompleteIsVerified, B!bundle_complete, B!missing_files
<1>4. B!ExtractionIsBounded'
  BY DEF B!ExtractionIsBounded
<1> QED
  BY <1>2, <1>3, <1>4 DEF BundleInv

(* An error before the swap.                                               *)
LEMMA FailClears ==
    ASSUME BundleInv, B!FailClean("failed"), b_pc # "idle",
           UNCHANGED <<source, place, b_final>>,
           unpacked' \in Nat, unpacked' <= 2 * MaxUnpacked,
           b_faults' = b_faults \/ B!Fault
    PROVE  BundleInv'
<1>1. result' = "failed" /\ b_pc' = "idle" /\ staging' = B!Empty
  BY DEF B!FailClean
<1>2. StagingInv'
  BY <1>1, FilesAre DEF StagingInv, Multi
<1> QED
  BY <1>1, <1>2, FilesAre, BesideFinal

LEMMA BeginStep ==
    ASSUME BundleInv, B!Begin \/ B!Killed
    PROVE  BundleInv'
<1>0. /\ staging \in [B!Names -> Quality] /\ unpacked \in Nat
      /\ unpacked <= 2 * MaxUnpacked /\ (Multi \/ source \in Archives)
      /\ (~Multi => \A n \in B!Expected : staging[n] \in {"absent", "good"})
      /\ 0 <= 2 * MaxUnpacked
  BY FilesAre
  DEF BundleInv, BundleTypes, B!ExtractionIsBounded, StagingInv
<1>1. CASE B!Killed
  <2>1. /\ b_pc' = "idle" /\ result' = "none" /\ B!Fault
        /\ UNCHANGED <<source, place, b_final, staging, todo, unpacked>>
    BY <1>1 DEF B!Killed
  <2>2. StagingInv'
    BY <1>0, <2>1 DEF StagingInv, Multi
  <2> QED
    BY <1>0, <2>1, <2>2, BesideFinal
<1>2. CASE B!Begin /\ B!bundle_complete
  <2>1. /\ result' = "installed" /\ b_pc = "idle"
        /\ UNCHANGED <<source, place, b_final, staging, todo, b_pc, unpacked, b_faults>>
    BY <1>2 DEF B!Begin
  <2>2. StagingInv'
    BY <1>0, <2>1 DEF StagingInv, Multi
  <2> QED
    BY <1>0, <1>2, <2>1, <2>2, BesideFinal
<1>3. CASE B!Begin /\ ~B!bundle_complete
  <2>1. /\ staging' \in {B!Empty, staging} /\ (b_faults' = b_faults \/ B!Fault)
        /\ todo' = IF Multi THEN Files ELSE source
        /\ b_pc' = "fetch" /\ unpacked' = 0 /\ result' = "none"
        /\ UNCHANGED <<source, place, b_final>>
    BY <1>3 DEF B!Begin, B!Multi, Multi
  <2>2. staging' \in [B!Names -> Quality]
    BY <1>0, <2>1, FilesAre
  <2>3. ~Multi => \A n \in B!Expected : staging'[n] \in {"absent", "good"}
    BY <1>0, <2>1, FilesAre
  <2>4. ~Multi => todo' \in Seq(B!Entry)
    BY <1>0, <2>1, BundleAssumption
  <2>5. StagingInv'
    BY <2>1, <2>3, <2>4, FilesAre DEF StagingInv, Multi
  <2> QED
    BY <1>0, <2>1, <2>2, <2>5, BesideFinal
<1> QED
  BY <1>1, <1>2, <1>3

LEMMA FetchStep ==
    ASSUME BundleInv, B!StartFetch \/ B!EndFetch \/ B!AllFetched
    PROVE  BundleInv'
<1>0. /\ staging \in [B!Names -> Quality] /\ unpacked \in Nat
      /\ unpacked <= 2 * MaxUnpacked /\ StagingInv
      /\ (b_pc # "idle" => result # "installed")
      /\ result \in {"none", "installed", "failed"}
  BY DEF BundleInv, BundleTypes, B!ExtractionIsBounded
<1>1. CASE B!StartFetch
  <2>1. /\ b_pc = "fetch" /\ todo # << >> /\ b_pc' = "body"
        /\ staging' = [staging EXCEPT ![B!Target] = "torn"]
        /\ UNCHANGED <<source, place, b_final, todo, unpacked, result, b_faults>>
    BY <1>1 DEF B!StartFetch
  <2>2. CASE Multi
    <3>1. B!Target = Head(todo) /\ todo \in Seq(B!Expected)
      BY <1>0, <2>1, <2>2 DEF B!Target, B!Multi, Multi, StagingInv
    <3>2. /\ Head(todo) \in B!Expected /\ Head(todo) = todo[1] /\ 1 \in 1 .. Len(todo)
      BY <2>1, <3>1, FirstOrRest
    <3>3. staging' \in [B!Names -> Quality]
      BY <1>0, <2>1, <3>1, <3>2, FilesAre DEF Quality
    <3>4. \A n \in B!Expected :
             staging'[n] = "good" \/ \E i \in 1 .. Len(todo) : todo[i] = n
      BY <1>0, <2>1, <2>2, <3>1, <3>2, FilesAre DEF StagingInv
    <3>5. StagingInv'
      BY <1>0, <2>1, <2>2, <3>4 DEF StagingInv, Multi
    <3> QED
      BY <1>0, <2>1, <3>3, <3>5, BesideFinal
  <2>3. CASE ~Multi
    <3>1. B!Target = "part"
      BY <2>3 DEF B!Target, B!Multi, Multi
    <3>2. /\ staging' \in [B!Names -> Quality]
          /\ \A n \in B!Expected : staging'[n] = staging[n]
      BY <1>0, <2>1, <3>1, FilesAre DEF Quality
    <3>3. StagingInv'
      BY <1>0, <2>1, <2>3, <3>2 DEF StagingInv, Multi
    <3> QED
      BY <1>0, <2>1, <3>2, <3>3, BesideFinal
  <2> QED
    BY <2>2, <2>3
<1>2. CASE B!EndFetch
  <2>1. /\ b_pc = "body" /\ UNCHANGED <<source, place, b_final, unpacked>>
        /\ todo # << >> /\ unpacked = 0
    BY <1>0, <1>2 DEF B!EndFetch, StagingInv
  <2>2. CASE B!Fault /\ B!FailClean("failed")
    BY <1>0, <2>1, <2>2, FailClears
  <2>3. CASE /\ staging' = [staging EXCEPT ![B!Target] = "good"]
             /\ B!Verified /\ UNCHANGED <<result, b_faults>>
    <3>1. CASE Multi
      <4>1. /\ B!Target = Head(todo) /\ todo \in Seq(B!Expected)
            /\ b_pc' = "fetch" /\ todo' = Tail(todo)
        BY <1>0, <2>1, <2>3, <3>1
        DEF B!Target, B!Multi, Multi, StagingInv, B!Verified
      <4>2. /\ Head(todo) \in B!Expected /\ todo' \in Seq(B!Expected)
            /\ \A n : (\E i \in 1 .. Len(todo) : todo[i] = n) =>
                  n = Head(todo) \/ \E i \in 1 .. Len(todo') : todo'[i] = n
        BY <2>1, <4>1, FirstOrRest
      <4>3. staging' \in [B!Names -> Quality]
        BY <1>0, <2>3, <4>1, <4>2, FilesAre DEF Quality
      <4>4. \A n \in B!Expected :
               staging'[n] = "good" \/ \E i \in 1 .. Len(todo') : todo'[i] = n
        <5>1. \A n \in B!Expected :
                 staging[n] = "good" \/ \E i \in 1 .. Len(todo) : todo[i] = n
          BY <1>0, <2>1, <3>1 DEF StagingInv
        <5>2. /\ staging'[Head(todo)] = "good"
              /\ \A n \in B!Expected : staging[n] = "good" => staging'[n] = "good"
          BY <1>0, <2>3, <4>1, <4>2, FilesAre
        <5> QED
          BY <4>2, <5>1, <5>2
      <4>5. StagingInv'
        BY <1>0, <2>1, <3>1, <4>1, <4>2, <4>4 DEF StagingInv, Multi
      <4> QED
        BY <1>0, <2>1, <2>3, <4>1, <4>3, <4>5, BesideFinal
    <3>2. CASE ~Multi
      <4>1. /\ B!Target = "part" /\ b_pc' = "extract" /\ UNCHANGED todo
        BY <2>3, <3>2 DEF B!Target, B!Multi, Multi, B!Verified
      <4>2. /\ staging' \in [B!Names -> Quality]
            /\ \A n \in B!Expected : staging'[n] = staging[n]
        BY <1>0, <2>3, <4>1, FilesAre DEF Quality
      <4>3. StagingInv'
        BY <1>0, <2>1, <3>2, <4>1, <4>2, FilesAre DEF StagingInv, Multi
      <4> QED
        BY <1>0, <2>1, <2>3, <4>1, <4>2, <4>3, BesideFinal
    <3> QED
      BY <3>1, <3>2
  <2> QED
    BY <1>2, <2>2, <2>3 DEF B!EndFetch
<1>3. CASE B!AllFetched
  <2>1. /\ b_pc = "fetch" /\ todo = << >> /\ b_pc' = "check"
        /\ UNCHANGED <<source, place, b_final, staging, todo, unpacked, result,
                       b_faults>>
    BY <1>3 DEF B!AllFetched
  <2>2. Multi => \A n \in B!Expected : staging[n] = "good"
    <3>1. \A i \in 1 .. Len(todo) : FALSE
      BY <2>1
    <3> QED
      BY <1>0, <2>1, <3>1 DEF StagingInv
  <2>3. StagingInv'
    BY <1>0, <2>1, <2>2 DEF StagingInv, Multi
  <2> QED
    BY <1>0, <2>1, <2>3, BesideFinal
<1> QED
  BY <1>1, <1>2, <1>3

LEMMA ExtractStep ==
    ASSUME BundleInv, B!Extract \/ B!Extracted
    PROVE  BundleInv'
<1>0. /\ staging \in [B!Names -> Quality] /\ unpacked \in Nat /\ ~Multi
      /\ unpacked <= MaxUnpacked /\ b_pc = "extract" /\ StagingInv
      /\ result \in {"none", "failed"} /\ MaxUnpacked \in Nat
      /\ unpacked <= 2 * MaxUnpacked
      /\ \A n \in B!Expected : staging[n] \in {"absent", "good"}
      /\ todo \in Seq(B!Entry)
  <2>1. b_pc = "extract"
    BY DEF B!Extract, B!Extracted
  <2> QED
    BY <2>1, FilesAre DEF BundleInv, BundleTypes, B!ExtractionIsBounded, StagingInv
<1>1. CASE B!Extracted
  <2>1. /\ b_pc' = "check" /\ staging' = [staging EXCEPT !["part"] = "absent"]
        /\ UNCHANGED <<source, place, b_final, todo, unpacked, result, b_faults>>
    BY <1>1 DEF B!Extracted
  <2>2. /\ staging' \in [B!Names -> Quality]
        /\ \A n \in B!Expected : staging'[n] = staging[n]
    BY <1>0, <2>1, FilesAre DEF Quality
  <2>3. StagingInv'
    BY <1>0, <2>1, <2>2 DEF StagingInv, Multi
  <2> QED
    BY <1>0, <2>1, <2>2, <2>3, BesideFinal
<1>2. CASE B!Extract
  <2> DEFINE e == Head(todo)
             size == IF e.kind = "file" THEN e.size ELSE 0
             after == unpacked + size
  <2>1. /\ todo # << >> /\ UNCHANGED <<source, place, b_final>>
        /\ IF Len(source) > MaxEntries \/ B!Refused(e)
           THEN B!FailClean("failed") /\ UNCHANGED <<unpacked, b_faults>>
           ELSE /\ unpacked' = after
                /\ \/ after > MaxUnpacked /\ B!FailClean("failed") /\ UNCHANGED b_faults
                   \/ /\ after <= MaxUnpacked
                      /\ staging' = IF e.kind = "file"
                                    THEN [staging EXCEPT ![e.name] = "good"]
                                    ELSE staging
                      /\ todo' = Tail(todo)
                      /\ UNCHANGED <<b_pc, result, b_faults>>
                   \/ B!Fault /\ B!FailClean("failed")
    BY <1>2 DEF B!Extract
  <2>2. e \in B!Entry /\ Tail(todo) \in Seq(B!Entry)
    BY <1>0, <2>1, FirstOrRest
  <2>3. CASE Len(source) > MaxEntries \/ B!Refused(e)
    <3>1. B!FailClean("failed") /\ UNCHANGED <<unpacked, b_faults>>
      BY <2>1, <2>3
    <3> QED
      BY <1>0, <2>1, <3>1, FailClears
  <2>4. CASE ~(Len(source) > MaxEntries \/ B!Refused(e))
    <3>1. /\ e.name \in (B!Expected \union {"extra"}) /\ e.size \in Nat
          /\ e.kind = "file" => e.size <= MaxUnpacked
      <4>1. /\ e.name \in (B!Expected \union {"extra", ".."}) /\ e.size \in Nat
        BY <2>2 DEF B!Entry
      <4>2. e.name # ".." /\ (e.kind = "file" => ~(e.size > MaxUnpacked))
        BY <2>4 DEF B!Refused
      <4> QED
        BY <1>0, <4>1, <4>2
    <3>2. after \in Nat /\ after <= 2 * MaxUnpacked
      BY <1>0, <3>1
    <3> HIDE DEF size
    <3>3. unpacked' = after
      BY <2>1, <2>4
    <3>4. CASE /\ after <= MaxUnpacked
               /\ staging' = IF e.kind = "file"
                             THEN [staging EXCEPT ![e.name] = "good"] ELSE staging
               /\ todo' = Tail(todo) /\ UNCHANGED <<b_pc, result, b_faults>>
      <4> HIDE DEF e
      <4>1. /\ staging' \in [B!Names -> Quality]
            /\ \A n \in B!Expected : staging'[n] \in {"absent", "good"}
        BY <1>0, <3>1, <3>4, FilesAre DEF Quality
      <4>2. StagingInv'
        BY <1>0, <2>1, <2>2, <3>3, <3>4, <4>1 DEF StagingInv, Multi
      <4> QED
        BY <1>0, <2>1, <3>2, <3>3, <3>4, <4>1, <4>2, BesideFinal
    <3>5. CASE B!FailClean("failed") /\ (b_faults' = b_faults \/ B!Fault)
      BY <1>0, <2>1, <3>2, <3>3, <3>5, FailClears
    <3>6. \/ B!FailClean("failed") /\ (b_faults' = b_faults \/ B!Fault)
          \/ /\ after <= MaxUnpacked
             /\ staging' = IF e.kind = "file"
                           THEN [staging EXCEPT ![e.name] = "good"] ELSE staging
             /\ todo' = Tail(todo) /\ UNCHANGED <<b_pc, result, b_faults>>
      <4> HIDE DEF e, after
      <4> QED
        BY <2>1, <2>4
    <3> QED
      BY <3>4, <3>5, <3>6
  <2> QED
    BY <2>3, <2>4
<1> QED
  BY <1>1, <1>2

LEMMA SwapStep ==
    ASSUME BundleInv, B!Check \/ B!RemoveOld \/ B!Rename
    PROVE  BundleInv'
<1>0. /\ staging \in [B!Names -> Quality] /\ b_final \in [B!Names -> Quality]
      /\ unpacked \in Nat /\ unpacked <= 2 * MaxUnpacked
      /\ StagingInv /\ BundleTypes /\ b_pc \in {"check", "remove", "rename"}
      /\ result \in {"none", "failed"}
  BY DEF BundleInv, BundleTypes, B!ExtractionIsBounded, B!Check, B!RemoveOld, B!Rename
<1>1. CASE B!Check
  <2>1. CASE B!FailClean("failed") /\ UNCHANGED <<source, place, b_final, unpacked, b_faults>>
    BY <1>0, <2>1, FailClears
  <2>2. CASE /\ B!missing_files(staging) = {} /\ b_pc = "check" /\ b_pc' = "remove"
             /\ UNCHANGED <<staging, todo, result, source, place, b_final, unpacked,
                            b_faults>>
    <3>1. StagingInv'
      BY <1>0, <2>2 DEF StagingInv, Multi, B!missing_files
    <3> QED
      BY <1>0, <2>2, <3>1, BesideFinal
  <2> QED
    BY <1>1, <2>1, <2>2 DEF B!Check
<1>2. ASSUME b_pc' = "idle", result' = "failed",
             UNCHANGED <<source, place, b_final, staging, todo, unpacked>>,
             b_faults' = b_faults \/ B!Fault
      PROVE  BundleInv'
  <2>1. StagingInv'
    BY <1>0, <1>2 DEF StagingInv, Multi
  <2> QED
    BY <1>0, <1>2, <2>1, BesideFinal
(* The new files are all there and verified before the old ones go.        *)
<1>3. b_pc \in {"remove", "rename"} =>
         B!missing_files(staging) = {} /\ \A n \in B!Expected : staging[n] = "good"
  BY <1>0 DEF StagingInv, B!missing_files
<1>4. CASE B!RemoveOld
  <2>1. b_pc = "remove" /\ UNCHANGED <<source, unpacked>>
    BY <1>4 DEF B!RemoveOld
  <2>2. CASE /\ B!FailDirty /\ UNCHANGED <<place, b_final>>
             /\ (b_faults' = b_faults \/ B!Fault)
    BY <1>2, <2>1, <2>2 DEF B!FailDirty
  <2>3. CASE place = "none" /\ b_pc' = "rename"
             /\ UNCHANGED <<staging, todo, place, b_final, result, b_faults>>
    <3>1. StagingInv'
      BY <1>0, <2>1, <2>3 DEF StagingInv, Multi, B!missing_files
    <3> QED
      BY <1>0, <2>1, <2>3, <3>1, BesideFinal
  <2>4. CASE /\ place = "dir"
             /\ \E n \in B!Names : b_final[n] # "absent"
                                   /\ b_final' = [b_final EXCEPT ![n] = "absent"]
             /\ UNCHANGED <<staging, todo, place, b_pc, result, b_faults>>
    <3>1. /\ b_final' \in [B!Names -> Quality]
          /\ \A n \in B!Names : b_final'[n] \in {b_final[n], "absent"}
      BY <1>0, <2>4 DEF Quality
    <3>2. BundleTypes'
      BY <1>0, <2>1, <2>4, <3>1 DEF BundleTypes, Multi
    <3>3. B!CompleteIsVerified'
      <4>1. \A n \in B!Expected : b_final'[n] \in {b_final[n], "absent"}
        BY <3>1, FilesAre
      <4> QED
        BY <2>4, <4>1
        DEF BundleInv, B!CompleteIsVerified, B!bundle_complete, B!missing_files
    <3>4. StagingInv' /\ B!ExtractionIsBounded'
      BY <1>0, <2>1, <2>4
      DEF BundleInv, StagingInv, Multi, B!missing_files, B!ExtractionIsBounded
    <3> QED
      BY <1>0, <2>4, <3>2, <3>3, <3>4 DEF BundleInv
  <2>5. CASE /\ place = "dir" /\ b_final = B!Empty /\ place' = "none"
             /\ b_pc' = "rename"
             /\ UNCHANGED <<staging, todo, b_final, result, b_faults>>
    <3>1. BundleTypes'
      BY <1>0, <2>1, <2>5 DEF BundleTypes, Multi
    <3>2. B!CompleteIsVerified'
      BY <2>5 DEF B!CompleteIsVerified, B!bundle_complete
    <3>3. StagingInv' /\ B!ExtractionIsBounded'
      BY <1>0, <2>1, <2>5
      DEF BundleInv, StagingInv, Multi, B!missing_files, B!ExtractionIsBounded
    <3> QED
      BY <1>0, <2>5, <3>1, <3>2, <3>3 DEF BundleInv
  <2> QED
    BY <1>4, <2>2, <2>3, <2>4, <2>5 DEF B!RemoveOld
<1>5. CASE B!Rename
  <2>1. b_pc = "rename" /\ UNCHANGED <<source, unpacked>>
    BY <1>5 DEF B!Rename
  <2>2. CASE B!Fault /\ B!FailDirty /\ UNCHANGED <<place, b_final>>
    BY <1>2, <2>1, <2>2 DEF B!FailDirty
  <2>3. CASE /\ place' = "dir" /\ b_final' = staging /\ staging' = B!Empty
             /\ b_pc' = "idle" /\ result' = "installed" /\ UNCHANGED <<todo, b_faults>>
    <3>1. BundleTypes'
      BY <1>0, <2>1, <2>3, FilesAre DEF BundleTypes, Multi
    <3>2. B!CompleteIsVerified' /\ B!bundle_complete'
      BY <1>3, <2>1, <2>3
      DEF B!CompleteIsVerified, B!bundle_complete, B!missing_files
    <3>3. StagingInv' /\ B!ExtractionIsBounded'
      BY <1>0, <2>1, <2>3, FilesAre
      DEF BundleInv, StagingInv, Multi, B!ExtractionIsBounded
    <3> QED
      BY <2>3, <3>1, <3>2, <3>3 DEF BundleInv
  <2> QED
    BY <1>5, <2>2, <2>3 DEF B!Rename
<1> QED
  BY <1>1, <1>4, <1>5

LEMMA BundleStep == BundleInv /\ [B!Next]_(B!vars) => BundleInv'
<1> SUFFICES ASSUME BundleInv, [B!Next]_(B!vars) PROVE BundleInv'
  OBVIOUS
<1>1. CASE UNCHANGED B!vars
  <2>1. UNCHANGED <<source, place, b_final, staging, b_pc, todo, unpacked, result,
                    b_faults>>
    BY <1>1 DEF B!vars
  <2>2. StagingInv'
    BY <2>1 DEF BundleInv, StagingInv, Multi, B!missing_files
  <2> QED
    BY <2>1, <2>2, BesideFinal DEF BundleInv, BundleTypes, B!ExtractionIsBounded
<1> QED
  BY <1>1, BeginStep, FetchStep, ExtractStep, SwapStep DEF B!Next, B!Step

LEMMA BundleKept == BundleInv =>
    /\ B!TypeOK /\ B!CompleteIsVerified /\ B!InstalledIsComplete
    /\ B!AgreeOnInstalled /\ B!ExtractionIsBounded
<1> SUFFICES ASSUME BundleInv
             PROVE  B!TypeOK /\ B!InstalledIsComplete /\ B!AgreeOnInstalled
  BY DEF BundleInv
<1>1. B!TypeOK
  BY DEF BundleInv, BundleTypes, B!TypeOK, Quality
<1>2. B!InstalledIsComplete
  BY DEF BundleInv, B!InstalledIsComplete
<1>3. B!AgreeOnInstalled
  <2>1. place \in {"none", "dir", "file"}
    BY DEF BundleInv, BundleTypes
  <2> QED
    BY <2>1 DEF B!AgreeOnInstalled, B!status, B!resolve_spec, B!bundle_complete
<1> QED
  BY <1>1, <1>2, <1>3

(* Only the swap touches the final path.                                   *)
LEMMA SwapIsLast ==
    ASSUME BundleInv, [B!Next]_(B!vars), b_final' # b_final \/ place' # place
    PROVE  b_pc \in {"remove", "rename"} /\ B!missing_files(staging) = {}
<1>1. b_pc \in {"remove", "rename"}
  BY DEF B!Next, B!Step, B!vars, B!Begin, B!Killed, B!StartFetch, B!EndFetch,
         B!AllFetched, B!Extract, B!Extracted, B!Check, B!RemoveOld, B!Rename
<1> QED
  BY <1>1 DEF BundleInv, StagingInv

-----------------------------------------------------------------------------
(* Proof: the microphone set-up *)

(* What the assumptions say of the levels.                                 *)
LEMMA LevelsAre ==
    /\ Low \in Int /\ Goal \in Int /\ Bottom \in Int /\ Tolerance \in Nat
    /\ Low <= 0 /\ Bottom <= Goal /\ Goal <= 0 /\ Bottom <= 0
    /\ Volumes \ {Zero} \subseteq Int /\ Loudness \subseteq Int
    /\ \A l \in Loudness, v \in Volumes \ {Zero} : l + v >= Bottom
    /\ Low .. 0 \subseteq Volumes \ {Zero} /\ 0 \in Low .. 0
    /\ Least \in Volumes /\ Varies \notin Loudness /\ Muted \notin Loudness
    /\ MaxIterations \in Nat \ {0} /\ Runs \in Nat
<1>1. /\ Low \in Int /\ Goal \in Int /\ Bottom \in Int
      /\ Low <= 0 /\ Bottom <= Goal /\ Goal <= 0
      /\ StartVolumes \ {Zero} \subseteq Int /\ Loudness \subseteq Int
      /\ \A l \in Loudness : \A v \in (StartVolumes \ {Zero}) \union (Low .. 0) :
            l + v >= Bottom
      /\ Zero \notin Int /\ Least \in {Zero, Low}
      /\ Varies \notin Loudness /\ Muted \notin Loudness
  BY LevelAssumption
<1>2. Tolerance \in Nat /\ MaxIterations \in Nat \ {0} /\ Runs \in Nat
  BY BackendsAssumption
<1>3. /\ Bottom <= 0 /\ Low .. 0 \subseteq Int /\ 0 \in Low .. 0 /\ Low \in Low .. 0
      /\ Low .. 0 \subseteq Int \ {Zero}
  BY <1>1
<1> QED
  BY <1>1, <1>2, <1>3 DEF Volumes

(* What a capture of a steady voice reads.                                 *)
LEMMA AnalyzeIs ==
    ASSUME NEW l \in Loudness, NEW v \in Volumes \ {Zero}
    PROVE  /\ L!analyze(l, v) = IF l + v > 0 THEN 0 ELSE l + v
           /\ L!analyze(l, v) \in Bottom .. 0
<1>1. l \in Int /\ v \in Int /\ l + v >= Bottom /\ Bottom \in Int /\ Bottom <= 0
  BY LevelsAre
<1>2. l # Muted /\ v # Zero
  BY LevelsAre
<1>3. L!analyze(l, v) = L!Clamp(l + v, Bottom, 0)
  BY <1>2 DEF L!analyze
<1> QED
  BY <1>1, <1>3 DEF L!Clamp

(* From a muted source, or at volume 0, only silence is heard.             *)
LEMMA HeardIs ==
    ASSUME NEW l \in Loudness \union {Muted}, NEW v \in Volumes
    PROVE  L!analyze(l, v) \in Bottom .. 0
<1>1. CASE l = Muted \/ v = Zero
  BY <1>1, LevelsAre DEF L!analyze
<1>2. CASE ~(l = Muted \/ v = Zero)
  BY <1>2, AnalyzeIs
<1> QED
  BY <1>1, <1>2

LEMMA MeasuredIs ==
    ASSUME LevelTypes
    PROVE  /\ L!Measured \subseteq Bottom .. 0
           /\ voice # Varies => L!Measured = {L!analyze(voice, volume)}
<1>1. voice \in Loudness \union {Varies, Muted} /\ volume \in Volumes
  BY DEF LevelTypes
<1>2. Bottom \in Bottom .. 0
  BY LevelsAre
<1> QED
  BY <1>1, <1>2, HeardIs DEF L!Measured

LEMMA RecommendIs ==
    ASSUME NEW c \in Volumes \ {Zero}, NEW p \in Bottom .. 0
    PROVE  /\ L!recommend_volume(c, p) \in Low .. 0
           /\ L!recommend_volume(c, p) \in Volumes
           /\ L!recommend_volume(c, p) =
                 IF c + (Goal - p) < Low THEN Low
                 ELSE IF c + (Goal - p) > 0 THEN 0 ELSE c + (Goal - p)
<1>1. c \in Int /\ p \in Int /\ Low \in Int /\ Goal \in Int /\ Low <= 0
  BY LevelsAre
<1>2. L!recommend_volume(c, p) = L!Clamp(c + (Goal - p), Low, 0)
  BY DEF L!recommend_volume, L!MaxVolume
<1>3. /\ L!recommend_volume(c, p) \in Low .. 0
      /\ L!recommend_volume(c, p) =
            IF c + (Goal - p) < Low THEN Low
            ELSE IF c + (Goal - p) > 0 THEN 0 ELSE c + (Goal - p)
  BY <1>1, <1>2 DEF L!Clamp
<1> QED
  BY <1>3, LevelsAre

(* What one correction of the volume achieves: it is right, or the voice   *)
(* was clipped and the volume comes down by the target level.              *)
LEMMA Corrected ==
    ASSUME NEW l \in Loudness, NEW v \in Volumes \ {Zero}, Goal - l \in Low .. 0
    PROVE  LET w == L!recommend_volume(v, L!analyze(l, v)) IN
           w = Goal - l \/ (l + v > 0 /\ w <= v + Goal)
<1>1. /\ l \in Int /\ v \in Int /\ Goal \in Int /\ Low \in Int /\ Low <= Goal - l
      /\ Goal - l <= 0
  BY LevelsAre
<1> DEFINE p == L!analyze(l, v)
<1>2. p \in Bottom .. 0 /\ p = IF l + v > 0 THEN 0 ELSE l + v
  BY AnalyzeIs
<1> HIDE DEF p
<1>3. L!recommend_volume(v, p) =
         IF v + (Goal - p) < Low THEN Low
         ELSE IF v + (Goal - p) > 0 THEN 0 ELSE v + (Goal - p)
  BY <1>2, RecommendIs
<1>4. CASE l + v > 0
  <2>1. p = 0 /\ ~(v + (Goal - 0) < Low)
    BY <1>1, <1>2, <1>4
  <2> QED
    BY <1>1, <1>3, <1>4, <2>1 DEF p
<1>5. CASE ~(l + v > 0)
  <2>1. p = l + v /\ v + (Goal - p) = Goal - l
    BY <1>1, <1>2, <1>5
  <2> QED
    BY <1>1, <1>3, <2>1 DEF p
<1> QED
  BY <1>4, <1>5

(* The right volume is heard to be right.                                  *)
LEMMA RightIsHeard ==
    ASSUME NEW l \in Loudness, NEW v \in Volumes \ {Zero}, v = Goal - l
    PROVE  L!analyze(l, v) = Goal /\ L!within_tolerance(L!analyze(l, v))
<1>1. l \in Int /\ v \in Int /\ Goal \in Int /\ Goal <= 0 /\ Tolerance \in Nat
  BY LevelsAre
<1>2. L!analyze(l, v) = Goal
  BY <1>1, AnalyzeIs
<1> QED
  BY <1>1, <1>2 DEF L!within_tolerance, L!Distance

(* Records of the profiles.                                                *)
LEMMA FreshIs ==
    /\ L!Fresh \in L!Profile
    /\ [L!Fresh EXCEPT !.out["type"] = 1] \in L!Profile
    /\ [L!Fresh EXCEPT !.compiled = FALSE] \in L!Profile
<1>1. L!Fresh \in L!Profile
  BY DEF L!Fresh, L!Profile
<1>2. ASSUME NEW f \in L!Profile PROVE [f EXCEPT !.compiled = FALSE] \in L!Profile
  BY DEF L!Profile
<1>4. ASSUME NEW f \in L!Profile, NEW o \in L!Live
      PROVE  [f EXCEPT !.out[o] = 1] \in L!Profile
  <2>1. f.out \in [L!Live -> 0 .. 1]
    BY DEF L!Profile
  <2>2. [f.out EXCEPT ![o] = 1] \in [L!Live -> 0 .. 1]
    BY <2>1
  <2>3. \A g \in [L!Live -> 0 .. 1] : [f EXCEPT !.out = g] \in L!Profile
    BY DEF L!Profile
  <2> QED
    BY <2>2, <2>3
<1>3. "type" \in L!Live
  BY DEF L!Live
<1> QED
  BY <1>1, <1>2, <1>3, <1>4

LEMMA UpdateIs ==
    ASSUME NEW p \in L!Profile, cmd \in L!Command
    PROVE  /\ L!update_sources(p) \in L!Profile
           /\ L!update_sources(p).mic
           /\ cmd.kind = "setup" => L!update_sources(p).system = cmd.system
           /\ L!update_sources(p).compiled = p.compiled
           /\ L!update_sources(p).out = p.out
<1>1. cmd.system \in BOOLEAN /\ p.system \in BOOLEAN
  BY DEF L!Command, L!Profile
<1> QED
  BY <1>1 DEF L!update_sources, L!Profile

LEMMA OutputsIs ==
    ASSUME NEW p \in L!Profile, cmd \in L!Command
    PROVE  /\ L!write_outputs(p) \in L!Profile
           /\ L!write_outputs(p).mic = p.mic
           /\ L!write_outputs(p).system = p.system
           /\ L!write_outputs(p).compiled = p.compiled
           /\ cmd.live # "none" => L!write_outputs(p).out[cmd.live] = 1
           /\ \A o \in L!Live : L!write_outputs(p).out[o] >= p.out[o]
<1>1. cmd.live \in L!Live \union {"none"} /\ p.out \in [L!Live -> 0 .. 1]
  BY DEF L!Command, L!Profile
<1>2. \A o \in L!Live : p.out[o] \in 0 .. 1
  BY <1>1
<1>3. CASE cmd.live = "none" \/ p.out[cmd.live] > 0
  <2>1. L!write_outputs(p) = p
    BY <1>3 DEF L!write_outputs
  <2> QED
    BY <1>1, <1>2, <1>3, <2>1
<1>4. CASE ~(cmd.live = "none" \/ p.out[cmd.live] > 0)
  <2>1. cmd.live \in L!Live
    BY <1>1, <1>4
  <2>2. L!write_outputs(p) = [p EXCEPT !.out[cmd.live] = 1]
    BY <1>4 DEF L!write_outputs
  <2>3. /\ L!write_outputs(p).mic = p.mic /\ L!write_outputs(p).system = p.system
        /\ L!write_outputs(p).compiled = p.compiled
        /\ L!write_outputs(p).out = [p.out EXCEPT ![cmd.live] = 1]
        /\ L!write_outputs(p) \in L!Profile
    BY <1>1, <2>1, <2>2 DEF L!Profile
  <2> QED
    BY <1>1, <1>2, <2>1, <2>3
<1> QED
  BY <1>3, <1>4

LEMMA StoredIs ==
    ASSUME LevelTypes
    PROVE  /\ \A n \in L!Names : user[n] # Absent => user[n] \in L!Profile
           /\ L!load("default") \in L!Profile /\ L!load("default") # Absent
           /\ "default" \in L!Shipped /\ "default" \in L!Names
           /\ \A p \in L!Profile : p # Absent
           /\ cmd \in L!Command /\ cmd.name \in L!Names \union {Absent}
           /\ cmd.kind \in {"meter", "calibrate", "setup"}
<1>1. /\ "default" \in L!Shipped /\ "default" \in L!Names
      /\ \A p \in L!Profile : p # Absent
  BY LevelAssumption DEF L!Shipped, L!Names
<1>2. /\ \A n \in L!Names : user[n] # Absent => user[n] \in L!Profile
  BY DEF LevelTypes
<1>3. L!load("default") \in L!Profile
  BY <1>1, <1>2, FreshIs DEF L!load
<1>4. /\ cmd \in L!Command /\ cmd.name \in L!Names \union {Absent}
      /\ cmd.kind \in {"meter", "calibrate", "setup"}
  BY DEF LevelTypes, L!Command
<1> QED
  BY <1>1, <1>2, <1>3, <1>4

LEMMA LevelInit == L!Init => LevelInv
<1> SUFFICES ASSUME L!Init PROVE LevelInv
  OBVIOUS
<1>1. /\ l_pc = "idle" /\ exit = "none" /\ runs = 0 /\ l_result = "none"
      /\ cmd = L!NoAnswers("meter", FALSE) /\ voice = Varies
      /\ volume \in StartVolumes /\ before = Unread /\ known = 0 /\ peak = Bottom
      /\ iter = 0 /\ isDefault = FALSE
  BY DEF L!Init, L!MaxVolume
<1>2. user \in [L!Names -> L!Profile \union {Absent}]
  BY FreshIs DEF L!Init
<1>3. cmd \in L!Command
  BY <1>1 DEF L!NoAnswers, L!Command
<1>4. /\ 0 \in Volumes /\ volume \in Volumes /\ Bottom \in Bottom .. 0
      /\ 0 \in 0 .. MaxIterations /\ 0 \in 0 .. Runs
  BY <1>1, LevelsAre DEF Volumes
<1>5. LevelTypes
  BY <1>1, <1>2, <1>3, <1>4 DEF LevelTypes, LevelPc
<1> QED
  BY <1>1, <1>5
  DEF LevelInv, LoopInv, WizardInv, SetupPc, L!SteadyConverges, L!TooQuietIsTrue,
      L!DoneMatchesChoice, L!DoneIsRunnable

(* The properties of a finished wizard hold while the command that follows *)
(* runs, and again once a step says so itself.                             *)
LEMMA NotDone ==
    ASSUME exit' # "done"
    PROVE  L!DoneMatchesChoice' /\ L!DoneIsRunnable' /\ (exit' = "done" => l_pc' = "idle")
BY DEF L!DoneMatchesChoice, L!DoneIsRunnable

(* No result of the loop yet.                                              *)
LEMMA NoResult ==
    ASSUME l_result' = "none"
    PROVE  L!SteadyConverges' /\ L!TooQuietIsTrue'
BY DEF L!SteadyConverges, L!TooQuietIsTrue

(* A step that leaves the calibration as it is.                            *)
LEMMA SameLevel ==
    ASSUME LevelInv, UNCHANGED L!level
    PROVE  /\ L!SteadyConverges' /\ L!TooQuietIsTrue'
           /\ l_pc' \notin {"floor", "live", "speech", "current", "apply", "measure"}
                 => LoopInv'
           /\ l_pc' = l_pc \/ (l_pc' \in {"floor", "live", "speech"}
                               /\ l_pc \in {"floor", "live"}) => LoopInv'
<1>1. UNCHANGED <<voice, volume, before, known, peak, iter, l_result>>
  BY DEF L!level
<1>2. Steady' <=> Steady
  BY <1>1 DEF Steady
<1> QED
  BY <1>1, <1>2
  DEF LevelInv, LoopInv, L!SteadyConverges, L!TooQuietIsTrue

LEMMA InvokeStep == ASSUME LevelInv, L!Invoke PROVE LevelInv'
<1>1. /\ runs' = runs + 1 /\ runs < Runs /\ l_pc' \in {"floor", "idle"}
      /\ exit' \in {"none", "failed"} /\ (l_pc' # "idle" => exit' = "none")
      /\ voice' \in Loudness \union {Varies, Muted}
      /\ before' = Unread /\ known' = 0 /\ peak' = Bottom /\ iter' = 0
      /\ l_result' = "none" /\ UNCHANGED <<volume, isDefault, user>>
  BY DEF L!Invoke, L!Exit, L!MaxVolume
<1>2. cmd' \in L!Command
  <2>1. \A k \in {"meter", "calibrate", "setup"}, a \in BOOLEAN :
           L!NoAnswers(k, a) \in L!Command
    BY DEF L!NoAnswers, L!Command
  <2> QED
    BY <2>1 DEF L!Invoke
<1>3. runs' \in 0 .. Runs
  BY <1>1, LevelsAre DEF LevelInv, LevelTypes
<1>4. 0 \in Volumes /\ Bottom \in Bottom .. 0 /\ 0 \in 0 .. MaxIterations
  BY LevelsAre
<1>5. LevelTypes'
  BY <1>1, <1>2, <1>3, <1>4 DEF LevelInv, LevelTypes, LevelPc
<1>6. LoopInv' /\ WizardInv'
  BY <1>1 DEF LoopInv, WizardInv, SetupPc
<1> QED
  BY <1>1, <1>5, <1>6, NotDone, NoResult DEF LevelInv

LEMMA ListenStep ==
    ASSUME LevelInv, L!Listen \/ L!Speech \/ L!Interrupt
    PROVE  LevelInv'
<1>0. LevelTypes /\ LoopInv /\ WizardInv /\ exit = "none" /\ l_pc # "idle"
  BY DEF LevelInv, WizardInv, L!Listen, L!Speech, L!Interrupt
<1>1. CASE L!Listen
  <2>1. /\ l_pc \in {"floor", "live"}
        /\ l_pc' \in {"idle", "speech", "live"} /\ exit' \in {"failed", "ok", "none"}
        /\ (l_pc' # "idle" => exit' = exit) /\ (l_pc' = "live" => cmd.kind = "setup")
        /\ UNCHANGED <<cmd, isDefault, user, runs>> /\ UNCHANGED L!level
    BY <1>0, <1>1 DEF L!Listen, L!Exit, L!Goto
  <2>2. UNCHANGED <<voice, volume, before, known, peak, iter, l_result>>
    BY <2>1 DEF L!level
  <2>3. LevelTypes'
    BY <1>0, <2>1, <2>2 DEF LevelTypes, LevelPc
  <2>4. WizardInv'
    BY <1>0, <2>1 DEF WizardInv, SetupPc
  <2>5. LoopInv' /\ L!SteadyConverges' /\ L!TooQuietIsTrue'
    BY <2>1, SameLevel
  <2> QED
    BY <1>0, <2>1, <2>3, <2>4, <2>5, NotDone DEF LevelInv
<1>2. CASE L!Speech
  <2>1. /\ l_pc = "speech" /\ l_pc' \in {"current", "idle"}
        /\ exit' \in {"none", "failed"} /\ (l_pc' = "current" => exit' = "none")
        /\ peak' \in L!Measured \union {peak}
        /\ l_pc' = "current" => peak' \in L!Measured
        /\ UNCHANGED <<cmd, voice, volume, before, known, iter, l_result, isDefault,
                       user, runs>>
    BY <1>0, <1>2 DEF L!Speech, L!Exit, L!Goto
  <2>2. peak' \in Bottom .. 0
    BY <1>0, <2>1, MeasuredIs DEF LevelTypes
  <2>3. LevelTypes'
    BY <1>0, <2>1, <2>2 DEF LevelTypes, LevelPc
  <2>4. WizardInv'
    BY <2>1 DEF WizardInv, SetupPc
  <2>5. l_result' = "none"
    BY <1>0, <2>1 DEF LoopInv
  <2>6. LoopInv'
    <3>1. voice # Varies /\ l_pc' = "current" => peak' = L!analyze(voice, volume)
      BY <1>0, <2>1, MeasuredIs
    <3> QED
      BY <2>1, <2>5, <3>1 DEF LoopInv
  <2> QED
    BY <2>1, <2>3, <2>4, <2>5, <2>6, NotDone, NoResult DEF LevelInv
<1>3. CASE L!Interrupt
  <2>1. /\ l_pc' = "idle" /\ exit' = "interrupted"
        /\ UNCHANGED <<cmd, isDefault, user, runs>> /\ UNCHANGED L!level
    BY <1>3 DEF L!Interrupt, L!Exit
  <2>2. UNCHANGED <<voice, volume, before, known, peak, iter, l_result>>
    BY <2>1 DEF L!level
  <2>3. LevelTypes'
    BY <1>0, <2>1, <2>2 DEF LevelTypes, LevelPc
  <2>4. WizardInv' /\ LoopInv' /\ L!SteadyConverges' /\ L!TooQuietIsTrue'
    BY <2>1, SameLevel DEF WizardInv, SetupPc
  <2> QED
    BY <2>1, <2>3, <2>4, NotDone DEF LevelInv
<1> QED
  BY <1>1, <1>2, <1>3

LEMMA ReadStep == ASSUME LevelInv, L!ReadVolume PROVE LevelInv'
<1>0. LevelTypes /\ LoopInv /\ WizardInv /\ exit = "none" /\ l_result = "none"
  BY DEF LevelInv, WizardInv, LoopInv, L!ReadVolume
<1>1. /\ l_pc = "current" /\ UNCHANGED <<cmd, voice, volume, peak, l_result,
                                         isDefault, user, runs>>
      /\ \/ known' = volume /\ before' = volume
         \/ known' = 0 /\ before' = Unread
      /\ \/ l_pc' = "apply" /\ exit' = "none" /\ iter' = 1
         \/ l_pc' = "idle" /\ exit' = "ok" /\ iter' = iter
  BY <1>0 DEF L!ReadVolume, L!Exit, L!Goto, L!MaxVolume
<1>2. /\ volume \in Volumes /\ (volume # Zero => volume \in Int) /\ 0 \in Volumes
      /\ 1 \in 0 .. MaxIterations
  BY <1>0, LevelsAre DEF LevelTypes
<1>3. LevelTypes'
  BY <1>0, <1>1, <1>2 DEF LevelTypes, LevelPc
<1>4. WizardInv'
  BY <1>1 DEF WizardInv, SetupPc
<1>5. LoopInv'
  <2>1. l_pc' = "apply" /\ Steady' =>
           /\ volume # Zero /\ known' = volume
           /\ volume <= before' + (iter' - 1) * Goal
    <3>1. volume # Zero => volume <= volume + (1 - 1) * Goal
      BY <1>2, LevelsAre
    <3> QED
      BY <1>1, <3>1 DEF Steady
  <2>2. voice # Varies => peak = L!analyze(voice, volume)
    BY <1>0, <1>1 DEF LoopInv
  <2> QED
    BY <1>0, <1>1, <2>1, <2>2 DEF LoopInv
<1> QED
  BY <1>0, <1>1, <1>3, <1>4, <1>5, NotDone, NoResult DEF LevelInv

LEMMA SetStep == ASSUME LevelInv, L!SetVolume PROVE LevelInv'
<1>0. /\ LevelTypes /\ LoopInv /\ WizardInv /\ exit = "none" /\ l_result = "none"
      /\ volume \in Volumes /\ known \in Volumes /\ peak \in Bottom .. 0
  BY DEF LevelInv, LevelTypes, WizardInv, LoopInv, L!SetVolume
<1>1. /\ l_pc = "apply"
      /\ UNCHANGED <<cmd, voice, before, known, peak, iter, l_result, isDefault,
                     user, runs>>
      /\ \/ volume' = L!recommend_volume(known, peak) /\ l_pc' = "measure"
            /\ exit' = "none"
         \/ l_pc' = "idle" /\ exit' = "failed" /\ volume' = volume
  BY <1>0 DEF L!SetVolume, L!Exit, L!Goto
<1>2. volume' \in Volumes /\ (l_pc' = "measure" /\ known # Zero => volume' # Zero)
  <2>1. known = Zero => L!recommend_volume(known, peak) \in Volumes
    BY LevelsAre DEF L!recommend_volume
  <2>2. known # Zero => L!recommend_volume(known, peak) \in Volumes \ {Zero}
    BY <1>0, RecommendIs, LevelsAre
  <2> QED
    BY <1>0, <1>1, <2>1, <2>2
<1>3. LevelTypes'
  BY <1>0, <1>1, <1>2 DEF LevelTypes, LevelPc
<1>4. WizardInv'
  BY <1>1 DEF WizardInv, SetupPc
<1>5. ASSUME l_pc' = "measure", Steady, volume' # Goal - voice
      PROVE  /\ before + voice > (iter - 1) * (0 - Goal)
             /\ volume' <= before + iter * Goal
  <2>1. /\ voice \in Loudness /\ before \in Volumes \ {Zero} /\ volume # Zero
        /\ known = volume /\ volume <= before + (iter - 1) * Goal
        /\ peak = L!analyze(voice, volume) /\ Goal - voice \in Low .. 0
    BY <1>0, <1>1, <1>5, LevelsAre DEF Steady, LevelTypes, LoopInv
  <2>2. volume' = L!recommend_volume(volume, L!analyze(voice, volume))
    BY <1>1, <1>5, <2>1
  <2>3. voice + volume > 0 /\ volume' <= volume + Goal
    BY <1>0, <1>5, <2>1, <2>2, Corrected
  <2>4. /\ voice \in Int /\ volume \in Int /\ volume' \in Int /\ before \in Int
        /\ Goal \in Int /\ iter \in Int
    BY <1>0, <1>2, <1>5, <2>1, LevelsAre DEF LevelTypes
  <2>5. /\ iter * Goal = (iter - 1) * Goal + Goal
        /\ (iter - 1) * (0 - Goal) = 0 - (iter - 1) * Goal
    BY <2>4
  <2> DEFINE k == (iter - 1) * Goal
  <2>6. k \in Int
    BY <2>4
  <2>7. /\ iter * Goal = k + Goal /\ (iter - 1) * (0 - Goal) = 0 - k
        /\ volume <= before + k
    BY <2>1, <2>5
  <2> HIDE DEF k
  <2> QED
    BY <2>3, <2>4, <2>6, <2>7
<1>6. LoopInv'
  <2>1. Steady' <=> Steady
    BY <1>1 DEF Steady
  <2>2. l_pc' \in {"measure", "idle"} /\ iter' = iter /\ iter >= 1 /\ before' = before
        /\ voice' = voice /\ l_result' = "none"
    BY <1>0, <1>1 DEF LoopInv
  <2>3. l_pc' = "measure" /\ Steady => volume' # Zero
    BY <1>0, <1>1, <1>2 DEF LoopInv
  <2> QED
    BY <1>5, <2>1, <2>2, <2>3 DEF LoopInv
<1> QED
  BY <1>0, <1>1, <1>3, <1>4, <1>6, NotDone, NoResult DEF LevelInv

LEMMA MeasureStep == ASSUME LevelInv, L!Measure PROVE LevelInv'
<1>0. /\ LevelTypes /\ LoopInv /\ WizardInv /\ exit = "none" /\ l_result = "none"
      /\ volume \in Volumes /\ iter \in 0 .. MaxIterations /\ iter >= 1
      /\ iter \in Int /\ MaxIterations \in Int /\ cmd.kind \in {"meter", "calibrate", "setup"}
  BY LevelsAre, StoredIs DEF LevelInv, LevelTypes, WizardInv, LoopInv, L!Measure
<1>1. /\ l_pc = "measure" /\ known' = volume
      /\ UNCHANGED <<cmd, voice, volume, before, isDefault, user, runs>>
  BY DEF L!Measure, L!Believed
<1>2. Steady' <=> Steady
  BY <1>1 DEF Steady
<1>3. ASSUME l_pc' = "idle", exit' = "failed", UNCHANGED <<peak, iter, l_result>>
      PROVE  LevelInv'
  <2>1. LevelTypes'
    BY <1>0, <1>1, <1>3 DEF LevelTypes, LevelPc
  <2>2. WizardInv' /\ LoopInv'
    BY <1>0, <1>1, <1>3 DEF WizardInv, LoopInv, SetupPc
  <2> QED
    BY <1>0, <1>3, <2>1, <2>2, NotDone, NoResult DEF LevelInv
<1>4. ASSUME NEW p \in L!Measured, peak' = p,
             \/ /\ L!within_tolerance(p)
                /\ l_result' = "converged" /\ l_pc' = L!AfterLoop
                /\ UNCHANGED <<iter, exit>>
             \/ /\ ~L!within_tolerance(p) /\ volume = 0 /\ p < Goal
                /\ l_result' = "tooquiet" /\ l_pc' = "idle" /\ exit' = "failed"
                /\ UNCHANGED iter
             \/ /\ ~L!within_tolerance(p) /\ iter = MaxIterations
                /\ l_result' = "stopped" /\ l_pc' = L!AfterLoop
                /\ UNCHANGED <<iter, exit>>
             \/ /\ ~L!within_tolerance(p) /\ iter # MaxIterations
                /\ iter' = iter + 1 /\ l_pc' = "apply" /\ UNCHANGED <<l_result, exit>>
      PROVE  LevelInv'
  <2>1. p \in Bottom .. 0 /\ (voice # Varies => p = L!analyze(voice, volume))
    BY <1>0, <1>4, MeasuredIs
  <2>2. /\ L!AfterLoop \in {"prompts", "arguments"}
        /\ L!AfterLoop = "prompts" => cmd.kind = "setup"
        /\ L!AfterLoop = "arguments" => cmd.kind # "setup"
    BY DEF L!AfterLoop
  <2>3. iter' \in 0 .. MaxIterations /\ iter' >= 1
    BY <1>0, <1>4
  <2>4. LevelTypes'
    BY <1>0, <1>1, <1>4, <2>1, <2>2, <2>3 DEF LevelTypes, LevelPc
  <2>5. WizardInv'
    BY <1>0, <1>1, <1>4, <2>2 DEF WizardInv, SetupPc
  <2>6. exit' # "done"
    BY <1>0, <1>4
(* Had the volume been right, it would have been heard to be.              *)
  <2>7. Steady /\ ~L!within_tolerance(p) => volume # Goal - voice
    <3>1. Steady => volume \in Volumes \ {Zero} /\ voice \in Loudness /\ voice # Varies
      BY <1>0, <1>1, LevelsAre DEF Steady, LoopInv
    <3> QED
      BY <2>1, <3>1, RightIsHeard
  <2>8. Steady /\ ~L!within_tolerance(p) =>
           /\ before + voice > (iter - 1) * (0 - Goal)
           /\ volume <= before + iter * Goal
    BY <1>0, <1>1, <2>7 DEF LoopInv
  <2>9. LoopInv'
    <3>1. CASE l_pc' # "apply"
      BY <1>4, <2>2, <3>1 DEF LoopInv
    <3>2. CASE l_pc' = "apply"
      <4>1. ~L!within_tolerance(p) /\ iter' = iter + 1 /\ l_result' = "none"
        BY <1>0, <1>4, <2>2, <3>2
      <4>2. iter' - 1 = iter
        BY <1>0, <4>1
      <4>3. Steady => volume # Zero /\ volume <= before + (iter' - 1) * Goal
        BY <1>0, <1>1, <2>8, <4>1, <4>2 DEF LoopInv
      <4> QED
        BY <1>1, <1>2, <1>4, <2>1, <2>3, <3>2, <4>1, <4>3 DEF LoopInv
    <3> QED
      BY <3>1, <3>2
  <2>10. L!SteadyConverges'
    <3>1. CASE l_result' = "stopped"
      <4>1. ~L!within_tolerance(p) /\ iter = MaxIterations
        BY <1>0, <1>4, <3>1
      <4> QED
        BY <1>1, <2>8, <4>1 DEF L!SteadyConverges, Steady, L!MaxVolume
    <3>2. CASE l_result' = "tooquiet"
      <4>1. volume = 0 /\ p < Goal
        BY <1>0, <1>4, <3>2
      <4>2. voice \in Loudness => Goal - voice > 0
        <5>1. SUFFICES ASSUME voice \in Loudness PROVE Goal - voice > 0
          OBVIOUS
        <5>2. /\ voice \in Loudness /\ p = IF voice + 0 > 0 THEN 0 ELSE voice + 0
          <6>1. voice # Varies /\ 0 \in Volumes \ {Zero}
            BY <5>1, LevelsAre
          <6> QED
            BY <2>1, <4>1, <5>1, <6>1, AnalyzeIs
        <5>3. voice \in Int /\ Goal \in Int /\ Goal <= 0
          BY <5>2, LevelsAre
        <5> QED
          BY <4>1, <5>2, <5>3
      <4> QED
        BY <1>1, <4>2 DEF L!SteadyConverges, L!MaxVolume
    <3> QED
      BY <3>1, <3>2 DEF L!SteadyConverges
  <2>11. L!TooQuietIsTrue'
    <3>1. SUFFICES ASSUME l_result' = "tooquiet", voice' \in Loudness
                   PROVE  L!analyze(voice', 0) < Goal - Tolerance
      BY DEF L!TooQuietIsTrue, L!MaxVolume
    <3>2. ~L!within_tolerance(p) /\ volume = 0 /\ p < Goal
      BY <1>0, <1>4, <3>1
    <3>3. p = L!analyze(voice, 0)
      BY <1>1, <2>1, <3>1, <3>2, LevelsAre
    <3>4. p < Goal - Tolerance
      BY <2>1, <3>2, LevelsAre DEF L!within_tolerance, L!Distance
    <3> QED
      BY <1>1, <3>3, <3>4
  <2> QED
    BY <2>4, <2>5, <2>6, <2>9, <2>10, <2>11, NotDone DEF LevelInv
<1>5. ASSUME NEW p \in L!Measured, peak' = p,
             \/ /\ L!within_tolerance(p)
                /\ l_result' = "converged" /\ L!Goto(L!AfterLoop) /\ UNCHANGED iter
             \/ /\ ~L!within_tolerance(p) /\ L!AtCap /\ p < Goal
                /\ l_result' = "tooquiet" /\ L!Exit("failed") /\ UNCHANGED iter
             \/ /\ ~L!within_tolerance(p) /\ ~(L!AtCap /\ p < Goal)
                /\ IF iter = MaxIterations
                   THEN l_result' = "stopped" /\ L!Goto(L!AfterLoop) /\ UNCHANGED iter
                   ELSE iter' = iter + 1 /\ L!Goto("apply") /\ UNCHANGED l_result
      PROVE  LevelInv'
  BY <1>4, <1>5 DEF L!Goto, L!Exit, L!AtCap, L!MaxVolume
<1> QED
  BY <1>3, <1>5 DEF L!Measure, L!Exit

LEMMA PromptStep == ASSUME LevelInv, L!Prompts PROVE LevelInv'
<1>0. LevelTypes /\ WizardInv /\ exit = "none" /\ cmd \in L!Command
  BY DEF LevelInv, LevelTypes, WizardInv, L!Prompts
<1>1. /\ voice' = Varies /\ before' = Unread /\ known' = 0 /\ peak' = Bottom
      /\ iter' = 0 /\ l_result' = "none"
      /\ UNCHANGED <<volume, isDefault, user, runs, exit>>
  BY DEF L!Prompts, L!Forget, L!Goto, L!MaxVolume
<1>2. /\ cmd' \in L!Command /\ cmd'.kind = cmd.kind
      /\ \/ l_pc = "prompts" /\ l_pc' = "backend" /\ cmd'.name \in L!Names
         \/ l_pc = "arguments" /\ l_pc' = "default"
  <2>1. CASE l_pc = "prompts"
    <3>1. PICK n \in L!Names, o \in L!Live \union {"none"}, s \in BOOLEAN :
            cmd' = [cmd EXCEPT !.name = n, !.live = o, !.system = s]
      BY <2>1 DEF L!Prompts
    <3>2. l_pc' = "backend"
      BY <2>1 DEF L!Prompts, L!Goto
    <3> QED
      BY <1>0, <2>1, <3>1, <3>2 DEF L!Command
  <2>2. CASE l_pc # "prompts"
    <3>1. PICK n \in L!Names \union {Absent} : cmd' = [cmd EXCEPT !.name = n]
      BY <2>2 DEF L!Prompts
    <3>2. l_pc = "arguments" /\ l_pc' = "default"
      BY <2>2 DEF L!Prompts, L!Goto
    <3> QED
      BY <1>0, <3>1, <3>2 DEF L!Command
  <2> QED
    BY <2>1, <2>2
<1>3. 0 \in Volumes /\ Bottom \in Bottom .. 0 /\ 0 \in 0 .. MaxIterations
  BY LevelsAre
<1>4. LevelTypes'
  BY <1>0, <1>1, <1>2, <1>3 DEF LevelTypes, LevelPc
<1>5. WizardInv'
  BY <1>0, <1>1, <1>2 DEF WizardInv, SetupPc
<1>6. LoopInv'
  BY <1>2 DEF LoopInv
<1> QED
  BY <1>0, <1>1, <1>4, <1>5, <1>6, NotDone, NoResult DEF LevelInv

(* A step after the calibration that does not end the wizard: types and    *)
(* the wizard's own conjuncts are enough.                                  *)
LEMMA AfterLoopStep ==
    ASSUME LevelInv, l_pc \in {"backend", "confirm", "default", "sources", "outputs"},
           UNCHANGED <<cmd, runs>>, UNCHANGED L!level,
           l_pc' \in {"idle", "confirm", "default", "sources", "outputs"},
           exit' \in {"none", "ok", "failed", "refused", "aborted"},
           isDefault' \in BOOLEAN,
           user' \in [L!Names -> L!Profile \union {Absent}],
           WizardInv'
    PROVE  LevelInv'
<1>1. UNCHANGED <<voice, volume, before, known, peak, iter, l_result>>
  BY DEF L!level
<1>2. LevelTypes'
  BY <1>1 DEF LevelInv, LevelTypes, LevelPc
<1> QED
  BY <1>2, SameLevel, NotDone DEF LevelInv

LEMMA AskStep ==
    ASSUME LevelInv, L!CheckBackend \/ L!Confirm \/ L!MakeDefault
    PROVE  LevelInv'
<1>0. /\ LevelTypes /\ WizardInv /\ exit = "none"
      /\ l_pc \in {"backend", "confirm", "default"}
      /\ isDefault \in BOOLEAN /\ user \in [L!Names -> L!Profile \union {Absent}]
      /\ cmd.name \in L!Names \union {Absent}
  BY StoredIs
  DEF LevelInv, LevelTypes, WizardInv, L!CheckBackend, L!Confirm, L!MakeDefault
<1>1. /\ UNCHANGED <<cmd, user, runs>> /\ UNCHANGED L!level /\ isDefault' \in BOOLEAN
      /\ \/ l_pc' = "idle" /\ exit' \in {"ok", "failed", "refused", "aborted"}
         \/ /\ l_pc = "backend" /\ l_pc' = "confirm" /\ exit' = "none"
            /\ L!ensure_backend_compiled(cmd.name)
         \/ l_pc = "confirm" /\ l_pc' = "default" /\ exit' = "none"
         \/ /\ l_pc = "default" /\ l_pc' = "sources" /\ exit' = "none"
            /\ cmd.name # Absent
  <2>1. CASE L!CheckBackend
    BY <1>0, <2>1 DEF L!CheckBackend, L!Exit, L!Goto
  <2>2. CASE L!Confirm
    BY <1>0, <2>2 DEF L!Confirm, L!Exit, L!Goto
  <2>3. CASE L!MakeDefault
    BY <1>0, <2>3 DEF L!MakeDefault, L!Exit, L!Goto
  <2> QED
    BY <2>1, <2>2, <2>3
<1>2. L!ensure_backend_compiled(cmd.name) <=> L!ensure_backend_compiled(cmd.name)'
  BY <1>1 DEF L!ensure_backend_compiled, L!load
<1>3. WizardInv'
  BY <1>0, <1>1, <1>2 DEF WizardInv, SetupPc
<1> QED
  BY <1>0, <1>1, <1>3, AfterLoopStep

LEMMA SourcesStep == ASSUME LevelInv, L!WriteSources PROVE LevelInv'
<1>0. /\ LevelTypes /\ WizardInv /\ exit = "none" /\ l_pc = "sources"
      /\ user \in [L!Names -> L!Profile \union {Absent}] /\ isDefault \in BOOLEAN
      /\ cmd.name \in L!Names
  BY DEF LevelInv, LevelTypes, WizardInv, L!WriteSources
<1>1. UNCHANGED <<cmd, isDefault, runs>> /\ UNCHANGED L!level
  BY DEF L!WriteSources
<1> DEFINE n == cmd.name
<1>2. CASE /\ user[n] # Absent
           /\ user' = [user EXCEPT ![n] = L!update_sources(@)]
           /\ IF cmd.kind = "setup" THEN L!Goto("outputs") ELSE L!Exit("ok")
  <2>1. user[n] \in L!Profile /\ cmd \in L!Command
    BY <1>0, <1>2, StoredIs
  <2>2. PICK q \in L!Profile :
          /\ q = L!update_sources(user[n]) /\ q.mic
          /\ (cmd.kind = "setup" => q.system = cmd.system)
          /\ q.compiled = user[n].compiled
    BY <2>1, UpdateIs
  <2>3. user' = [user EXCEPT ![n] = q] /\ q # Absent
    BY <1>2, <2>2, StoredIs, <1>0
  <2>4. user' \in [L!Names -> L!Profile \union {Absent}] /\ user'[n] = q
    BY <1>0, <2>3
  <2>5. \/ cmd.kind = "setup" /\ l_pc' = "outputs" /\ exit' = "none"
        \/ cmd.kind # "setup" /\ l_pc' = "idle" /\ exit' = "ok"
    BY <1>0, <1>2 DEF L!Goto, L!Exit
  <2>6. /\ L!ensure_backend_compiled(n) <=> user[n].compiled
        /\ L!ensure_backend_compiled(n)' <=> user'[n].compiled
    BY <1>0, <1>1, <1>2, <2>1, <2>3, <2>4, StoredIs
    DEF L!ensure_backend_compiled, L!load
  <2>7. WizardInv'
    BY <1>0, <1>1, <2>2, <2>3, <2>4, <2>5, <2>6 DEF WizardInv, SetupPc
  <2> QED
    BY <1>0, <1>1, <2>4, <2>5, <2>7, AfterLoopStep
<1>3. CASE /\ user[n] = Absent /\ cmd.kind = "setup"
           /\ user' = [user EXCEPT ![n] = L!load("default")] /\ L!Goto("sources")
  <2>1. PICK q \in L!Profile : q = L!load("default") /\ q # Absent
    BY <1>0, StoredIs
  <2>2. user' = [user EXCEPT ![n] = q]
    BY <1>3, <2>1
  <2>3. user' \in [L!Names -> L!Profile \union {Absent}] /\ user'[n] = q
    BY <1>0, <2>2
  <2>4. l_pc' = "sources" /\ exit' = "none"
    BY <1>0, <1>3 DEF L!Goto
  <2>5. n \notin L!Shipped => /\ L!ensure_backend_compiled(n) <=> q.compiled
                              /\ L!ensure_backend_compiled(n)' <=> q.compiled
    <3>1. SUFFICES ASSUME n \notin L!Shipped
                   PROVE  /\ L!ensure_backend_compiled(n) <=> q.compiled
                          /\ L!ensure_backend_compiled(n)' <=> q.compiled
      OBVIOUS
    <3>2. L!load(n) = Absent
      BY <1>3, <3>1 DEF L!load
    <3>3. L!load(n)' = q
      BY <1>1, <2>1, <2>3 DEF L!load
    <3> QED
      BY <2>1, <3>2, <3>3 DEF L!ensure_backend_compiled
  <2>6. WizardInv'
    BY <1>0, <1>1, <1>3, <2>4, <2>5 DEF WizardInv, SetupPc
  <2> QED
    BY <1>0, <1>1, <2>3, <2>4, <2>6, AfterLoopStep
<1>4. CASE L!Exit("failed") /\ UNCHANGED user
  <2>1. l_pc' = "idle" /\ exit' = "failed"
    BY <1>4 DEF L!Exit
  <2>2. WizardInv'
    BY <2>1 DEF WizardInv, SetupPc
  <2> QED
    BY <1>0, <1>1, <1>4, <2>1, <2>2, AfterLoopStep
<1> QED
  BY <1>2, <1>3, <1>4 DEF L!WriteSources

LEMMA OutputsStep == ASSUME LevelInv, L!WriteOutputs PROVE LevelInv'
<1>0. /\ LevelTypes /\ WizardInv /\ exit = "none" /\ l_pc = "outputs"
      /\ user \in [L!Names -> L!Profile \union {Absent}] /\ isDefault \in BOOLEAN
      /\ cmd.name \in L!Names /\ cmd.kind = "setup"
      /\ user[cmd.name] # Absent /\ user[cmd.name].mic
      /\ user[cmd.name].system = cmd.system
      /\ cmd.name \in L!Shipped \/ L!ensure_backend_compiled(cmd.name)
  BY DEF LevelInv, LevelTypes, WizardInv, SetupPc, L!WriteOutputs
<1>1. UNCHANGED <<cmd, isDefault, runs>> /\ UNCHANGED L!level
  BY DEF L!WriteOutputs
<1> DEFINE n == cmd.name
<1>2. CASE L!Exit("failed") /\ UNCHANGED user
  <2>1. l_pc' = "idle" /\ exit' = "failed"
    BY <1>2 DEF L!Exit
  <2>2. WizardInv'
    BY <2>1 DEF WizardInv, SetupPc
  <2> QED
    BY <1>0, <1>1, <1>2, <2>1, <2>2, AfterLoopStep
<1>3. CASE user' = [user EXCEPT ![n] = L!write_outputs(@)] /\ L!Exit("done")
  <2>1. user[n] \in L!Profile /\ cmd \in L!Command
    BY <1>0, StoredIs
  <2>2. PICK q \in L!Profile :
          /\ q = L!write_outputs(user[n]) /\ q.mic = user[n].mic
          /\ q.system = user[n].system /\ q.compiled = user[n].compiled
          /\ (cmd.live # "none" => q.out[cmd.live] = 1)
    BY <2>1, OutputsIs
  <2>3. user' = [user EXCEPT ![n] = q] /\ q # Absent
    BY <1>0, <1>3, <2>2, StoredIs
  <2>4. user' \in [L!Names -> L!Profile \union {Absent}] /\ user'[n] = q
    BY <1>0, <2>3
  <2>5. l_pc' = "idle" /\ exit' = "done"
    BY <1>3 DEF L!Exit
  <2>6. UNCHANGED <<voice, volume, before, known, peak, iter, l_result>>
    BY <1>1 DEF L!level
  <2>7. LevelTypes'
    BY <1>0, <1>1, <2>4, <2>5, <2>6 DEF LevelTypes, LevelPc
  <2>8. WizardInv'
    BY <2>5 DEF WizardInv, SetupPc
  <2>9. L!DoneMatchesChoice'
    BY <1>0, <1>1, <2>2, <2>3, <2>4 DEF L!DoneMatchesChoice
  <2>10. L!DoneIsRunnable'
    <3>1. L!ensure_backend_compiled(n) <=> user[n].compiled
      BY <1>0 DEF L!ensure_backend_compiled, L!load
    <3> QED
      BY <1>0, <1>1, <2>2, <2>4, <3>1 DEF L!DoneIsRunnable
  <2> QED
    BY <1>1, <2>5, <2>7, <2>8, <2>9, <2>10, SameLevel DEF LevelInv
<1> QED
  BY <1>2, <1>3 DEF L!WriteOutputs

LEMMA LevelStep == LevelInv /\ [L!Next]_(L!vars) => LevelInv'
<1> SUFFICES ASSUME LevelInv, [L!Next]_(L!vars) PROVE LevelInv'
  OBVIOUS
<1>1. CASE UNCHANGED L!vars
  <2>1. /\ UNCHANGED <<l_pc, cmd, voice, volume, before, known, peak, iter, l_result,
                       isDefault, user, exit, runs>>
        /\ UNCHANGED L!level
    BY <1>1 DEF L!vars, L!level
  <2>2. LevelTypes' /\ LoopInv'
    BY <2>1, SameLevel DEF LevelInv, LevelTypes
  <2>3. WizardInv' /\ L!DoneMatchesChoice' /\ L!DoneIsRunnable'
    BY <2>1
    DEF LevelInv, WizardInv, L!ensure_backend_compiled, L!load,
        L!DoneMatchesChoice, L!DoneIsRunnable
  <2> QED
    BY <2>1, <2>2, <2>3, SameLevel DEF LevelInv
<1> QED
  BY <1>1, InvokeStep, ListenStep, ReadStep, SetStep, MeasureStep, PromptStep,
     AskStep, SourcesStep, OutputsStep DEF L!Next, L!Step

LEMMA LevelKept == LevelInv =>
    /\ L!TypeOK /\ L!SteadyConverges /\ L!TooQuietIsTrue
    /\ L!DoneMatchesChoice /\ L!DoneIsRunnable
<1> SUFFICES ASSUME LevelInv PROVE L!TypeOK
  BY DEF LevelInv
<1>1. LevelTypes
  BY DEF LevelInv
<1>2. \A n \in L!Names : user[n] = Absent \/ user[n] \in L!Profile
  BY <1>1, StoredIs
<1> QED
  BY <1>1, <1>2 DEF LevelTypes, L!TypeOK, LevelPc, Volumes, L!MaxVolume

(* What a step may do to the profiles.                                     *)
LEMMA GrowStep ==
    ASSUME LevelInv, [L!Next]_(L!vars), user' # user,
           NEW n \in L!Names, user[n] # Absent
    PROVE  /\ user'[n] # Absent /\ user'[n].compiled = user[n].compiled
           /\ \A o \in L!Live : user'[n].out[o] >= user[n].out[o]
<1>0. /\ LevelTypes /\ user \in [L!Names -> L!Profile \union {Absent}]
      /\ cmd \in L!Command /\ user[n] \in L!Profile
      /\ \A o \in L!Live : user[n].out[o] \in 0 .. 1
  <2>1. LevelTypes
    BY DEF LevelInv
  <2>2. user[n] \in L!Profile
    BY <2>1, StoredIs
  <2>3. \A o \in L!Live : user[n].out[o] \in 0 .. 1
    BY <2>2 DEF L!Profile
  <2> QED
    BY <2>1, <2>2, <2>3 DEF LevelTypes
<1>1. /\ L!update_sources(user[n]) # Absent
      /\ L!update_sources(user[n]).compiled = user[n].compiled
      /\ L!update_sources(user[n]).out = user[n].out
  BY <1>0, UpdateIs, StoredIs
<1>2. /\ L!write_outputs(user[n]) # Absent
      /\ L!write_outputs(user[n]).compiled = user[n].compiled
      /\ \A o \in L!Live : L!write_outputs(user[n]).out[o] >= user[n].out[o]
  BY <1>0, OutputsIs, StoredIs
<1>3. L!WriteSources \/ L!WriteOutputs
  BY DEF L!Next, L!Step, L!vars, L!Invoke, L!Listen, L!Speech, L!ReadVolume,
         L!SetVolume, L!Measure, L!Prompts, L!CheckBackend, L!Confirm,
         L!MakeDefault, L!Interrupt
<1>4. user'[n] \in {user[n], L!update_sources(user[n]), L!write_outputs(user[n])}
  <2>1. CASE L!WriteSources
    BY <1>0, <2>1 DEF L!WriteSources
  <2>2. CASE L!WriteOutputs
    BY <1>0, <2>2 DEF L!WriteOutputs
  <2> QED
    BY <1>3, <2>1, <2>2
<1> QED
  BY <1>0, <1>1, <1>2, <1>4

-----------------------------------------------------------------------------
(* The parts together *)

Inv == TranscriptionInv /\ ModelInv /\ BundleInv /\ LevelInv

(* A part that does not run leaves its variables alone.                    *)
LEMMA PartSteps ==
    ASSUME [Next]_vars
    PROVE  /\ [T!Next]_(T!vars) /\ [M!Next]_(M!vars)
           /\ [B!Next]_(B!vars) /\ [L!Next]_(L!vars)
           /\ part' = part
<1>1. /\ T!Next \/ UNCHANGED tvars
      /\ M!Next \/ UNCHANGED mvars
      /\ B!Next \/ UNCHANGED bvars
      /\ L!Next \/ UNCHANGED lvars
      /\ part' = part
  BY DEF Next, vars
<1>2. /\ UNCHANGED tvars => UNCHANGED T!vars
      /\ UNCHANGED mvars => UNCHANGED M!vars
      /\ UNCHANGED bvars => UNCHANGED B!vars
      /\ UNCHANGED lvars => UNCHANGED L!vars
  BY DEF tvars, mvars, bvars, lvars, T!vars, M!vars, M!disk, M!tasks, M!row,
         B!vars, L!vars
<1> QED
  BY <1>1, <1>2

LEMMA InvHolds == Spec => []Inv
<1>1. Init => Inv
  BY TranscriptionInit, ModelInit, BundleInit, LevelInit DEF Init, Inv
<1>2. Inv /\ [Next]_vars => Inv'
  BY PartSteps, TranscriptionStep, ModelStep, BundleStep, LevelStep DEF Inv
<1> QED
  BY <1>1, <1>2, PTL DEF Spec

(* A run of a backend that reports success left both artifacts whole, one  *)
(* that got no transcript leaves an earlier one alone, files that are      *)
(* renamed into place are never torn, retries are warranted and within     *)
(* the budget, no whisper-cli outlives its job, and the input that was     *)
(* chosen can be produced: whatever the server, the child and the disk do, *)
(* for any budget and any number of retries (coordinator.rs,               *)
(* whisper_cpp.rs, deepgram.rs, parakeet.rs).                              *)
THEOREM TranscriptionIsWhole == Spec => []TranscriptionHolds
<1>1. Inv => TranscriptionHolds
  BY TranscriptionKept DEF Inv, TranscriptionHolds
<1> QED
  BY <1>1, InvHolds, PTL

(* What lies under a model's final name was verified, over any number of   *)
(* crashes, resumed and overlapping downloads, unless the one that put it  *)
(* there overlapped another one; the idle row tells the truth, and a       *)
(* bundle that counts as installed is verified file by file, whatever the  *)
(* archive says of its sizes (download.rs, model_management.rs,            *)
(* bundle_download.rs, archive_extract.rs, model.rs).                      *)
THEOREM ModelsAreVerified == Spec => []ModelsHold
<1>1. Inv => ModelsHold
  BY ModelKept, BundleKept DEF Inv, ModelsHold
<1> QED
  BY <1>1, InvHolds, PTL

(* The calibration of a steady voice on an unmuted source ends converged   *)
(* where that is possible within the iterations and it did not start at 0, *)
(* nobody is told to be too quiet who is not, or muted, and what a finished*)
(* wizard stored is what was chosen, with a backend the build has          *)
(* (audio.rs, level.rs).                                                   *)
THEOREM LevelsAreTrue == Spec => []LevelsHold
<1>1. Inv => LevelsHold
  BY LevelKept DEF Inv, LevelsHold
<1> QED
  BY <1>1, InvHolds, PTL

(* A whisper.cpp run returns through its log, a bundle's final path is     *)
(* touched only with a complete new one beside it, and the wizard only adds*)
(* to a profile (whisper_cpp.rs, bundle_download.rs, audio.rs).            *)
THEOREM StepsAreKept == Spec => StepsKeep
<1> DEFINE Logged == job.backend = "whisper-cpp" /\ pc # "idle" /\ pc' = "idle"
                     /\ outcome' \notin {"cancelled", "killed"} => pc = "log"
           Waits == b_final' # b_final \/ place' # place =>
                       /\ b_pc \in {"remove", "rename"}
                       /\ B!missing_files(staging) = {}
           Grows == \A n \in L!Names : user[n] # Absent =>
                       /\ user'[n] # Absent /\ user'[n].compiled = user[n].compiled
                       /\ \A o \in L!Live : user'[n].out[o] >= user[n].out[o]
<1>1. Inv /\ [Next]_vars => [Logged]_(T!vars)
  BY PartSteps, LogStep DEF Inv
<1>2. Inv /\ [Next]_vars => [Waits]_(B!vars)
  BY PartSteps, SwapIsLast DEF Inv
<1>3. Inv /\ [Next]_vars => [Grows]_user
  BY PartSteps, GrowStep DEF Inv
<1> HIDE DEF Logged, Waits, Grows
<1>4. Spec => [][Logged]_(T!vars) /\ [][Waits]_(B!vars) /\ [][Grows]_user
  BY <1>1, <1>2, <1>3, InvHolds, PTL DEF Spec
<1> QED
  BY <1>4 DEF StepsKeep, T!LogBeforeReturn, B!FinalWaitsForStaging,
              L!OverridesOnlyGrow, Logged, Waits, Grows
=============================================================================
