---------------------------- MODULE Transcription ----------------------------
(***************************************************************************)
(* One audio file transcribed again and again by one process: the          *)
(* coordinator of zwhisper-core/transcribe and the backends whisper_cpp,   *)
(* deepgram and parakeet.  Between two awaits a run is one step; at every  *)
(* await the job queue may drop it (Cancel) or the process may be killed.  *)
(*                                                                         *)
(* Time runs only while an HTTP attempt or its backoff is pending; a tick  *)
(* is the unit of Budget, ClientTimeout and the delays.  A file write that *)
(* was begun goes to the blocking pool: a run dropped there leaves the     *)
(* file as it was or written, and, where it is written in place, torn.     *)
(* What the pool makes of it is settled when the run is dropped.           *)
(***************************************************************************)
EXTENDS Integers

CONSTANTS
    Runs,           \* transcriptions of the file (bound)
    MaxRetries,     \* DeepgramSettings::max_retries
    Budget,         \* retry_total_budget_s, in ticks
    ClientTimeout,  \* timeout_s, in ticks
    RetryAfters,    \* values of Retry-After a server may send, in ticks
    RetryAfterMax,  \* RETRY_AFTER_MAX_S, in ticks
    BackoffCap      \* BACKOFF_CAP_MS, in ticks

VARIABLES
    run,        \* number of the run, 0 before the first
    job,        \* backend, model and audio of the run
    pc,         \* where the run awaits; "idle" between runs
    outcome,    \* how the run ended, or what it will report once logged
    input,      \* audio representation the coordinator chose
    children,   \* runs whose whisper-cli is alive
    workers,    \* runs whose Parakeet inference occupies the blocking pool
    killed,     \* runs whose process was killed
    txt, json,  \* run that wrote <audio>.txt, <audio>.json; 0: nobody
    torn,       \* those of the two that were truncated and not written out
    http,       \* attempts, elapsed ticks, deadline of what is pending and
                \* the last answer of post_with_retry
    logged,     \* lines the run appended to transcribe.log
    computed,   \* history: runs whose backend produced a transcript
    renaming    \* history: runs that rename their files into place

vars == <<run, job, pc, outcome, input, children, workers, killed, txt, json,
          torn, http, logged, computed, renaming>>
files == <<txt, json, torn>>
procs == <<children, workers, killed>>

Backend == {"whisper-cpp", "deepgram", "parakeet", "openai"}
Pcm == {"InMemory", "Chunked", "DecodeFromArtifact", "Unavailable"}
Kind == {"single-file", "directory-bundle", "remote"}

(* Whether the build has the backend, its model is known and installed, the*)
(* source of PCM, whether its rate is the one the model wants, and whether *)
(* the temporary directory is on another file system than the audio.  What *)
(* only one backend looks at is fixed for the others.                      *)
Job == {j \in [backend : Backend, compiled : BOOLEAN, known : BOOLEAN,
               present : BOOLEAN, pcm : Pcm, rate : BOOLEAN, far : BOOLEAN] :
          /\ j.backend # "parakeet" =>
                j.compiled /\ j.rate /\ j.pcm = "DecodeFromArtifact"
          /\ j.far => j.backend = "whisper-cpp"}

NoHttp == [attempt |-> 0, elapsed |-> 0, until |-> 0, last |-> "none"]

-----------------------------------------------------------------------------
(* The coordinator *)

Accepts(b) ==
    CASE b = "whisper-cpp" -> [input |-> {"EncodedFile"}, kind |-> "single-file"]
      [] b = "deepgram"    -> [input |-> {"EncodedFile"}, kind |-> "remote"]
      [] OTHER             -> [input |-> {"PcmBuffer", "PcmChunks"},
                               kind |-> "directory-bundle"]
Preferred(b) == IF b = "parakeet" THEN "PcmBuffer" ELSE "EncodedFile"

build_backend(j) ==
    IF j.backend = "openai" THEN "BackendUnsupported"
    ELSE IF j.backend = "parakeet" /\ ~j.compiled THEN "BackendNotCompiled"
    ELSE "ok"

(* A model the registry knows is looked up where its kind is installed; an *)
(* unknown one is passed through to a remote backend, and whisper.cpp      *)
(* looks for a file of that name.                                          *)
resolve_model_artifact(j) ==
    CASE j.backend = "deepgram" -> "remote"
      [] j.backend = "whisper-cpp" /\ j.present -> "single-file"
      [] j.backend = "parakeet" /\ j.known /\ j.present -> "directory-bundle"
      [] j.backend = "parakeet" /\ j.known /\ ~j.present -> "ModelBundleIncomplete"
      [] OTHER -> "ModelNotFound"

(* Mutant: the source is not asked for PCM.                                 *)
ProducesPcmAlways(pcm) == TRUE
ProducesPcm(pcm) == pcm # "Unavailable"

choose_audio_input(b, pcm) ==
    LET accepted == Accepts(b).input IN
    IF Preferred(b) = "EncodedFile" /\ "EncodedFile" \in accepted THEN "EncodedFile"
    ELSE IF accepted \intersect {"PcmBuffer", "PcmChunks"} # {} /\ ProducesPcm(pcm)
    THEN IF Preferred(b) = "PcmChunks" THEN "PcmChunks" ELSE "PcmBuffer"
    ELSE IF "EncodedFile" \in accepted THEN "EncodedFile"
    ELSE "none"

(* What transcribe_source returns before it calls the backend, or "ok".    *)
Refusal(j) ==
    LET model == resolve_model_artifact(j)
        chosen == choose_audio_input(j.backend, j.pcm) IN
    IF build_backend(j) # "ok" THEN build_backend(j)
    ELSE IF model \notin Kind THEN model
    ELSE IF model # Accepts(j.backend).kind THEN "UnsupportedModelKind"
    ELSE IF chosen = "none" THEN "UnsupportedAudioInput"
    ELSE IF chosen # "EncodedFile" /\ j.known /\ ~j.rate THEN "AsrRateMismatch"
    ELSE "ok"

Init ==
    /\ run = 0 /\ job = [backend |-> "openai", compiled |-> TRUE,
         known |-> FALSE, present |-> FALSE, pcm |-> "DecodeFromArtifact", rate |-> TRUE,
         far |-> FALSE]
    /\ pc = "idle" /\ outcome = "none" /\ input = "none"
    /\ children = {} /\ workers = {} /\ killed = {}
    /\ txt = 0 /\ json = 0 /\ torn = {} /\ http = NoHttp /\ logged = 0
    /\ computed = {} /\ renaming = {}

(* Mutant: the files are always copied out of the temporary directory.     *)
WritesAlwaysInPlace(j) == TRUE
(* tokio::fs::write, or the copy where a rename crosses file systems:      *)
(* truncate, then write.                                                   *)
WritesInPlace(j) == j.backend # "whisper-cpp" \/ j.far

Transcribe(j) ==
    /\ pc = "idle" /\ run < Runs
    /\ run' = run + 1 /\ job' = j
    /\ renaming' = renaming \union
         (IF j.backend = "whisper-cpp" /\ ~j.far THEN {run + 1} ELSE {})
    /\ http' = NoHttp /\ logged' = 0
    /\ LET r == Refusal(j) IN
         IF r # "ok"
         THEN /\ outcome' = r
              /\ input' = "none"
              /\ UNCHANGED pc
         ELSE /\ outcome' = "none"
              /\ input' = choose_audio_input(j.backend, j.pcm)
              /\ pc' = CASE j.backend = "whisper-cpp" -> "canonicalize"
                         [] j.backend = "deepgram" -> "metadata"
                         [] j.backend = "parakeet" -> "collect"
    /\ UNCHANGED <<procs, files, computed>>

(* The backend returns.                                                    *)
Return(o) == pc' = "idle" /\ outcome' = o
Unmoved == UNCHANGED <<run, job, input, renaming>>

-----------------------------------------------------------------------------
(* whisper.cpp: every way out passes write_backtest_log, which awaits and  *)
(* ignores its own failures.                                               *)

Log(o) == pc' = "log" /\ outcome' = o

Canonicalize ==
    /\ pc = "canonicalize"
    /\ \/ pc' = "prepare" /\ UNCHANGED outcome
       \/ Log("InputAudio")
    /\ Unmoved /\ UNCHANGED <<procs, files, http, logged, computed>>

(* Mutant: a failed spawn returns without a log line, as the checks of the *)
(* other backends do.                                                      *)
PrepareUnlogged ==
    /\ pc = "prepare"
    /\ \/ Return("BackendSpawn") /\ UNCHANGED children
       \/ /\ pc' = "running"
          /\ children' = children \union {run}
          /\ UNCHANGED outcome
    /\ Unmoved /\ UNCHANGED <<workers, killed, files, http, logged, computed>>

(* Binary, temporary directory, settings; then the child is spawned.       *)
Prepare ==
    /\ pc = "prepare"
    /\ \/ \E o \in {"BackendUnavailable", "OutputUnreadable",
                    "InvalidBackendOption", "BackendSpawn"} :
             Log(o) /\ UNCHANGED children
       \/ /\ pc' = "running"
          /\ children' = children \union {run}
          /\ UNCHANGED outcome
    /\ Unmoved /\ UNCHANGED <<workers, killed, files, http, logged, computed>>

(* Mutant: whisper-cli writes next to the audio file, not into a temporary *)
(* directory.                                                              *)
ChildExitsInPlace ==
    /\ pc = "running" /\ run \in children
    /\ children' = children \ {run}
    /\ txt' = run /\ UNCHANGED torn
    /\ \/ Log("BackendExitedNonZero") /\ UNCHANGED computed
       \/ /\ pc' = "txt" /\ computed' = computed \union {run}
          /\ UNCHANGED outcome
    /\ Unmoved /\ UNCHANGED <<workers, killed, json, http, logged>>

(* The child exits: with an error, without its two files in the temporary  *)
(* directory, or with them.                                                *)
ChildExits ==
    /\ pc = "running" /\ run \in children
    /\ children' = children \ {run}
    /\ \/ /\ \E o \in {"BackendExitedNonZero", "OutputMissing"} : Log(o)
          /\ UNCHANGED computed
       \/ /\ pc' = "txt"
          /\ computed' = computed \union {run}
          /\ UNCHANGED outcome
    /\ Unmoved /\ UNCHANGED <<workers, killed, files, http, logged>>

OrphanExits ==
    /\ \E r \in children \intersect killed : children' = children \ {r}
    /\ Unmoved
    /\ UNCHANGED <<pc, outcome, workers, killed, files, http, logged, computed>>

WriteLog ==
    /\ pc = "log"
    /\ pc' = "idle"
    /\ logged' \in {logged, logged + 1}
    /\ Unmoved /\ UNCHANGED <<outcome, procs, files, http, computed>>

-----------------------------------------------------------------------------
(* The two artifacts: move_or_copy from the temporary directory for        *)
(* whisper.cpp, write_text and write_json for the others.                  *)

(* whisper.cpp logs before it returns.                                     *)
Leave(o) == IF job.backend = "whisper-cpp" THEN Log(o) ELSE Return(o)
Unwritable == IF job.backend = "whisper-cpp" THEN "OutputUnreadable" ELSE "ArtifactWrite"

(* The file under way is written out, or the write ends in the middle.     *)
Written ==
    \/ pc = "txt" /\ txt' = run /\ torn' = torn \ {"txt"} /\ UNCHANGED json
    \/ pc = "json" /\ json' = run /\ torn' = torn \ {"json"} /\ UNCHANGED txt
Tears ==
    /\ WritesInPlace(job)
    /\ \/ pc = "txt" /\ txt' = run /\ torn' = torn \union {"txt"} /\ UNCHANGED json
       \/ pc = "json" /\ json' = run /\ torn' = torn \union {"json"} /\ UNCHANGED txt

WriteTxt ==
    /\ pc = "txt"
    /\ \/ Written /\ pc' = "json" /\ UNCHANGED outcome
       \/ Leave(Unwritable) /\ (Tears \/ UNCHANGED files)
    /\ Unmoved /\ UNCHANGED <<procs, http, logged, computed>>

(* Mutant: a failed write of the json is ignored.                          *)
WriteJsonIgnored ==
    /\ pc = "json"
    /\ Leave("ok") /\ (Written \/ Tears \/ UNCHANGED files)
    /\ Unmoved /\ UNCHANGED <<procs, http, logged, computed>>

WriteJson ==
    /\ pc = "json"
    /\ \/ Written /\ Leave("ok")
       \/ Leave(Unwritable) /\ (Tears \/ UNCHANGED files)
    /\ Unmoved /\ UNCHANGED <<procs, http, logged, computed>>

-----------------------------------------------------------------------------
(* Deepgram *)

(* The key, the audio's metadata, the base URL and the headers.            *)
CheckAudio ==
    /\ pc = "metadata"
    /\ \/ pc' = "attempt" /\ UNCHANGED outcome
       \/ \E o \in {"BackendKeyMissing", "InputAudio", "BackendConfig"} : Return(o)
    /\ Unmoved /\ UNCHANGED <<procs, files, http, logged, computed>>

Lesser(a, b) == IF a < b THEN a ELSE b

(* An attempt is cut off by the client's timeout and by what is left of    *)
(* the budget.                                                             *)
Deadline(elapsed) == Lesser(elapsed + ClientTimeout, Budget)

(* Mutant: the attempts are not counted.                                   *)
StartAttemptUncounted ==
    /\ pc = "attempt" /\ http.elapsed < Budget
    /\ pc' = "sent" /\ UNCHANGED outcome
    /\ http' = [http EXCEPT !.attempt = 1, !.until = Deadline(http.elapsed)]
    /\ Unmoved /\ UNCHANGED <<procs, files, logged, computed>>

StartAttempt ==
    /\ pc = "attempt"
    /\ \/ /\ http.elapsed >= Budget
          /\ Return("BackendTimeout") /\ UNCHANGED http
       \/ /\ http.elapsed < Budget
          /\ Return("InputAudio") /\ UNCHANGED http
       \/ /\ http.elapsed < Budget
          /\ pc' = "sent" /\ UNCHANGED outcome
          /\ http' = [http EXCEPT !.attempt = @ + 1, !.until = Deadline(http.elapsed)]
    /\ Unmoved /\ UNCHANGED <<procs, files, logged, computed>>

Tick ==
    /\ pc \in {"sent", "sleep"} /\ http.elapsed < http.until
    /\ http' = [http EXCEPT !.elapsed = @ + 1]
    /\ Unmoved /\ UNCHANGED <<pc, outcome, procs, files, logged, computed>>

Statuses == {"success", "401", "402", "429", "503"}
Transport == {"connect", "timeout", "reset"}
status_is_retryable(s) == s \in {"429", "503", "connect", "timeout"}

(* The error the caller sees when no retry follows.                        *)
classify_http_error(s) ==
    CASE s = "401" -> "BackendAuth"
      [] s \in {"402", "429"} -> "BackendQuota"
      [] s = "timeout" -> "BackendTimeout"
      [] s \in {"connect", "reset"} -> "BackendNetwork"
      [] OTHER -> "BackendBadResponse"

(* 2^(attempt-1) units, capped, plus jitter of at most one tick; the       *)
(* server's wish goes first, capped as well.                               *)
NoHint == -1
Doubling == <<1, 2, 4, 8, 16>>
backoff_delay(attempt, after) ==
    IF after # NoHint THEN {Lesser(after, RetryAfterMax)}
    ELSE LET base == Lesser(Doubling[Lesser(attempt, 5)], BackoffCap) IN {base, base + 1}

(* Mutant: every failure is retried.                                       *)
MayRetryAny(s) == http.attempt < MaxRetries + 1
MayRetry(s) == status_is_retryable(s) /\ http.attempt < MaxRetries + 1

(* Mutant: the delay is not held against the budget.                       *)
RetryOrReturnLate(s, after) ==
    IF MayRetry(s)
    THEN \E d \in backoff_delay(http.attempt, after) :
           /\ pc' = "sleep" /\ UNCHANGED outcome
           /\ http' = [http EXCEPT !.until = http.elapsed + d, !.last = s]
    ELSE Return(classify_http_error(s)) /\ UNCHANGED http

(* A failed attempt: sleep if the delay fits into the budget, else return. *)
RetryOrReturn(s, after) ==
    IF MayRetry(s)
    THEN \E d \in backoff_delay(http.attempt, after) :
           IF d >= Budget - http.elapsed
           THEN /\ Return(IF s \in Transport THEN "BackendTimeout"
                          ELSE classify_http_error(s))
                /\ UNCHANGED http
           ELSE /\ pc' = "sleep" /\ UNCHANGED outcome
                /\ http' = [http EXCEPT !.until = http.elapsed + d, !.last = s]
    ELSE Return(classify_http_error(s)) /\ UNCHANGED http

Answer(s, after) ==
    /\ pc = "sent"
    /\ s # "timeout" \/ http.elapsed = http.until
    /\ IF s = "success"
       THEN \/ /\ pc' = "txt" /\ UNCHANGED <<outcome, http>>
               /\ computed' = computed \union {run}
            \/ /\ Return("BackendJsonShape")
               /\ UNCHANGED <<http, computed>>
       ELSE RetryOrReturn(s, after) /\ UNCHANGED computed
    /\ Unmoved /\ UNCHANGED <<procs, files, logged>>

Answers ==
    \/ \E s \in Statuses : Answer(s, NoHint)
    \/ \E s \in {"429", "503"}, a \in RetryAfters : Answer(s, a)
    \/ \E s \in Transport : Answer(s, NoHint)

(* tokio::time::timeout over the attempt: the budget is spent.             *)
BudgetEnds ==
    /\ pc = "sent" /\ http.elapsed = Budget
    /\ Return("BackendTimeout")
    /\ Unmoved /\ UNCHANGED <<procs, files, http, logged, computed>>

WakeUp ==
    /\ pc = "sleep" /\ http.elapsed = http.until
    /\ pc' = "attempt"
    /\ Unmoved /\ UNCHANGED <<outcome, procs, files, http, logged, computed>>

-----------------------------------------------------------------------------
(* Parakeet *)

(* The samples are in memory, or drained from a source, or decoded; then   *)
(* the inference is handed to the blocking pool.                           *)
Collect ==
    /\ pc = "collect"
    /\ \/ /\ job.pcm # "Unavailable"
          /\ pc' = "infer" /\ workers' = workers \union {run}
          /\ UNCHANGED outcome
       \/ /\ job.pcm # "InMemory"
          /\ Return(CASE job.pcm = "Unavailable" -> "UnsupportedAudioInput"
                      [] job.pcm = "DecodeFromArtifact" -> "AudioDecode"
                      [] job.pcm = "Chunked" -> "PcmSource")
          /\ UNCHANGED workers
    /\ Unmoved /\ UNCHANGED <<children, killed, files, http, logged, computed>>

(* An inference ends; the run that awaits it, if there still is one, goes  *)
(* on.                                                                     *)
InferenceEnds(r) ==
    /\ r \in workers
    /\ workers' = workers \ {r}
    /\ IF pc = "infer" /\ r = run
       THEN \/ /\ pc' = "txt" /\ computed' = computed \union {run}
               /\ UNCHANGED outcome
            \/ /\ \E o \in {"AudioDecode", "PcmSource"} : Return(o)
               /\ UNCHANGED computed
       ELSE UNCHANGED <<pc, outcome, computed>>
    /\ Unmoved /\ UNCHANGED <<children, killed, files, http, logged>>

-----------------------------------------------------------------------------
(* The run is dropped, or its process dies *)

WrittenAnyway == Written \/ Tears \/ UNCHANGED files

(* Mutant: the child is not killed when the run is dropped.                *)
CancelLeavesChild ==
    /\ pc # "idle"
    /\ Return("cancelled")
    /\ WrittenAnyway
    /\ Unmoved /\ UNCHANGED <<procs, http, logged, computed>>

(* kill_on_drop ends the child; a blocking task cannot be dropped.         *)
Cancel ==
    /\ pc # "idle"
    /\ Return("cancelled")
    /\ children' = children \ {run}
    /\ WrittenAnyway
    /\ Unmoved /\ UNCHANGED <<workers, killed, http, logged, computed>>

(* The child leads a process group of its own and outlives the process.    *)
Kill ==
    /\ pc # "idle"
    /\ Return("killed")
    /\ killed' = killed \union {run}
    /\ workers' = {}
    /\ WrittenAnyway
    /\ Unmoved /\ UNCHANGED <<children, http, logged, computed>>

Step ==
    \/ Canonicalize \/ Prepare \/ WriteLog
    \/ WriteTxt \/ WriteJson
    \/ CheckAudio \/ StartAttempt \/ Answers \/ Tick \/ BudgetEnds \/ WakeUp
    \/ Collect

Next ==
    \/ Step
    \/ ChildExits \/ OrphanExits
    \/ \E r \in 1 .. Runs : InferenceEnds(r)
    \/ Cancel \/ Kill
    \/ \E j \in Job : Transcribe(j)

(* The runtime polls what can run and its timers fire; nothing says that a *)
(* child exits, an inference ends or anyone cancels.                       *)
Fairness == WF_vars(Step)

Spec == Init /\ [][Next]_vars /\ Fairness

-----------------------------------------------------------------------------
(* Properties *)

Awaits == {"idle", "canonicalize", "prepare", "running", "log", "txt", "json",
           "metadata", "attempt", "sent", "sleep", "collect", "infer"}
(* Every variable stays in its type.                                      *)
TypeOK ==
    /\ run \in 0 .. Runs /\ job \in Job /\ pc \in Awaits
    /\ input \in {"none", "EncodedFile", "PcmBuffer", "PcmChunks"}
    /\ {txt, json} \subseteq 0 .. Runs /\ torn \subseteq {"txt", "json"}
    /\ children \union workers \union killed \union computed \union renaming
         \subseteq 1 .. Runs
    /\ http.attempt \in 0 .. MaxRetries + 1 /\ {http.elapsed, http.until} \subseteq Nat
    /\ logged \in 0 .. 1

(* A run that reports success left both artifacts, and they are whole and  *)
(* its own (they are written one after the other, and each write may fail  *)
(* or be dropped in between).                                              *)
OkHasBothArtifacts ==
    outcome = "ok" /\ pc = "idle" => txt = run /\ json = run /\ torn = {}

(* A transcript file is only touched once a backend has produced a         *)
(* transcript to the end: a run that fails, is cancelled or is killed      *)
(* earlier leaves that of an earlier run alone.  A file that is torn was   *)
(* written in place (deepgram, parakeet, a copy across file systems); a    *)
(* whisper.cpp run that renames leaves the old file or the new one.        *)
NoTornTranscript ==
    /\ {txt, json} \subseteq computed \union {0}
    /\ "txt" \in torn => txt \notin renaming
    /\ "json" \in torn => json \notin renaming

(* The wall clock bounds the upload, its retries and their backoff, also   *)
(* when the server hangs or asks for a long pause (deepgram.rs, "Bounded   *)
(* BOTH by attempt count AND by total wall-clock").                        *)
WithinBudget == http.elapsed <= Budget /\ http.until <= Budget

(* Every request but the first answers a transient failure.                *)
RetriesAreWarranted ==
    http.attempt > 1 \/ pc = "sleep" => status_is_retryable(http.last)

(* A whisper-cli runs only for the run that awaits it, unless its process  *)
(* was killed: a cancelled job leaves no child behind.                     *)
NoStrayChild ==
    \A r \in children : r \in killed \/ (r = run /\ pc = "running")

(* A whisper.cpp run that went as far as the backend returns only through  *)
(* the log.                                                                *)
LogBeforeReturn ==
    [][ job.backend = "whisper-cpp" /\ pc # "idle" /\ pc' = "idle"
        /\ outcome' \notin {"cancelled", "killed"} => pc = "log" ]_vars

(* The representation the coordinator chose is one that the backend        *)
(* accepts and the source can produce: collect_pcm never has to refuse.    *)
InputIsProducible ==
    pc # "idle" => /\ input \in Accepts(job.backend).input
                   /\ input # "EncodedFile" => job.pcm # "Unavailable"

(* A Deepgram run returns, whatever the server does.                       *)
DeepgramReturns == []<>(job.backend = "deepgram" => pc = "idle")
=============================================================================
