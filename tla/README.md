# A TLA+ model of zwhisper

zwhisper records speech on a Linux desktop and transcribes it. A per-user daemon,
`zwhisperd`, owns the microphone and serves four D-Bus interfaces; a command line,
a tray icon, a global hotkey and a settings window are its clients. This directory
holds the TLA+ modules that model the daemon, its libraries and its clients, the TLC
configurations that check them, and proofs checked by TLAPS.

Paths below are relative to `src/crates/`.

## 1. Inventory

### The daemon

| Component | State | Operations | Module |
|---|---|---|---|
| Recorder (`zwhisper-core/src/audio/recorder.rs`, `pipeline.rs`, `watchdog.rs`, `state.rs`) | output file, pipeline, a `watch<StopReason>` channel that keeps the last value, PCM accumulator | `start`, bus thread, `request_stop`, ASR callback, `await_completion` | `Recorder` |
| Session manager, Recorder1 (`session.rs`, `recorder_service.rs`) | one slot with its stop hook, `start_lock`, starts in flight, lifecycle handles | `StartRecording`, `StopRecording` | `Sessions` |
| Lifecycle task (`lifecycle.rs`) | control state of one session | stop, drain, emit, persist, release, submit a job, await it | `Sessions` |
| Shutdown (`main.rs`) | control state of `main` | SIGTERM: wait for starts, stop, await lifecycles, exit | `Sessions` |
| State files (`active_session.rs`, `last_session.rs`) | two JSON files | atomic write, clear | `StateFiles`, `Sessions` |
| Orphan recovery (`orphan_recovery.rs`) | none of its own | file and resubmit what a crash left | `Recovery` |
| Job queue, Jobs1 (`jobs/`, `jobs_service.rs`) | registry, semaphore, `accepting`, one-shot channels | submit, run, cancel, shutdown | `JobQueue` |
| History (`history/`) | entries in memory, `history.json`, bounded channel | load and recover, upsert, set status, set transcript, forget | `History` |
| Profiles1, active profile (`profiles_service.rs`, `active_profile.rs`) | profile list, active name in memory and on disk | reload, set active | `ProfileStore` |

### Libraries

| Component | State | Module |
|---|---|---|
| Backends (`zwhisper-core/src/transcribe/` `coordinator`, `whisper_cpp`, `deepgram`, `parakeet`) | child process, HTTP attempts against a deadline, txt and json artifacts, log | `Transcription` |
| Single-file models (`model_management.rs`, `zwhisper-settings/src/download.rs`, `tabs/models.rs`) | `.part` file, final file, the row of the window | `ModelDownload` |
| Bundles (`bundle_download.rs`, `archive_extract.rs`, `models.rs`) | staging and final directory | `BundleInstall` |
| Profiles on disk (`profile/`) | shipped and user TOML files | `ProfileStore` |
| Devices (`audio/devices.rs`, `setup/`) | PipeWire's nodes and ids | `Sources` |
| Microphone set-up (`setup/level.rs`, `volume.rs`, CLI `audio.rs`) | volume, measured peak, override files | `MicSetup` |
| Secrets (`secrets/resolver.rs`) | key file, environment | `Secrets` |

### Clients

| Component | State | Module |
|---|---|---|
| Tray (`zwhisper-tray` `pump`, `state`, `cmd`, `sink`) | mirrored session, menu lock, signal streams, sink channel | `Tray` |
| Tray process (`main`, `supervisor`, `single_instance`) | tasks, icon, bus name | `TrayMain` |
| Hotkey (`zwhisper-tray/src/hotkey.rs`, `zwhisper-hotkey/src/portal.rs`, settings `tabs/hotkey.rs`) | portal session, chord, gate, rebind channel | `Hotkey` |
| Toggle (`zwhisper-hotkey/src/toggle.rs`, CLI `toggle.rs`) | debouncer, cooldown | `Toggle` |
| `record`, `status --watch` | loop over streams, one status line | `RecordCommand`, `StatusWatch` over `BusSignals` |
| `deliver`, `transcribe` | consumer name, job queue, waiters | `Delivery` |

### What is hard here

* *Awaits.* The daemon runs on one tokio thread, but at every await another handler,
  lifecycle task or the shutdown runs. A session keeps its slot over a dozen awaits and seven
  early returns; `release` and `install_stop_hook` are not keyed by session.
* *Overlap.* A session that transcribes has released its slot, and the next one records. The two
  share state files, signals and the clients' attention.
* *Threads.* The recorder's threads write one last-value-wins channel, and GStreamer may never answer.
* *Cancellation and shutdown.* A job is aborted at any await; SIGTERM arrives at any of these points.
* *Crashes.* The daemon, an installer, the wizard or a download dies between two writes and is
  started again over what was left.
* *Streams.* A client subscribes to several signals and polls them in an order that is not
  the order of sending; the daemon comes, goes and comes back as another version.
* *Time of check.* A toggle decides on a status and a file read at different times; a device id, a profile and
  a key file change between look-up and use.
* *Budgets.* Retries, doubling backoff and Retry-After share a deadline; a calibration loop must
  neither run for ever nor give up on a steady speaker.

`PROJECT.json` lists the hazards, each at its line, with the property that covers it.

## 2. Modules

### Recorder

One recording. `pc` is the owner, `busPc` the bus thread; `PostMessage` and `NewSample`
are GStreamer's threads, and `RequestStop` is the stop hook, which may be called before, during
and after the drain. `stop` is the watch channel: `BusPopMessage` and `RequestStop` overwrite it,
as `send_replace` does. `Report` reads it again after `wait_for_drain_signal` computed `eosSeen`, as
in the code. A bus message is abstracted to what `watchdog::classify` looks at.
Reading the FLAC header is a nondeterministic outcome followed by the code's tolerance check.

### Sessions, SingleRecorder, StateFiles, Recovery

`Sessions` is the daemon from `StartRecording` to the terminal signal, with shutdown. A step is
the code between two awaits. `pc[s]` is first the handler that mints id `s`, then the lifecycle task of `s`:

    new -> queued -> reserved -> announced -> started -> filed -> live      (handler)
        -> recording -> draining -> drained -> stopping -> audioFiled
        -> completed -> released -> recorded -> awaiting -> transcribed
        -> fullFiled -> ending -> clearing -> done                        (lifecycle)

with the error paths leading to `refused` or `ending`. The recorder is reduced to "a stop
reason was published" and the ways `await_completion` ends (`Recorder`: `StopCompletes`), the job to
its one-shot channel (`JobQueue`: `AutoJobResolves`). Writes of the state files may fail.

`SingleRecorder` and `StateFiles` are abstract specifications that `Sessions` implements: one recorder at
a time; and what the sessions of one process do to `active-session.json` and `last-session.json`.
`Recovery` extends `StateFiles` by a process that dies at any moment and by `recover` at the next
start, so what `Recovery` shows holds for the detailed session as well. `boot` follows `main`: the bus name is claimed
(`claimed`: calls are served, sessions may begin), then `recover` reads, judges, files, submits and clears. It awaits
nothing and the runtime has one thread, so until it is over no task runs, but the blocking pool and GStreamer do: a write or
a removal of `active-session.json` that a session asked for may come between any two of its steps (`PoolStep`). `early`
marks those sessions.

### History and JobQueue

`History` is the writer task: a bounded channel, the entries in memory and the file, with crash and restart. Its
actions take any request from any producer; `JobQueue` instantiates it and is the real
producer. `JobQueue` has one task per job. `Cancel` requests the abort and `DropAborted` drops the future
with the permit and the one-shot sender it owns. A backend is a nondeterministic result. A job is submitted by the lifecycle
task or `TranscribeFile`, after its entry (`FileEntry`), or by the orphan recovery without one (`SubmitRecovered`): what such a
job reports finds an entry only if the previous process filed it. `unlisted` marks the recovered job of which the index knows nothing.

### Transcription, ModelDownload, BundleInstall

`Transcription` runs each backend over one audio file, again and again: choice of the input,
child process and its log, HTTP attempts and backoff over a clock, and the two artifacts; the
queue may drop it at every await. whisper.cpp renames its files out of a temporary directory, or copies them where that is
on another file system (`far`); Deepgram and Parakeet write in place. A write in place that fails, is dropped or killed
may leave the file `torn`; a dropped one is settled at once, so it never ends after a later run's. `ModelDownload` counts a file in blocks; a block damaged on the way is 0, and
`.part` and the final name stand for files, so that a handle outlives a rename. `BundleInstall`
abstracts a file to absent, torn, good or foreign; an archive is a sequence of entries with declared and real sizes.

### ProfileStore, Sources, MicSetup, Secrets

`ProfileStore`: a document has two parts, each named by the process that wrote it or not valid; the daemon, `profile clone`, the wizard, the settings form and an editor work on it.
`Sources`: nodes are unplugged and plugged again, ids go to other nodes, the default moves, while a
command acts by id and a recording resolves names. `MicSetup`: levels in whole steps of some dB, a volume as the
linear gain the code takes it for; volume 0 (`Zero`) stays 0 under any gain, and a muted source is a voice that always
reads as silence. `Secrets`: inodes with mode and body, replaced or rewritten at any moment.

### Tray, TrayMain, Hotkey, Toggle, BusSignals, RecordCommand, StatusWatch, Delivery

Each client meets the daemon as an environment: the signals and state files of a session in the
order that `Sessions` has, folded where the client cannot see the difference. Each subscription
is a queue of its own, so heads may be taken out of sending order. `Tray` connects as `run_inner` does: the handshake, then
one subscription after the other, NameOwnerChanged last, then the snapshot, each a step of its own; between the handshake and
that last subscription (`InGap`) a new daemon comes up unheard. `TrayMain` has the life of the process;
what its tasks do meanwhile is `Tray` and `Hotkey`. A press that `Hotkey` counts is the start of one toggle of `Toggle`.

### MC modules

`MCDaemon`, `MCBackends`, `MCData`, `MCTrayApp`, `MCDesktop` and `MCClients` each collect the parts
named in section 3 that share no state. The variable `part` picks one in the initial state; the others stay in one
initial state. This is the disjoint union of their state spaces, checked in one run; nothing
is claimed about parts running together. A property of such a run is a named conjunction of properties of
the parts, which stand at the end of their modules with their comments; its
invariants include the type invariants of the parts. `MCSessions` gives `Sessions` its symmetry; `MCTray` and
`MCDelivery` hold the instances of two counterexamples.

`SessionsProofs`, `RecorderProofs`, `DaemonProofs`, `BackendsProofs`, `DataProofs`, `ClientsProofs`,
`DesktopProofs` and `TrayProofs` hold the theorems (section 5).

## 3. Runs

| Run | Parts | Properties |
|---|---|---|
| `recorder` | `Recorder` | a recording is Ok only on the pipeline's verdict; PCM is complete or absent; the verdict is frozen once the bus thread is joined; a foreign file is kept; every stop completes |
| `sessions` | `Sessions`, 2 sessions | slot and hook ownership, acknowledged stops, signal order, a shutdown that loses nothing |
| `sessions_live` | `Sessions`, 2 sessions | implements `SingleRecorder` and `StateFiles`; starts return, stopped sessions end, SIGTERM ends the daemon |
| `daemon` | `Recovery`, `History`, `JobQueue` | `OrphansEndOnce`, `OutcomesRecorded`, `HistoryKept`, `DaemonServes` |
| `tray` | `Tray`, `TrayMain` | `ShowsDaemon`, `ActsOnce`, `FollowsDaemon`, `TrayEnds` |
| `desktop` | `Hotkey`, `Toggle` | `KeyHonest`, `ToggleDoesAsked`, `KeyAnswered` |
| `backends` | `Transcription`, `ModelDownload`, `BundleInstall`, `MicSetup` | `TranscriptionHolds`, `ModelsHold`, `LevelsHold`, `StepsKeep`, `BackendsEnd` |
| `clients` | `RecordCommand`, `StatusWatch`, `Delivery` | `ClientsTell`, `DeliveryGuarded`, `ClientsReturn` |
| `data` | `ProfileStore`, `Sources`, `Secrets` | `StoreAgrees`, `DevicesMatch`, `KeysMatch`, `ProfilesKept` |

What the composite properties consist of:

* `OrphansEndOnce`: `FileNamesLiving`, `OrphanFiled`, `SubmittedIsDead`. `OutcomesRecorded`:
  `PermitsConserved`, `CompletedIsRecorded`, `CancelledEndsFailed`, `OutcomeReachesHistory`, `DiskMatchesMemory`.
  `HistoryKept`: `NoStaleTranscribing`, `TranscriptKept`. `DaemonServes`: `RestartServes`, `AutoJobResolves`.
* `ShowsDaemon`: `CaughtUpShowsDaemon`, `AudioOfItsSession`, `LockedOnlyAfterLoss`, `NoStaleSession`.
  `ActsOnce`: `SinksOncePerTranscript`, `OneIcon`. `FollowsDaemon`: `Reconnects`, `MismatchStopsCalls`.
  `TrayEnds`: `CtrlCExits`, `DeadIconIsNoticed`, `ShutdownTakesIcon`.
* `KeyHonest`: `BoundIsHeard`, `OneSession`, `NoRestartInCooldown`. `ToggleDoesAsked`: `UndisturbedToggleWorks`,
  `NoStartWhileDraining`. `KeyAnswered`: `BufferedPressToggles`, `RebindRevives`, `ShutdownEnds`, `PressAnswered`.
* `TranscriptionHolds`: `OkHasBothArtifacts`, `NoTornTranscript`, `WithinBudget`, `RetriesAreWarranted`,
  `NoStrayChild`, `InputIsProducible`. `ModelsHold`: `InstalledIsVerified`, `RowTellsTruth`, `CompleteIsVerified`,
  `InstalledIsComplete`, `AgreeOnInstalled`, `ExtractionIsBounded`. `LevelsHold`: `SteadyConverges`,
  `TooQuietIsTrue`, `DoneMatchesChoice`, `DoneIsRunnable`. `StepsKeep`: `LogBeforeReturn`, `FinalWaitsForStaging`,
  `OverridesOnlyGrow`. `BackendsEnd`: `DeepgramReturns`, `CancelIsHeard` (unless a GET is never answered), the model
  (where its GET is answered) and the bundle converge to installed, `SetupEnds`.
* `ClientsTell`: `ExitTellsOutcome`, `CaughtUpShowsRecorder`, `EveryFailureHasLine`. `DeliveryGuarded`: `IntentGuarded`,
  `TypedOnce`, `NothingSwallowed`, `WaiterTellsOutcome`. `ClientsReturn`: `ReturnsWithSession`, `CtrlCEnds`,
  `StaleHeals`, `ConsumerNeverWedges`, `WaiterReturns`.
* `StoreAgrees`: `ListTellsSource`, `OneCloneSucceeds`, `HiddenMeanwhile`. `DevicesMatch`: `TurnsOnlyTheChosen`, `WizardNamesMic`,
  `RecordsWhatProfileSays`, `MissingIsTrue`. `KeysMatch`: `KeyIsCurrent`, `GoodConfigResolves`, `HealthPredictsJob`.
  `ProfilesKept`: `WholeStaysWhole`, `EditsKeepTheRest`, `RestartOffersLoadable`.

Three further runs end in a counterexample on purpose (section 6).

### Bounds

* *Recorder*: the verdict depends on at most three events in order, so three messages and two stops contain
  every order of overwriting. A PCM budget of 1 is met exactly, exceeded, and leaves room for a buffer after it.
* The safety results of section 5 are proved for every value of the bounds; there the instance shows that the cases happen.
* *Sessions*: one session holds the slot and `start_lock` serialises the handlers, so two sessions give every
  pair; the safety results are proved for every set of sessions. `SignalLimit` says how many calls may have been
  made when SIGTERM is served: with 3 it comes at any point of two sessions; with 2, in the run of the liveness
  properties, the second session and the shutdown do not meet, which keeps that run small.
* *Recovery*: two crashes: the second hits the recovery of the first. Two sessions: one dies recording while
  another transcribes, or is an orphan while the other begins. *History*: a channel of one (`HistoryDepth`) is full after each
  send; *JobQueue*: a channel of two; one permit and two jobs make one wait;
  two cancellations hit one job twice or both; the first job may be a recovered one that the index does not list (`Orphans`;
  with `IndexListsOrphans` the index may list it, in any state: the run then takes longer than is practical and passes, and the theorem covers both).
* *Tray*: a behaviour picks one of three bounds (`MCBounds`): two overlapping sessions with an undisturbed daemon; one session
  with a late start, a crash, a click on Stop and another version; one session with two clicks. Channels hold one entry, so each is full once.
* *TrayMain*: two processes race for the name; liveness is asked of the one in `Followed`. One move of the icon host.
* *Hotkey*: three bounds: presses without rebinds; a portal restart with a failed call; two rebinds and a restart. *Toggle*:
  two sessions, three presses, four ticks, of which a debounce lasts one and a cooldown two; one CLI process beside the tray.
* *Transcription*: two runs of one file, so that the first leaves a transcript; two retries within a budget of 5 ticks; Retry-After
  of 0, 1 and one beyond the maximum; the backoff cap is reached.
* *ModelDownload*: two blocks, four attempts, two faults (crash, short body, damage, cancel, a start beside a running
  download); one pair of downloads overlaps (`MaxShared`), with every interleaving of its steps. *BundleInstall*: two files, nine archives: two good ones, one
  that lacks a file, oversized and lying ones, a link, a path outside, too many entries.
* *MicSetup*: three loudnesses, one of which clips, a varying voice, a muted source, three start volumes, one of them 0, and
  `min_volume` at its default 0 (`Least = Zero`; the theorem covers a positive one too); two runs of the wizard.
* *RecordCommand*, *StatusWatch*: two sessions, one crash, one failed call. *Delivery*: two jobs of four kinds, two consumers, one fault.
* *ProfileStore*: two writers of any kind, one edit by hand, one restart. *Sources*: two microphones, a sink, three ids,
  three moves. *Secrets*: two keys, two inodes, one edit between any two steps; `FirstKey` fixes which key is valid first (the keys are symmetric).

**Deadlock** is checked for `Recorder` only: in the others a system that nobody calls, that has exited or whose
bounds are used up really stops.

## 4. Fairness

* `Recorder`: weak fairness of the owner, the bus thread (OS threads) and the clock; none of GStreamer or of callers.
* `Sessions`: weak fairness of each handler, each lifecycle task and `main`: tokio polls every woken task,
  blocking-pool calls return, timeouts elapse. None of callers, signals or the job: `StopLeadsToTerminal` excepts
  a job that is pending, `TerminateLeadsToExit` does not.
* `JobQueue`: weak fairness of each task (its submission included) and the writer. A job acquires a permit once and
  there are finitely many, so none is passed over for ever even without the queue of tokio's semaphore. That a backend returns is an assumption.
* `Recovery`: weak fairness of `recover`, which is straight-line code. `Transcription`, `BundleInstall`,
  `MicSetup`: of the running program; its faults are bounded, and `BundleInstall` is begun again by a user who wants the bundle.
* `ModelDownload`: of each download task except while its GET is unanswered (`Proceeds`: that request has no time limit), of the row's message handling while its dispatcher runs (`drains`), and of a user who clicks Download on a row that offers it.
* `Tray`, `TrayMain`: of each task, and of the daemon finishing what it began. `Hotkey`: of the listener, of the
  forwarder and of the two steps of the settings window; none of the portal's answers, which may stay out (the bind is timed).
* `Toggle`: of the daemon and of each toggler. `RecordCommand`: of each stream of the select (tokio's select is random
  between ready branches) and of a daemon that ends what it began; a recording alone may go on. `StatusWatch`: of each of its sources.
  `Delivery`: of each waiter and each consumer.

## 5. Proofs

One proof module beside each module or MC module it is about: `SessionsProofs`, `RecorderProofs`, `DaemonProofs`,
`BackendsProofs`, `DataProofs`, `ClientsProofs`, `DesktopProofs`, `TrayProofs`. Every theorem holds for every value of the constants
that its assumptions admit, hence for any number of sessions, jobs, presses, crashes, faults, runs or retries. Each safety invariant below is a property of a
run, and so was checked on the instance first; so were the inductive invariants.

**Sessions** (`SessionAssumption`: `NoSession` is not a session, the other constants have their type)

| Theorem | Argument |
|---|---|
| `TypeCorrect` | `TypeOK` is inductive, one step per action. |
| `SlotIsOwned` | `SlotOwnership` is inductive given `TypeOK`. Two lemmas carry it: a step that stays inside or outside `HoldingPc` and leaves the slot alone (`HolderMoves`), and a holder that leaves `HoldingPc` and releases (`HolderReleases`). |
| `HookIsOwners` | Not inductive alone: `install_stop_hook` writes into whatever session holds the slot. `SlotOwnership` says that this is the caller, since `live` is a holding state. |
| `AckedIsDelivered` | Needs `HookDrivesOwner`: `StopRecording(s)` fires the hook of the slot's owner, hence of `s`; no step removes a stop reason. |
| `SingleSessionPolicy` | Refinement, step by step: `Recorder::start` succeeding maps to `Start`, the end of the drain to `End`, everything else to a stutter. `HolderIsAlone` (from `SlotOwnership`) gives `live = {}` and `live = {s}`. |
| `CleanShutdown` | `ShutdownKeepsSessions` is strengthened to `ShutdownInv`: every running lifecycle that was in service is in `tasks` or `pending` (`HandlesRegistered`), and each phase of `main` that was passed without a timeout left nothing behind (`ShutdownProgress`). |
| `SignalsInOrder` | The prefix property says nothing of what comes next, so `AllSaidSoFar` ties what was sent so far to the program counter and the outcome; each action then appends the one signal its phase allows. |
| `FilesInOrder` | Refinement of `StateFiles`: `FilePhase` reads the abstract phase off the program counter, and each action is shown to be one abstract step or a stutter. `SlotOwnership` gives that nobody else is recording when a session is announced. |

**Recorder** (the assumptions in `Recorder`: the bounds are numbers)

| Theorem | Argument |
|---|---|
| `TypeCorrect` | Needs `MessagesCounted`: the underruns seen and the messages queued were all posted, which bounds the counter. |
| `OkIsFlushed` | `VerdictPublished`: a drain reason in the channel was published by the bus thread, and `eosSeen` rests on one, even if a caller overwrites the channel between the two reads. |
| `PcmIsWhole` | `CaptureWhole`: until the overflow the accumulator counts every delivered sample, and it is taken only after the pipeline is in Null, where no callback runs. |
| `VerdictIsFrozen`, `ForeignFileIsKept` | Action properties from `OwnerInOrder`: between the join and the report the bus thread has exited; the clean-up runs only at a path the recording created. |

**Daemon** (`DaemonAssumption`: `NoSession` is not a session, bounds are numbers, switches are Booleans)

| Theorem | Argument |
|---|---|
| `OrphansAreFiled` | `RecoveryInv`: two sessions that count on `active-session.json` at once are both marked (`FileShared`); a death ends every session, and who has named itself since is `early` until the recovery is over (`DeadAreEnded`); the orphan that was read is dead or early, and only it or an early session stands in the file (`OrphanIsReal`); it has audio and is filed before it is submitted (`OrphanDealtWith`); until then a killed session is still named by one of the files (`OrphanKnown`). |
| `HistoryIsKept` | `HistoryInv`: the file is what memory was at the last write that succeeded, and an unreadable one stands for no entries. |
| `OutcomesAreRecorded` | `JobsInv`. The permits that are free and the tasks that hold one add up (`LaneIsWhole`, with finite sets). What a job told the history is looked for through the channel: `Settled(j, st)` is that the last request of `j` that is queued says `st`, or memory does when none is. `RequestsInOrder` gives that the upsert is first and only once, so that a later one does not erase a transcript, and that a recovered job has none: its entry is the one the index brought (`Listed`), and for one without (`unlisted`) nothing is claimed but what was announced. `CancelStops` gives that the writes of a cancel and those of the job meet only in the order the code allows. |

**Backends** (`BackendsAssumption`: bounds are numbers, at least one measurement; `BundleAssumption`: the files of a
bundle are pairwise not the names the installer adds, and there are two of them (the shipped Parakeet bundle has four);
`LevelAssumption`: levels are whole steps, the target is between silence and clipping, and a voice at any volume is above
`SILENCE_FLOOR_DB`, which is -120 dB)

| Theorem | Argument |
|---|---|
| `TranscriptionIsWhole` | `RunInv` (which phases a backend has), `HttpInv` (attempts are counted, a further one needs a retryable answer, sleeps end within the budget) and `ArtifactInv` (the txt of this run is there, whole, before its json is begun; only a run that does not rename tears). |
| `ModelsAreVerified` | Files: while a download runs beside no other, the running hash is that of `.part`, block by block, also after a resume and after overlapping ones, no other task holds a handle on what it creates, and nobody runs once it has installed (`OneDownload`); the label that the queued messages lead to tells whether a file is installed (`RowInv`). Only a download that itself overlapped may install something else. Bundles: what lies in staging was verified or is still to be fetched (`StagingInv`). |
| `LevelsAreTrue` | `LoopInv`: from a volume other than 0, a steady unmuted voice that is not on target needs a correction of at least the distance from the target to clipping in each round, so the volume falls by it each time and the rounds are bounded; the last measurement is that of the present volume. `WizardInv`: what was asked before what is written. |
| `StepsAreKept` | Three action properties, from the invariants above. |

**Data** (`StoreAssumption`: finitely many writers, the marks `Absent`, `Partial`, `Broken` are no documents;
`GraphAssumption`, `KeyAssumption`: bounds are numbers, `NoNode` and `None` are no node, key or file)

| Theorem | Argument |
|---|---|
| `StoreIsSound` | `HeldIsRead`: what a writer holds is what it read, unless somebody wrote meanwhile; `OneCloned`: `create_new` lets one clone through; `Counted` bounds the version counter by the writers that wrote. |
| `DevicesAreRight` | The id a command holds was that of the chosen node when it was read, and a plug, an unplug or a reuse of the id since then has marked the command (`CommandInv`); the same for the names a recording resolves (`RecorderInv`). |
| `KeysAreRight` | Case by case over the resolver's path: what each check saw is still so unless the row was disturbed (`KeyInv`, one clause per reader, `QuietRow` for a configuration nobody edits). |
| `ProfilesAreKept` | Three action properties from `StoreInv`: beside a hand edit only the creation of a clone's override takes a profile that loads away (an edit of a file that parses is validated before it replaces anything, and may repair it), a write after an undisturbed read keeps the other part, the start offers what loads. |

**Clients** (`ClientAssumption`: bounds are numbers; a kind of job has a mode, a size and a sequence of the four outputs)

| Theorem | Argument |
|---|---|
| `ClientsAreTold` | `RecordInv`: what a terminal signal says of its session is so and stays so, and `record` exits with such a code only on a signal of the session it was told is its own. `WatchInv` says for each queued signal how it relates to its session and to the rest of the queue (`SignalInv`): one of this life that is not the last of its session is followed by its end or the session is in flight. From that, `SlotShown` (the session that holds the slot is shown, or a signal of it is still to come) and `EndComes` (what is shown as running runs, or its end is to come) survive each take, the deaths of the daemon included. |
| `DeliveryIsGuarded` | `DeliveryInv`: the consumer that runs owns the name, so the others hold nothing (`Owns`); every signal tells the outcome of its job and each consumer gets it once, before anything of the job is typed (`Ahead`); the job in hand is n outputs into its list, was typed at most as often as these ask, and each of them but a file left a trace (`InHand`): keystrokes, a selection, a notification, or one that failed. |

**Desktop** (`DesktopAssumption`: capacities, bounds and times are numbers; `None` is neither a session nor a process, and no
command is the tray)

| Theorem | Argument |
|---|---|
| `KeyIsHonest` | `HotkeyInv`: a live session is open in a portal that runs, and the sessions that are open beyond it are counted faults; as long as nothing failed, the listener of a menu that names a chord has a session, and the chord is there, or an event in its channel or the step it is at will make it look (`MenuInv`, which is what is left of `BoundIsHeard` before everything is handled). `CooldownInv`: the cooldown that is counted from the answer of a stop covers the one from the moment the daemon took it. |
| `ToggleDoesWhatIsAsked` | Two action properties. `DaemonInv`: the newest session alone holds the slot; `FileInv`: until a session has removed the name of another, `active-session.json` names the one that records or drains, or the newest that did; `CalmInv`: what a toggle of a calm daemon has read is still so while nobody disturbs it, hence its stop is of the session that records and its start finds the slot free. |

**Tray** (`TrayAssumption`: capacities and bounds are numbers; `None` is neither a session nor a command, and `Nobody` is no
process)

| Theorem | Argument |
|---|---|
| `TrayShowsDaemon` | `ViewInv`: the last state in the queue is the last one signalled (a daemon that comes up is heard of, or finds the queue empty, or it is `stale`), and when none is queued, the snapshot speaks for it: what `GetStatus` said is still so, or the session has released its slot and its terminal signal is to come, which the subscription taken before will deliver; a session that is shown has then not ended. `LockInv`: while nothing failed or was lost, whatever holds the lock is still on its way to open it: the call is under way or was refused, the signal that opens it is queued, or the session is stopping and will signal it. A disconnection drops the queue, hence counts as a loss when it held a state. |
| `TrayActsOnce` | `SinkInv`: a transcript is in one place at a time, in the queue of the pump, in the channel of the sinks or handled (`MoveHead`: the head of one queue becomes the end of the next, or is dropped), and only a session that has completed one enters. `MainInv`: a process that was told that it is the only one and not told to leave owns the bus name, which has one owner. |

In the last six modules the parts of an MC module share no state, so each part has its invariant and its step lemma, a
step of another part leaves it alone (`PartSteps`, or a step of the same kind), and the theorem is about the composed specification.

Only model-checked: the properties with liveness in them (leads-to under fairness and ENABLED are beyond the prover):
`StopCompletes`, the three of `sessions_live`, `DaemonServes`, `BackendsEnd`, `ClientsReturn`, `FollowsDaemon`, `TrayEnds`,
`KeyAnswered`. Every other property of a run that passes is the statement of a theorem.

## 6. Where text and code disagree

Shown by a run:

| Run | Claim | What the code does |
|---|---|---|
| `tray_locked` | `docs/M4-plan.md`:134-137, the click disables the menu items "until the next `StateChanged`" | `state.rs`:313 releases the lock of a Stop at "stopping" or "idle" only; a recording that fails signals "failed" without them, and Stop stays locked. |
| `delivery_fallback` | CLI `deliver/sink.rs`:34-36, a detached or automatic job "never auto-injects" | A typed delivery that is refused falls back to the clipboard for every job (`deliver/mod.rs`:344). |
| `failure_order` | `lifecycle.rs`:24-31, a failed recording: `await_completion` returns Err, release the slot, "failed" | The code announces `RecordingComplete` first (`lifecycle.rs`:312-318, for the partial FLAC), then releases. `SignalProtocol` has the code's order. |

Seen while modelling; the models contain the behaviour, and the properties are stated so that they
are about what the code does keep:

*Daemon.* A caller's stop and an EOS after a published error replace it, and the recording is reported Ok
(recorder.rs:640). A repeated stop may end the drain early (recorder.rs:386). The end of a transcribing session
removes the newer session's `active-session.json` (active_session.rs:26). A StartRecording served after the
handles were taken is neither stopped nor awaited (main.rs:146). A request for an unknown session overwrites
an unreadable index (writer.rs:196). Records of cancelled jobs are never removed (queue.rs:234). A Cancel after JobCompleted
marks a finished entry failed. `whisper-cli` has no timeout, so a hung one keeps the permit until someone cancels. A crash
after the transcript was stored makes the recovery put `last-session.json` back to audio only and transcribe
again; a crash during the recovered job loses its transcription. Recovery runs after the bus name is claimed, so the file
need not be "definitionally stale" (main.rs:106-108): a session that began before it may overwrite an orphan's name unread, be
taken for an orphan, filed and transcribed in mid-recording, and lose its own name; the properties except exactly these (`early`).
The job of a recovered orphan does not "land in history" (orphan_recovery.rs:27-29, 98-99): nobody upserts an entry, so unless the
dead process had filed one, its status and transcript are dropped with a log line (writer.rs:303-333).

*Backends and models.* Two processes that transcribe the same audio may mix artifacts; a failed json write
leaves the new text with the old json. Only a rename is all or nothing: a transcript that Deepgram, Parakeet or the copy
across file systems writes in place is cut short when the write fails, the job is cancelled or the process dies there, also when
an earlier whole one stood there (`NoTornTranscript` says no more than that). Cancelling a Parakeet job does not stop its inference. `process_group(0)`
keeps Ctrl+C of a local `zwhisper transcribe` from whisper-cli. The header of deepgram.rs says one client is cached; one is built per
call. Overlapping downloads of one model append to one `.part` and may install a wrong file (`InstalledIsVerified` excepts what
they install and nothing else), and overlapping bundle installers share a staging
directory. A plain file at a bundle's path blocks it for ever; an error in the swap may have removed the old
bundle (bundle_download.rs:24-25 says it is untouched). A short body without Content-Length deletes the whole `.part`.
The downloader's GET has no timeout and does not see the cancellation while it waits for the answer (download.rs:485-488):
`CancelIsHeard` and the convergence except exactly that wait (`Waiting`).

*Tray and hotkey.* pump.rs:192-195 says that the order of the subscriptions matters only for signals of the daemon; NameOwnerChanged is the
last one (pump.rs:215-223). A daemon that leaves and comes back before it goes unnoticed: state signals of the old one that are
queued are shown as the new one's, until its next signal, and one of another version than the handshake saw is called until
the connection ends. `CaughtUpShowsDaemon`, `NoStaleSession` and `MismatchStopsCalls` except exactly these. The reconnect backoff is never reset (pump.rs:32). `daemon_ready` is probed once by the
dispatcher and stays false when that probe fails (cmd.rs:93-96). A "starting" of an older session releases the lock of a pending Start.
After a portal restart the menu may name a chord nobody hears until the next rebind (portal.rs:907-910); a portal that is absent at
start means "unavailable" for ever. `zwhisper hotkey bind` does not tell the tray. The cooldown begins when the RPC returns, not when it
was sent. Jobs in the sink channel are dropped at shutdown although main.rs:358-360 lets them drain. A dead icon is noticed at the
next state change only. `docs/M4-plan.md`:447-448 says that Quit ends the process; `main` waits for Ctrl+C alone (main.rs:333), so Quit stops
the tasks and removes the icon and the process stays.

*Command line.* After a daemon's death `record` waits for ever and SIGINT no longer ends it (record.rs:203-212). It may print that no
RecordingComplete arrived while one is queued. A watch attached while an older session transcribes may show
idle during a recording; a stale watch prints "failed" at each tick. `deliver` ends when either stream ends and exits 0, which
`Restart=on-failure` does not restart. A foreground job is typed after its CLI gave up waiting (sink.rs:38 calls this unreachable).
`deliver/mod.rs`:325-333 says that no failure is swallowed; a notification that fails is logged and swallowed (sink.rs:146-168), so
without a notification server a job may leave nothing on the desktop. `NothingSwallowed` excepts such a job.

*Profiles, devices, microphone, secrets.* From volume 0 the calibration never gets away: 0 times a gain is 0, and `min_volume`
is 0 by default (level.rs:109-120), so the wizard goes on with a silent microphone; nothing asks whether the source is muted
(audio.rs:597-599), and its user is told "too quiet". `SteadyConverges` and `TooQuietIsTrue` except exactly these two. An unreadable override is listed with empty fields and hides the shipped profile (listing.rs:39-45).
A clone of a shipped profile onto its own name hides it by an empty file until the write (listing.rs:97-113); one
killed before the write, or whose write fails, leaves that file, which blocks every retry and keeps the shipped profile hidden. Edits made at the same time are lost, and two
concurrent SetActive may leave memory and file different. The settings crate builds `Sources` without `input_gain_db`
(tabs/profile.rs:401, schema.rs:135-136), so it does not compile at this commit; gain is not modelled. The wizard
sets the volume before the checks that audio.rs:955 places first; its base profile check may look at another file than the one it
edits; rerun with fewer outputs it keeps earlier ones. `apply_loop` returns Ok without convergence.
PipeWire reuses ids, so a volume, default or capture by id may hit another device (`object.serial` is collected, not used). `backend health`
uses the shell's environment, the daemon its own.

*Settings window.* `App::run` hands its dispatcher to FLTK once (app.rs:194) and says it drains the channel "on every
wake"; workers then only call `awake()`. FLTK calls a registered handler in the next cycle of its loop and drops it
(`vendor/fltk-sys-1.5.22/cfltk/fltk/src/Fl_lock.cxx`:97-140), so later messages may wait for ever: the row then keeps
"Download", without Cancel. The Rust wrapper between the two is not in the tree; `ModelDownload` has both outcomes
(`drains`), and what the row shows (`RowTellsTruth`) is claimed only for a dispatcher that runs. `RefreshRequested` is handled by nobody.

## 7. Not modelled

* Pipeline strings, FLAC byte offsets, wire types, widgets, icons, log set-up, environment parsing, output formatting.
* `record_blocking` (no caller in the daemon). `history/reap.rs`: it acts on a `whisper_pid`, which nothing records.
* `jobs`, `history`, `profile list`, `backend list`: one call whose answer is printed.
* The settings window beyond the downloader and its row, the rebind and the profile form. Model removal (one unlink).
* The fields of a profile and their validation (a part is valid or not); the migration registry, which is empty.
* HTTP, D-Bus, PipeWire, the portal, wtype, the clipboard: environments, modelled by the outcomes the code handles.
* Panics other than the one of the drain thread, which the code handles.

## 8. Plan

Modelled so far is what the table of section 1 names. Left to do:

1. `Tray` and `Toggle` composed with `Sessions` itself in place of the folded environment, if an instance stays small enough.
2. Overlapping bundle installers with the property that does hold for them.
