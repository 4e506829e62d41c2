------------------------------ MODULE Recorder ------------------------------
(***************************************************************************)
(* One recording of zwhisper-core: Recorder::start, the bus thread that    *)
(* turns GStreamer bus messages into stop reasons, the stop handle that    *)
(* the D-Bus handlers write through, the ASR appsink callback, and the     *)
(* blocking finalisation await_completion.                                 *)
(*                                                                         *)
(* Four actors run concurrently: the owner of the Recorder (the daemon's   *)
(* start handler, then its lifecycle task), the bus thread, the GStreamer  *)
(* streaming threads (external) and the callers of StopRecording.  They    *)
(* share one watch channel, `stop`, which keeps only the last value        *)
(* written (send_replace).                                                 *)
(***************************************************************************)
EXTENDS Naturals, Sequences

CONSTANTS
    MaxStops,     \* calls of StopHandle.request_stop (StopRecording, SIGTERM)
    MaxMsgs,      \* bus messages the pipeline may post
    MaxPushes,    \* samples the ASR appsink may deliver
    MaxPcm,       \* PcmCapture.max_bytes, in samples
    MaxWarnings,  \* MAX_WARNINGS of recorder.rs
    MaxSamples    \* sample counts a FLAC header may declare

ASSUME BoundsAreNaturals ==
    /\ MaxStops \in Nat
    /\ MaxMsgs \in Nat
    /\ MaxPushes \in Nat
    /\ MaxPcm \in Nat
    /\ MaxWarnings \in Nat
    /\ MaxSamples \in Nat

VARIABLES
    file,         \* what is at the output path
    gst,          \* state of the GStreamer pipeline
    eosPosted,    \* the sinks have posted EOS: flacenc flushed STREAMINFO
    bus,          \* messages queued on the bus
    busPc,        \* control state of run_bus_thread
    busShutdown,  \* the AtomicBool that stops the bus thread
    stop,         \* current value of the watch<StopReason> channel
    stops,        \* number of request_stop calls made
    posted,       \* number of bus messages posted
    published,    \* stop reasons the bus thread has sent so far
    underruns,    \* counter of RecordingReport
    warnings,     \* length of the retained warnings vec
    pcm,          \* PcmCapture, with the number of samples ever delivered
    pc,           \* control state of the owner
    state,        \* RecorderState
    deadline,     \* EOS_TIMEOUT_SECS have elapsed since the drain began
    eosSeen,      \* what wait_for_drain_signal returned
    result        \* outcome of start or of await_completion

pipeVars == <<file, gst, eosPosted, posted>>
busVars == <<bus, busPc, published, underruns, warnings>>
ownerVars == <<pc, state, deadline, eosSeen, busShutdown, result>>
vars == <<pipeVars, busVars, ownerVars, stop, stops, pcm>>

(* StopReason of audio/state.rs, without the strings it carries.           *)
CallerReasons == {"UserRequested"}
ErrorReasons == {"DeviceLost", "BusError"}
StopReason == {"Running", "EosObserved"} \union CallerReasons \union ErrorReasons

(* Mutant: a caller's stop also ends the drain.                            *)
DrainReasonsWithCaller == StopReason \ {"Running"}

(* The reasons on which wait_for_drain_signal returns true.                *)
DrainReasons == {"EosObserved"} \union ErrorReasons

(* Bus messages by what watchdog::classify looks at: the message view, and *)
(* for a pipewiresrc source whether a needle of the respective list occurs *)
(* in the payload (the fields that a view ignores are FALSE).              *)
BusMsg ==
    {m \in [view : {"Eos", "Error", "Warning", "Element", "Other"},
            pipewire : BOOLEAN, needle : BOOLEAN] :
        /\ m.view \in {"Eos", "Other"} => ~m.needle
        /\ m.view \in {"Eos", "Other", "Element"} => ~m.pipewire}

(* An Element message counts when its structure is `node-removed`, which   *)
(* `needle` stands for whoever sent it.                                    *)
classify(m) ==
    CASE m.view = "Eos" -> "EosObserved"
      [] m.view = "Error" ->
            IF m.pipewire /\ m.needle THEN "DeviceLost" ELSE "BusError"
      [] m.view = "Warning" ->
            IF m.pipewire /\ m.needle THEN "Underrun" ELSE "Warning"
      [] m.view = "Element" ->
            IF m.needle THEN "DeviceLost" ELSE "Ignore"
      [] m.view = "Other" -> "Ignore"

Outcomes == {"none", "Ok", "DeviceDiscovery", "OutputPath", "PipelineFailed",
             "DeviceDisappeared", "EosTimeout", "EncoderFailed"}

OwnerStates == {"start", "precreate", "build", "play", "waiting", "draining",
                "joining", "teardown", "report", "returned"}

(* PcmCapture: samples kept, the latch, and (for the properties) how many  *)
(* samples were delivered and what `take` handed to the report.            *)
NoPcm == 0
EmptyCapture == [samples |-> 0, dropped |-> FALSE, delivered |-> 0,
                 taken |-> NoPcm]

TypeOK ==
    /\ file \in {"absent", "foreign", "ours"}
    /\ gst \in {"null", "playing"}
    /\ eosPosted \in BOOLEAN
    /\ bus \in Seq(BusMsg)
    /\ busPc \in {"none", "check", "pop", "exited"}
    /\ busShutdown \in BOOLEAN
    /\ stop \in StopReason
    /\ stops \in 0..MaxStops
    /\ posted \in 0..MaxMsgs
    /\ published \subseteq DrainReasons
    /\ underruns \in 0..MaxMsgs
    /\ warnings \in 0..MaxWarnings
    /\ pcm \in [samples : Nat, dropped : BOOLEAN, delivered : Nat, taken : Nat]
    /\ pc \in OwnerStates
    /\ state \in {"none", "Recording", "Stopping", "Failed", "Idle"}
    /\ deadline \in BOOLEAN
    /\ eosSeen \in BOOLEAN
    /\ result \in Outcomes

Init ==
    /\ file \in {"absent", "foreign"}
    /\ gst = "null"
    /\ eosPosted = FALSE
    /\ bus = << >>
    /\ busPc = "none"
    /\ busShutdown = FALSE
    /\ stop = "Running"
    /\ stops = 0
    /\ posted = 0
    /\ published = {}
    /\ underruns = 0
    /\ warnings = 0
    /\ pcm = EmptyCapture
    /\ pc = "start"
    /\ state = "none"
    /\ deadline = FALSE
    /\ eosSeen = FALSE
    /\ result = "none"

-----------------------------------------------------------------------------
(* Recorder::start *)

FailStart(outcome) ==
    /\ pc' = "returned"
    /\ result' = outcome

(* devices::resolve runs wpctl; it may fail before anything is created.    *)
Resolve ==
    /\ pc = "start"
    /\ \/ FailStart("DeviceDiscovery")
       \/ pc' = "precreate" /\ UNCHANGED result
    /\ UNCHANGED <<pipeVars, busVars, busShutdown, stop, stops, pcm, state,
                   deadline, eosSeen>>

(* BuiltOutput::cleanup_on_failure, which only the holder of a token, that *)
(* is of a file this process created, can call.  The removal is best       *)
(* effort and may itself fail.                                             *)
cleanup_on_failure == file' \in {"absent", file}

(* Mutant: open with truncate instead of create_new.                       *)
truncate == TRUE

create_new == file = "absent"

(* pipeline::precreate_output: create_new refuses an existing file, and    *)
(* may fail on an absent one (permissions, parent directory).              *)
Precreate ==
    /\ pc = "precreate"
    /\ \/ FailStart("OutputPath") /\ UNCHANGED file
       \/ /\ create_new
          /\ file' = "ours"
          /\ pc' = "build"
          /\ UNCHANGED result
    /\ UNCHANGED <<busVars, gst, eosPosted, busShutdown, stop, stops, posted,
                   pcm, state, deadline, eosSeen>>

(* pipeline::build after the token was issued.                             *)
Build ==
    /\ pc = "build"
    /\ \/ FailStart("PipelineFailed") /\ cleanup_on_failure
       \/ pc' = "play" /\ UNCHANGED <<file, result>>
    /\ UNCHANGED <<busVars, gst, eosPosted, busShutdown, stop, stops, posted,
                   pcm, state, deadline, eosSeen>>

(* finish_start: set_state(Playing) first, then the channel and the bus    *)
(* thread; a failure runs cleanup_on_failure on the owned file.            *)
Play ==
    /\ pc = "play"
    /\ \/ /\ FailStart("PipelineFailed")
          /\ cleanup_on_failure
          /\ UNCHANGED <<gst, busPc, state>>
       \/ /\ gst' = "playing"
          /\ busPc' = "check"
          /\ state' = "Recording"
          /\ pc' = "waiting"
          /\ UNCHANGED <<file, result>>
    /\ UNCHANGED <<eosPosted, bus, busShutdown, stop, stops, posted,
                   published, underruns, warnings, pcm, deadline, eosSeen>>

-----------------------------------------------------------------------------
(* The GStreamer threads (external) *)

(* An element posts a message.  EOS is posted once, by the sinks, after    *)
(* the encoder flushed: because the drain asked for it, or because a       *)
(* source ended by itself (a source that failed also pushes EOS).          *)
PostMessage(m) ==
    /\ gst = "playing"
    /\ posted < MaxMsgs
    /\ m.view = "Eos" => ~eosPosted
    /\ bus' = Append(bus, m)
    /\ posted' = posted + 1
    /\ eosPosted' = (eosPosted \/ m.view = "Eos")
    /\ UNCHANGED <<ownerVars, file, gst, busPc, stop, stops, published,
                   underruns, warnings, pcm>>

(* Mutant: an overflow clears the samples without latching `dropped`.      *)
pushWithoutLatch(c, n) ==
    [c EXCEPT !.samples = IF @ + n > MaxPcm THEN 0 ELSE @ + n,
              !.delivered = @ + n]

(* PcmCapture::push of n decoded samples.                                  *)
push(c, n) ==
    IF c.dropped
    THEN [c EXCEPT !.delivered = @ + n]
    ELSE IF c.samples + n > MaxPcm
         THEN [c EXCEPT !.dropped = TRUE, !.samples = 0, !.delivered = @ + n]
         ELSE [c EXCEPT !.samples = @ + n, !.delivered = @ + n]

(* The appsink `new-sample` callback of wire_asr_sink.                     *)
NewSample(n) ==
    /\ gst = "playing"
    /\ ~eosPosted
    /\ pcm.delivered + n <= MaxPushes
    /\ pcm' = push(pcm, n)
    /\ UNCHANGED <<pipeVars, busVars, ownerVars, stop, stops>>

-----------------------------------------------------------------------------
(* The bus thread *)

BusCheckShutdown ==
    /\ busPc = "check"
    /\ busPc' = IF busShutdown THEN "exited" ELSE "pop"
    /\ UNCHANGED <<pipeVars, ownerVars, bus, stop, stops, published,
                   underruns, warnings, pcm>>

(* timed_pop returned nothing: back to the flag.                           *)
BusPopTimeout ==
    /\ busPc = "pop"
    /\ bus = << >>
    /\ busPc' = "check"
    /\ UNCHANGED <<pipeVars, ownerVars, bus, stop, stops, published,
                   underruns, warnings, pcm>>

(* Mutant: every warning is retained.                                      *)
retainAll(n) == n + 1

(* A warning is counted, and retained up to MAX_WARNINGS.                  *)
retain(n) == IF n < MaxWarnings THEN n + 1 ELSE n

(* timed_pop returned a message: classify it and apply the class.          *)
BusPopMessage ==
    /\ busPc = "pop"
    /\ bus # << >>
    /\ LET c == classify(Head(bus)) IN
         /\ IF c \in DrainReasons
            THEN stop' = c /\ published' = published \union {c}
            ELSE UNCHANGED <<stop, published>>
         /\ underruns' = IF c = "Underrun" THEN underruns + 1 ELSE underruns
         /\ warnings' = IF c = "Warning" THEN retain(warnings) ELSE warnings
    /\ bus' = Tail(bus)
    /\ busPc' = "check"
    /\ UNCHANGED <<pipeVars, ownerVars, stops, pcm>>

-----------------------------------------------------------------------------
(* StopHandle::request_stop: the daemon's hook may be called at any time   *)
(* while the session holds its slot, also during and after the drain.      *)

RequestStop(reason) ==
    /\ pc \in {"waiting", "draining", "joining", "teardown", "report",
               "returned"}
    /\ state # "none"
    /\ stops < MaxStops
    /\ stop' = reason
    /\ stops' = stops + 1
    /\ UNCHANGED <<pipeVars, busVars, ownerVars, pcm>>

-----------------------------------------------------------------------------
(* The owner: wait for a stop reason, then await_completion *)

(* The lifecycle task leaves its wait loop when the value is not Running   *)
(* and enters await_completion: state Stopping, send the EOS event.  The   *)
(* pipeline may reject it (the code only warns) or never answer, so what   *)
(* it posts afterwards is left to PostMessage.                             *)
BeginDrain ==
    /\ pc = "waiting"
    /\ stop # "Running"
    /\ state' = "Stopping"
    /\ pc' = "draining"
    /\ UNCHANGED <<pipeVars, busVars, busShutdown, stop, stops, pcm, deadline,
                   eosSeen, result>>

(* Five seconds pass while draining.                                       *)
DeadlinePasses ==
    /\ pc = "draining"
    /\ ~deadline
    /\ deadline' = TRUE
    /\ UNCHANGED <<pipeVars, busVars, busShutdown, stop, stops, pcm, pc,
                   state, eosSeen, result>>

(* Mutant: the loop does not look at the clock.                            *)
DrainOverOnSignal == stop \in DrainReasons

DrainOver == stop \in DrainReasons \/ deadline

(* One poll of wait_for_drain_signal that ends the loop, followed by the   *)
(* store to bus_shutdown.  A poll that finds neither sleeps 25 ms: a       *)
(* stuttering step.                                                        *)
wait_for_drain_signal ==
    /\ pc = "draining"
    /\ DrainOver
    /\ eosSeen' = (stop \in DrainReasons)
    /\ busShutdown' = TRUE
    /\ pc' = "joining"
    /\ UNCHANGED <<pipeVars, busVars, stop, stops, pcm, state, deadline,
                   result>>

(* Mutant: the reason is read without joining the bus thread.              *)
BusThreadDetached == TRUE

(* JoinHandle::join returns.                                               *)
BusThreadJoined == busPc = "exited"

JoinBusThread ==
    /\ pc = "joining"
    /\ BusThreadJoined
    /\ pc' = "teardown"
    /\ UNCHANGED <<pipeVars, busVars, busShutdown, stop, stops, pcm, state,
                   deadline, eosSeen, result>>

(* set_state(Null); on failure `?` returns without touching `state`, and   *)
(* Drop runs the transition again.                                         *)
SetNull ==
    /\ pc = "teardown"
    /\ gst' = "null"
    /\ \/ pc' = "report" /\ UNCHANGED result
       \/ pc' = "returned" /\ result' = "PipelineFailed"
    /\ UNCHANGED <<busVars, file, eosPosted, busShutdown, stop, stops, posted,
                   pcm, state, deadline, eosSeen>>

(* PcmCapture::take: nothing when dropped or empty.                        *)
take(c) == IF c.dropped THEN NoPcm ELSE c.samples

(* The count must be within one second of samples (rate) of the samples    *)
(* the wall clock asks for; the lower bound saturates at 0.                *)
verify_samples_match_duration(samples, expected, rate) ==
    LET lo == IF expected > rate THEN expected - rate ELSE 0
    IN  samples \in lo..(expected + rate)

(* read_flac_total_samples either rejects the closed file (missing,        *)
(* shorter than the STREAMINFO prefix, wrong magic, block type or length)  *)
(* or yields the declared count, which is then checked.                    *)
FlacVerifies(readable, samples) ==
    /\ readable
    /\ verify_samples_match_duration(samples, MaxSamples \div 2, 1)

(* The match on final_reason.                                              *)
Report ==
    /\ pc = "report"
    /\ pc' = "returned"
    /\ CASE stop = "BusError" ->
              state' = "Failed" /\ result' = "PipelineFailed" /\ UNCHANGED pcm
         [] stop = "DeviceLost" ->
              state' = "Failed" /\ result' = "DeviceDisappeared"
              /\ UNCHANGED pcm
         [] stop \notin ErrorReasons /\ ~eosSeen ->
              result' = "EosTimeout" /\ UNCHANGED <<state, pcm>>
         [] OTHER ->
              \E readable \in BOOLEAN, samples \in 0..MaxSamples :
                IF FlacVerifies(readable, samples)
                THEN /\ state' = "Idle"
                     /\ result' = "Ok"
                     /\ pcm' = [pcm EXCEPT !.taken = take(pcm)]
                ELSE /\ state' = "Failed"
                     /\ result' = "EncoderFailed"
                     /\ UNCHANGED pcm
    /\ UNCHANGED <<pipeVars, busVars, busShutdown, stop, stops, deadline,
                   eosSeen>>

-----------------------------------------------------------------------------

OwnerNext ==
    \/ Resolve \/ Precreate \/ Build \/ Play
    \/ BeginDrain \/ wait_for_drain_signal \/ JoinBusThread \/ SetNull \/ Report

BusNext == BusCheckShutdown \/ BusPopTimeout \/ BusPopMessage

(* A recording that returned stays returned.                               *)
Finished == pc = "returned" /\ busPc \in {"none", "exited"} /\ UNCHANGED vars

Next ==
    \/ OwnerNext
    \/ BusNext
    \/ DeadlinePasses
    \/ \E m \in BusMsg : PostMessage(m)
    \/ \E n \in 1..2 : NewSample(n)
    \/ \E r \in CallerReasons : RequestStop(r)
    \/ Finished

(* The owner and the bus thread are OS threads, and the clock advances.    *)
(* Nothing is assumed of GStreamer or of the callers.                      *)
Fairness ==
    /\ WF_vars(OwnerNext)
    /\ WF_vars(BusNext)
    /\ WF_vars(DeadlinePasses)

Spec == Init /\ [][Next]_vars /\ Fairness

-----------------------------------------------------------------------------
(* Properties *)

(* A recording is reported Ok only after the bus thread delivered a        *)
(* verdict of the pipeline (EOS or an error): a caller's stop request,     *)
(* however often repeated, never stands in for the encoder's flush         *)
(* (wait_for_drain_signal).                                                *)
OkNeedsPipelineVerdict == result = "Ok" => published # {}

(* Once await_completion joined the bus thread, the bus thread cannot      *)
(* change the reason that the report is built from.                        *)
VerdictFrozenAfterJoin ==
    [][(pc \in {"teardown", "report"}) => (published' = published)]_vars

(* A file that was at the output path before the recording is still there: *)
(* no path of start or of its cleanup removes a file it did not create     *)
(* (pipeline::build, BuiltOutput).                                         *)
ForeignFileKept == [][file = "foreign" => file' = "foreign"]_vars

(* The live PCM handed to the transcription is the whole recording or      *)
(* nothing: an accumulator that overflowed once never restarts in the      *)
(* middle (PcmCapture).                                                    *)
PcmAllOrNothing == pcm.taken \in {NoPcm, pcm.delivered}

(* Every stop, whether a caller or the bus asked for it, ends in a         *)
(* returned report or error, even when the pipeline never answers the EOS  *)
(* event (EOS_TIMEOUT_SECS, BUS_POLL_TIMEOUT_MS).                          *)
StopCompletes == (pc = "waiting" /\ stop # "Running") ~> (pc = "returned")
=============================================================================
