------------------------------ MODULE MicSetup ------------------------------
(***************************************************************************)
(* `zwhisper audio meter`, `audio calibrate` and the `audio setup` wizard: *)
(* levels are measured with pw-cat, the volume of the source is set with   *)
(* wpctl until the peak of the user's voice lies near the target, and the  *)
(* wizard then writes a profile override in several steps, each of which   *)
(* may fail or be the last one before Ctrl+C.                              *)
(*                                                                         *)
(* Levels and volumes are whole decibel steps: a voice of loudness l at    *)
(* volume v peaks at l + v, the converter clips at 0 and silence reads     *)
(* Floor, as does everything from a muted source or at volume 0.  The      *)
(* volume is the linear gain the code takes it for.                        *)
(***************************************************************************)
EXTENDS Integers

CONSTANTS
    Runs,            \* bound: commands the user starts
    Loudness,        \* loudness levels a voice may have
    StartVolumes,    \* volumes other programs may have left (above 100 % too)
    MinVolume, Target, Tolerance, MaxIterations, Floor,
    Zero,            \* volume 0, which no gain brings up
    Least,           \* min_volume: Zero (its default) or MinVolume
    Muted,           \* a speaker whose source is muted
    Varies,          \* a speaker whose loudness differs between captures
    Unread,          \* wpctl get-volume failed
    Absent           \* no user override of that name

MaxVolume == 0       \* 100 %
Names   == {"default", "meeting", "mine"}
Shipped == {"default", "meeting"}
Live    == {"type", "clipboard"}
Profile == [mic: BOOLEAN, system: BOOLEAN, compiled: BOOLEAN, out: [Live -> 0..1]]
Fresh == [mic |-> FALSE, system |-> TRUE, compiled |-> TRUE, out |-> [o \in Live |-> 0]]

VARIABLES
    pc,        \* the next step of the running command, or "idle"
    cmd,       \* what the user asked for and answered: [kind, apply, name, live, system]
    voice,     \* how loud the user speaks during this command
    volume,    \* the volume of the source in PipeWire
    before,    \* the volume apply_loop started from, or Unread
    known,     \* `current`: the volume the program believes is set
    peak,      \* the last measured peak
    iter,      \* the iteration of apply_loop
    result,    \* how apply_loop ended
    isDefault, \* the source is the system default
    user,      \* the override of each name in the profile directory
    exit,      \* how the last command ended
    runs       \* commands started

vars == <<pc, cmd, voice, volume, before, known, peak, iter, result, isDefault,
          user, exit, runs>>
level == <<voice, volume, before, known, peak, iter, result>>

Command == [kind: {"meter", "calibrate", "setup"}, apply: BOOLEAN, name: Names \cup {Absent},
            live: Live \cup {"none"}, system: BOOLEAN]

NoAnswers(kind, apply) ==
    [kind |-> kind, apply |-> apply, name |-> Absent, live |-> "none", system |-> FALSE]

Clamp(x, lo, hi) == IF x < lo THEN lo ELSE IF x > hi THEN hi ELSE x
Distance(a, b)   == IF a < b THEN b - a ELSE a - b

-----------------------------------------------------------------------------
(* The level arithmetic.  `Zero` times a gain is 0 again; setting a volume *)
(* does not unmute, and nothing asks whether the source is muted. pw-cat   *)
(* exiting before the first sample reads as silence; a speaker of          *)
(* constant loudness has a pw-cat that does not.                           *)

analyze(l, v) == IF l = Muted \/ v = Zero THEN Floor ELSE Clamp(l + v, Floor, 0)
Measured == IF voice = Varies THEN {analyze(l, volume) : l \in Loudness} \cup {Floor}
                              ELSE {analyze(voice, volume)}
recommend_volume(current, measured) ==
    IF current = Zero THEN Least
    ELSE Clamp(current + (Target - measured), MinVolume, MaxVolume)
within_tolerance(p) == Distance(p, Target) <= Tolerance

load(n) == IF user[n] # Absent THEN user[n] ELSE IF n \in Shipped THEN Fresh ELSE Absent

-----------------------------------------------------------------------------
Init ==
    /\ pc = "idle" /\ exit = "none" /\ runs = 0 /\ result = "none"
    /\ cmd = NoAnswers("meter", FALSE)
    /\ voice = Varies /\ volume \in StartVolumes /\ before = Unread
    /\ known = MaxVolume /\ peak = Floor /\ iter = 0
    /\ isDefault = FALSE
    /\ \E own \in {Absent, [Fresh EXCEPT !.out["type"] = 1], [Fresh EXCEPT !.compiled = FALSE]} :
          user = [n \in Names |-> IF n = "default" THEN own ELSE Absent]

(* The process ends, with an error, a message or after its work.           *)
Exit(how) == pc' = "idle" /\ exit' = how
Goto(step) == pc' = step /\ UNCHANGED exit

(* The locals of the calibration are gone once it is over.                 *)
Forget == /\ voice' = Varies /\ before' = Unread /\ known' = MaxVolume
          /\ peak' = Floor /\ iter' = 0 /\ result' = "none"

(* A command starts: the settings are validated and the sources            *)
(* enumerated, or either fails.                                            *)
Invoke ==
    /\ pc = "idle" /\ runs < Runs
    /\ runs' = runs + 1
    /\ cmd' \in {NoAnswers("meter", FALSE), NoAnswers("setup", TRUE),
                 NoAnswers("calibrate", FALSE), NoAnswers("calibrate", TRUE)}
    /\ voice' \in Loudness \cup {Varies, Muted}
    /\ before' = Unread /\ known' = MaxVolume /\ peak' = Floor /\ iter' = 0
    /\ result' = "none"
    /\ (pc' = "floor" /\ exit' = "none") \/ Exit("failed")
    /\ UNCHANGED <<volume, isDefault, user>>

(* A wrong live meter starts over at the end of its window.                *)
ListenUnbounded ==
    /\ pc \in {"floor", "live"}
    /\ \/ Exit("failed")
       \/ cmd.kind = "setup" /\ Goto(IF pc = "floor" THEN "live" ELSE "floor")
    /\ UNCHANGED <<cmd, level, isDefault, user, runs>>

(* A capture without consequence: meter's endless loop until Ctrl+C or the *)
(* end of pw-cat, the noise floor, and the wizard's live meter.            *)
Listen ==
    /\ pc \in {"floor", "live"}
    /\ \/ Exit("failed")
       \/ cmd.kind = "meter" /\ Exit("ok")
       \/ cmd.kind = "calibrate" /\ Goto("speech")
       \/ cmd.kind = "setup" /\ Goto(IF pc = "floor" THEN "live" ELSE "speech")
    /\ UNCHANGED <<cmd, level, isDefault, user, runs>>

(* capture_window: the peak of one window, or an error.                    *)
Speech ==
    /\ pc = "speech"
    /\ \/ /\ \E p \in Measured : peak' = p
          /\ Goto("current")
       \/ Exit("failed") /\ UNCHANGED peak
    /\ UNCHANGED <<cmd, voice, volume, before, known, iter, result, isDefault, user, runs>>

(* current_linear: 1.0 stands in for a volume that cannot be read; a dry   *)
(* run of calibrate ends here.                                             *)
ReadVolume ==
    /\ pc = "current"
    /\ \/ known' = volume /\ before' = volume
       \/ known' = MaxVolume /\ before' = Unread
    /\ IF cmd.apply THEN Goto("apply") /\ iter' = 1 ELSE Exit("ok") /\ UNCHANGED iter
    /\ UNCHANGED <<cmd, voice, volume, peak, result, isDefault, user, runs>>

SetVolume ==
    /\ pc = "apply"
    /\ \/ /\ volume' = recommend_volume(known, peak)
          /\ Goto("measure")
       \/ Exit("failed") /\ UNCHANGED volume
    /\ UNCHANGED <<cmd, voice, before, known, peak, iter, result, isDefault, user, runs>>

AfterLoop == IF cmd.kind = "setup" THEN "prompts" ELSE "arguments"
(* A wrong AtCap gives up at any volume.                                   *)
AtAnyVolume == TRUE
AtCap == volume = MaxVolume

(* `current` is what was set; a wrong Believed keeps the level the loop    *)
(* started from.                                                           *)
BelievedStale == known
Believed == volume

(* The second half of an iteration of apply_loop.                          *)
Measure ==
    /\ pc = "measure"
    /\ known' = Believed
    /\ \/ Exit("failed") /\ UNCHANGED <<peak, iter, result>>
       \/ \E p \in Measured :
             /\ peak' = p
             /\ \/ /\ within_tolerance(p)
                   /\ result' = "converged" /\ Goto(AfterLoop) /\ UNCHANGED iter
                \/ /\ ~within_tolerance(p) /\ AtCap /\ p < Target
                   /\ result' = "tooquiet" /\ Exit("failed") /\ UNCHANGED iter
                \/ /\ ~within_tolerance(p) /\ ~(AtCap /\ p < Target)
                   /\ IF iter = MaxIterations
                         THEN result' = "stopped" /\ Goto(AfterLoop) /\ UNCHANGED iter
                         ELSE iter' = iter + 1 /\ Goto("apply") /\ UNCHANGED result
    /\ UNCHANGED <<cmd, voice, volume, before, isDefault, user, runs>>

(* The wizard asks for the preset, the delivery and the profile name; what *)
(* calibrate does next was given as arguments.                             *)
Prompts ==
    /\ pc \in {"prompts", "arguments"}
    /\ Forget
    /\ \/ /\ pc = "prompts"
          /\ \E n \in Names, o \in Live \cup {"none"}, s \in BOOLEAN :
                cmd' = [cmd EXCEPT !.name = n, !.live = o, !.system = s]
          /\ Goto("backend")
       \/ /\ pc = "arguments"
          /\ \E n \in Names \cup {Absent} : cmd' = [cmd EXCEPT !.name = n]
          /\ Goto("default")
    /\ UNCHANGED <<volume, isDefault, user, runs>>

(* ensure_backend_compiled: after the prompts, before any profile is       *)
(* written, and before the question whether to continue.                   *)
ensure_backend_compiledNever(n) == TRUE
ensure_backend_compiled(n) == (IF load(n) # Absent THEN load(n) ELSE load("default")).compiled

CheckBackend ==
    /\ pc = "backend"
    /\ IF ensure_backend_compiled(cmd.name) THEN Goto("confirm") ELSE Exit("refused")
    /\ UNCHANGED <<cmd, level, isDefault, user, runs>>

Confirm ==
    /\ pc = "confirm"
    /\ Goto("default") \/ Exit("aborted")
    /\ UNCHANGED <<cmd, level, isDefault, user, runs>>

MakeDefault ==
    /\ pc = "default"
    /\ LET next == IF cmd.name = Absent THEN Exit("ok") ELSE Goto("sources") IN
       \/ isDefault' = TRUE /\ next
       \/ next /\ UNCHANGED isDefault
       \/ Exit("failed") /\ UNCHANGED isDefault
    /\ UNCHANGED <<cmd, level, user, runs>>

(* update_sources: calibrate writes the microphone only, the wizard also   *)
(* the preset's system output.                                             *)
update_sourcesMicOnly(p) == [p EXCEPT !.mic = TRUE]
update_sources(p) == [p EXCEPT !.mic = TRUE,
                               !.system = IF cmd.kind = "setup" THEN cmd.system ELSE @]

(* resolve_and_write_profile and persist_profile: an override is updated;  *)
(* where there is none the wizard clones `default` and calibrate gives up. *)
(* calibrate also refuses a source that is not in the device list.         *)
WriteSources ==
    /\ pc = "sources"
    /\ \/ /\ user[cmd.name] # Absent
          /\ user' = [user EXCEPT ![cmd.name] = update_sources(@)]
          /\ IF cmd.kind = "setup" THEN Goto("outputs") ELSE Exit("ok")
       \/ /\ user[cmd.name] = Absent /\ cmd.kind = "setup"
          /\ user' = [user EXCEPT ![cmd.name] = load("default")]
          /\ Goto("sources")
       \/ Exit("failed") /\ UNCHANGED user
    /\ UNCHANGED <<cmd, level, isDefault, runs>>

(* write_outputs: the profile keeps its outputs; the chosen live delivery  *)
(* is added when it is not there yet.                                      *)
write_outputsReplaces(p) ==
    [p EXCEPT !.out = [o \in Live |-> IF o = cmd.live THEN 1 ELSE 0]]
write_outputs(p) ==
    IF cmd.live = "none" \/ p.out[cmd.live] > 0 THEN p ELSE [p EXCEPT !.out[cmd.live] = 1]

WriteOutputs ==
    /\ pc = "outputs"
    /\ \/ user' = [user EXCEPT ![cmd.name] = write_outputs(@)] /\ Exit("done")
       \/ Exit("failed") /\ UNCHANGED user
    /\ UNCHANGED <<cmd, level, isDefault, runs>>

(* Ctrl+C, or the end of the input a prompt waits for.                     *)
Interrupt ==
    /\ pc # "idle" /\ Exit("interrupted")
    /\ UNCHANGED <<cmd, level, isDefault, user, runs>>

Step == \/ Listen \/ Speech \/ ReadVolume \/ SetVolume \/ Measure \/ Prompts \/ CheckBackend
        \/ Confirm \/ MakeDefault \/ WriteSources \/ WriteOutputs
Next == Invoke \/ Step \/ Interrupt

Spec == Init /\ [][Next]_vars /\ WF_vars(Step)

-----------------------------------------------------------------------------
(* Properties.                                                             *)

(* Commands, levels and stored profiles have their types: the believed and *)
(* the measured levels stay in range and no delivery is stored twice.      *)
TypeOK ==
    /\ pc \in {"idle", "floor", "live", "speech", "current", "apply", "measure",
              "prompts", "arguments", "backend", "confirm", "default", "sources", "outputs"}
    /\ cmd \in Command /\ voice \in Loudness \cup {Varies, Muted}
    /\ {volume, known} \subseteq StartVolumes \cup {Least} \cup MinVolume..MaxVolume
    /\ before \in StartVolumes \cup {Least, Unread} \cup MinVolume..MaxVolume
    /\ peak \in Floor..0
    /\ iter \in 0..MaxIterations /\ result \in {"none", "converged", "stopped", "tooquiet"}
    /\ isDefault \in BOOLEAN
    /\ \A n \in Names : user[n] = Absent \/ user[n] \in Profile
    /\ exit \in {"none", "ok", "done", "failed", "refused", "aborted", "interrupted"}
    /\ runs \in 0..Runs

(* A user who speaks at one loudness into a source that is not muted gets  *)
(* a calibrated microphone: unless it started at 0, no permitted volume    *)
(* suits that voice, or it started further above clipping than the         *)
(* iterations can undo, apply_loop ends converged.                         *)
SteadyConverges ==
    result \in {"stopped", "tooquiet"} /\ voice \in Loudness /\ before \notin {Unread, Zero} =>
        \/ Target - voice \notin MinVolume..MaxVolume
        \/ before + voice > (MaxIterations - 1) * (0 - Target)

(* "Too quiet" is only told to a user whose steady voice misses the target *)
(* at full volume, also when the volume could not be read or was 0, or     *)
(* whose source is muted.                                                  *)
TooQuietIsTrue ==
    result = "tooquiet" /\ voice \in Loudness => analyze(voice, MaxVolume) < Target - Tolerance

(* When the wizard says it is done, the named override holds everything    *)
(* that was chosen, whatever an earlier, interrupted run had left there.   *)
DoneMatchesChoice ==
    exit = "done" => LET p == user[cmd.name] IN
        /\ p # Absent /\ p.mic /\ p.system = cmd.system
        /\ cmd.live # "none" => p.out[cmd.live] = 1

(* The wizard leaves no new profile with a backend this build lacks.  A    *)
(* name that has a shipped profile and no override is outside: there the   *)
(* shipped profile is checked and the user's `default` is cloned.          *)
DoneIsRunnable ==
    exit = "done" => user[cmd.name].compiled \/ cmd.name \in Shipped

(* Writing a profile only adds: an override never disappears and loses     *)
(* neither its backend nor a delivery it had.                              *)
OverridesOnlyGrow ==
    [][\A n \in Names : user[n] # Absent =>
          /\ user'[n] # Absent /\ user'[n].compiled = user[n].compiled
          /\ \A o \in Live : user'[n].out[o] >= user[n].out[o]]_user

(* calibrate and setup come to an end however the voice varies, when       *)
(* pw-cat and wpctl return and the prompts are answered.                   *)
SetupEnds == []<>(pc = "idle" \/ cmd.kind = "meter")
=============================================================================
