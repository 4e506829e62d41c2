---------------------------- MODULE ProfileStore ----------------------------
(***************************************************************************)
(* Profiles on disk (zwhisper-core/profile) and who works on them: the     *)
(* daemon, which loads them and keeps the active one (profiles_service,    *)
(* active_profile), `zwhisper profile clone` and the microphone set-up,    *)
(* which write user overrides, the settings window, and the user's editor. *)
(*                                                                         *)
(* "p" may be shipped and may have a user override, "q" is embedded and is *)
(* never touched.  A document has two parts, sources and outputs, each     *)
(* named by the process that wrote it; a part that validation refuses is   *)
(* Bad, whatever is wrong with it.                                         *)
(***************************************************************************)
EXTENDS Naturals, FiniteSets

CONSTANTS
    Writers,    \* processes that write: [Writers -> kind] is chosen in Init
    Absent,     \* no user override
    Partial,    \* created and not written
    Broken,     \* does not parse
    MaxEdits,   \* edits by hand (bound)
    MaxCrashes  \* deaths of the daemon or of a writer (bound)

Kind == {"clone", "sources", "outputs", "settings"}
Name == {"p", "q"}
Nobody == "nobody"
Bad == "bad"
Part == Writers \union {Nobody}
Doc == [sources : Part, outputs : Part]
Parsed == [sources : Part \union {Bad}, outputs : Part \union {Bad}]
ShippedDoc == [sources |-> Nobody, outputs |-> Nobody]

(* What a hand may leave: no file, no TOML, or a part that is not valid.   *)
Spoilt == {Absent, Broken, [ShippedDoc EXCEPT !.sources = Bad],
           [ShippedDoc EXCEPT !.outputs = Bad]}

VARIABLES
    kind, shipped,
    user,       \* the override of "p"
    version,    \* history: how often it changed
    pc, held,   \* per writer: step, [doc, version] that it read
    bad,        \* per writer: its edit is not valid
    told,       \* per writer: what it reported
    up, active, \* the daemon and its active profile
    stored,     \* file active-profile
    calls,      \* SetActive calls between store and the lock: names
    edits, crashes

fileVars == <<kind, shipped, user, version>>
writerVars == <<pc, held, bad, told>>
daemonVars == <<up, active, stored, calls>>
vars == <<fileVars, writerVars, daemonVars, edits, crashes>>

Init ==
    /\ kind \in [Writers -> Kind] /\ shipped \in BOOLEAN
    /\ user \in Spoilt \union {ShippedDoc} /\ version = 0
    /\ pc = [w \in Writers |-> "start"]
    /\ held = [w \in Writers |-> [doc |-> ShippedDoc, version |-> 0]]
    /\ bad \in [Writers -> BOOLEAN] /\ \A w \in Writers : kind[w] = "clone" => ~bad[w]
    /\ told = [w \in Writers |-> ""]
    /\ up = TRUE /\ active = "" /\ stored = "" /\ calls = {}
    /\ edits = 0 /\ crashes = 0

-----------------------------------------------------------------------------
(* Resolution and loading *)

(* resolve: a file of the user's hides the shipped one, whatever is in it. *)
resolve ==
    IF user # Absent THEN user ELSE IF shipped THEN ShippedDoc ELSE Absent

(* load_from_path and Profile::validate.                                   *)
Loadable(d) == d \in Doc

load(name) == name = "q" \/ Loadable(resolve)

(* Mutant: the shipped directory is scanned first.                         *)
list_sourceShipped ==
    IF shipped THEN "shipped" ELSE IF user # Absent THEN "user" ELSE "none"

(* list_entries: the directories in the order of resolve; whether a file   *)
(* can be read plays no part.                                              *)
list_source ==
    IF user # Absent THEN "user" ELSE IF shipped THEN "shipped" ELSE "none"

resolved_source ==
    CASE resolve = Absent -> "none"
      [] user # Absent -> "user"
      [] OTHER -> "shipped"

-----------------------------------------------------------------------------
(* Writers *)

Put(d) == user' = d /\ version' = version + 1

Ends(w, outcome) ==
    pc' = [pc EXCEPT ![w] = "done"] /\ told' = [told EXCEPT ![w] = outcome]

Goes(w, step) == pc' = [pc EXCEPT ![w] = step] /\ UNCHANGED told

Hold(w, d) == held' = [held EXCEPT ![w] = [doc |-> d, version |-> version]]

(* Mutant: an existing file is truncated.                                  *)
create_newTruncates == TRUE
create_new == user = Absent

(* clone_to_user of "p" to itself, the way to override a shipped profile:  *)
(* load, create_new, write.                                                *)
CloneLoad(w) ==
    /\ kind[w] = "clone" /\ pc[w] = "start"
    /\ IF load("p") THEN Goes(w, "create") /\ Hold(w, resolve)
       ELSE Ends(w, "error") /\ UNCHANGED held
    /\ UNCHANGED <<fileVars, bad, daemonVars, edits, crashes>>

(* Mutant: a file that is there already counts as cloned.                  *)
CloneCreateIdempotent(w) ==
    /\ pc[w] = "create"
    /\ IF create_new THEN Put(Partial) /\ Goes(w, "fill") /\ UNCHANGED held
       ELSE Ends(w, "saved") /\ UNCHANGED <<user, version, held>>
    /\ UNCHANGED <<kind, shipped, bad, daemonVars, edits, crashes>>

CloneCreate(w) ==
    /\ pc[w] = "create"
    /\ IF create_new THEN Put(Partial) /\ Goes(w, "fill") /\ UNCHANGED held
       ELSE Ends(w, "error") /\ UNCHANGED <<user, version, held>>
    /\ UNCHANGED <<kind, shipped, bad, daemonVars, edits, crashes>>

(* Mutant: a write that fails is not reported.                             *)
CloneFillSilent(w) ==
    /\ pc[w] = "fill"
    /\ \/ IF user = Partial THEN Put(held[w].doc) ELSE UNCHANGED <<user, version>>
       \/ UNCHANGED <<user, version>>
    /\ Ends(w, "saved")
    /\ UNCHANGED <<kind, shipped, held, bad, daemonVars, edits, crashes>>

(* The write goes to the file that was created, which another writer may   *)
(* have replaced by now; when it fails the empty file stays.               *)
CloneFill(w) ==
    /\ pc[w] = "fill"
    /\ \/ /\ IF user = Partial THEN Put(held[w].doc) ELSE UNCHANGED <<user, version>>
          /\ Ends(w, "saved")
       \/ UNCHANGED <<user, version>> /\ Ends(w, "error")
    /\ UNCHANGED <<kind, shipped, held, bad, daemonVars, edits, crashes>>

(* update_sources and set_outputs edit overrides only.  What is read has to*)
(* be TOML, not to be valid: an edit may repair the part that it rewrites. *)
(* (An empty override parses too; no edit makes it a profile.)             *)
EditRead(w) ==
    /\ kind[w] \in {"sources", "outputs"} /\ pc[w] = "start"
    /\ IF user \in Parsed THEN Goes(w, "write") /\ Hold(w, user)
       ELSE Ends(w, "error") /\ UNCHANGED held
    /\ UNCHANGED <<fileVars, bad, daemonVars, edits, crashes>>

SourcesEdited(w) == [held[w].doc EXCEPT !.sources = w]
OutputsEdited(w) == [held[w].doc EXCEPT !.outputs = w]
Edited(w) == IF kind[w] = "outputs" THEN OutputsEdited(w) ELSE SourcesEdited(w)

(* Mutant: the result is not validated.                                    *)
EditWriteUnchecked(w) ==
    /\ kind[w] \in {"sources", "outputs"} /\ pc[w] = "write"
    /\ Put(IF bad[w] THEN [held[w].doc EXCEPT !.sources = Bad] ELSE Edited(w))
    /\ Ends(w, "saved")
    /\ UNCHANGED <<kind, shipped, held, bad, daemonVars, edits, crashes>>

(* load_from_str of the result, then atomic_replace, which may fail.       *)
EditWrite(w) ==
    /\ kind[w] \in {"sources", "outputs"} /\ pc[w] = "write"
    /\ \/ ~bad[w] /\ Loadable(Edited(w)) /\ Put(Edited(w)) /\ Ends(w, "saved")
       \/ Ends(w, "error") /\ UNCHANGED <<user, version>>
    /\ UNCHANGED <<kind, shipped, held, bad, daemonVars, edits, crashes>>

(* The settings window: a profile is selected and its form filled in,      *)
FormLoad(w) ==
    /\ kind[w] = "settings" /\ pc[w] = "start"
    /\ IF load("p") THEN Goes(w, "form") /\ Hold(w, resolve)
       ELSE Ends(w, "error") /\ UNCHANGED held
    /\ UNCHANGED <<fileVars, bad, daemonVars, edits, crashes>>

(* Mutant: what the form does not show is taken from when it was filled.   *)
SaveClickStale(w) ==
    /\ kind[w] = "settings" /\ pc[w] = "form"
    /\ IF load("p")
       THEN held' = [held EXCEPT ![w] = [doc |-> @.doc, version |-> version]]
            /\ Goes(w, "confirm")
       ELSE Ends(w, "error") /\ UNCHANGED held
    /\ UNCHANGED <<fileVars, bad, daemonVars, edits, crashes>>

(* and Save reads the profile again for what the form does not show        *)
(* (form_to_profile).                                                      *)
SaveClick(w) ==
    /\ kind[w] = "settings" /\ pc[w] = "form"
    /\ IF load("p") THEN Hold(w, resolve) /\ Goes(w, "confirm")
       ELSE Ends(w, "error") /\ UNCHANGED held
    /\ UNCHANGED <<fileVars, bad, daemonVars, edits, crashes>>

(* While the daemon records the user is asked, and may decline.            *)
Confirm(w) ==
    /\ pc[w] = "confirm"
    /\ \/ Goes(w, "write")
       \/ up /\ Ends(w, "error")
    /\ UNCHANGED <<fileVars, held, bad, daemonVars, edits, crashes>>

(* perform_save: validate, ask the daemon whether it records, write_atomic,*)
(* Profiles1.Reload.  A refusal or an error of the daemon before the write,*)
(* and a write that fails, abort the save; an error of the daemon after it *)
(* is reported although the file is written.                               *)
SaveWrite(w) ==
    /\ kind[w] = "settings" /\ pc[w] = "write"
    /\ \/ ~bad[w] /\ Put(Edited(w)) /\ (Ends(w, "saved") \/ Ends(w, "error"))
       \/ Ends(w, "error") /\ UNCHANGED <<user, version>>
    /\ UNCHANGED <<kind, shipped, held, bad, daemonVars, edits, crashes>>

Kill(w) ==
    /\ pc[w] \notin {"start", "done"} /\ crashes < MaxCrashes
    /\ crashes' = crashes + 1
    /\ Ends(w, "killed")
    /\ UNCHANGED <<fileVars, held, bad, daemonVars, edits>>

HandEdit ==
    /\ edits < MaxEdits /\ edits' = edits + 1
    /\ user # Partial
    /\ \E d \in Spoilt \ {user} : Put(d)
    /\ UNCHANGED <<kind, shipped, writerVars, daemonVars, crashes>>

-----------------------------------------------------------------------------
(* The daemon *)

store(n) == stored' = n

(* SetActive up to the lock.                                               *)
SetActive(n) ==
    /\ up /\ n \notin calls /\ load(n)
    /\ store(n) /\ calls' = calls \union {n}
    /\ UNCHANGED <<fileVars, writerVars, up, active, edits, crashes>>

SetActiveReplies(n) ==
    /\ n \in calls
    /\ active' = n /\ calls' = calls \ {n}
    /\ UNCHANGED <<fileVars, writerVars, up, stored, edits, crashes>>

(* StartRecording notes the profile; the file keeps the selection.         *)
StartRecording(n) ==
    /\ up /\ load(n)
    /\ active' = n
    /\ UNCHANGED <<fileVars, writerVars, up, stored, calls, edits, crashes>>

DaemonDies ==
    /\ up /\ crashes < MaxCrashes
    /\ crashes' = crashes + 1
    /\ up' = FALSE /\ active' = "" /\ calls' = {}
    /\ UNCHANGED <<fileVars, writerVars, stored, edits>>

(* Mutant: the stored name is taken as it is.                              *)
load_fromTrusts == stored
load_from == IF stored # "" /\ load(stored) THEN stored ELSE ""

DaemonStarts ==
    /\ ~up
    /\ up' = TRUE /\ active' = load_from
    /\ UNCHANGED <<fileVars, writerVars, stored, calls, edits, crashes>>

Writer(w) ==
    CloneLoad(w) \/ CloneCreate(w) \/ CloneFill(w) \/ EditRead(w) \/ EditWrite(w)
    \/ FormLoad(w) \/ SaveClick(w) \/ Confirm(w) \/ SaveWrite(w)

Next ==
    \/ \E w \in Writers : Writer(w) \/ Kill(w)
    \/ HandEdit
    \/ \E n \in Name : SetActive(n) \/ SetActiveReplies(n) \/ StartRecording(n)
    \/ DaemonDies \/ DaemonStarts

Spec == Init /\ [][Next]_vars

-----------------------------------------------------------------------------
(* Properties *)

(* Every variable stays in its type.                                      *)
TypeOK ==
    /\ user \in Parsed \union {Absent, Partial, Broken}
    /\ version \in 0 .. 2 * Cardinality(Writers) + MaxEdits
    /\ pc \in [Writers -> {"start", "create", "fill", "write", "form", "confirm", "done"}]
    /\ held \in [Writers -> [doc : Parsed, version : Nat]]
    /\ told \in [Writers -> {"", "saved", "error", "killed"}]
    /\ {active, stored} \subseteq Name \union {""}
    /\ calls \subseteq Name

(* `profile list` names the file that a load would read.                   *)
ListTellsSource == list_source = resolved_source

(* Whatever is killed or fails at whatever point, and whoever writes at the *)
(* same time, one step alone of the program makes a profile that loads stop *)
(* loading: the creation of the override by a clone onto the own name of a  *)
(* shipped profile, which hides that one until the clone is written.  An    *)
(* override that loads is never broken: edits are validated before they are *)
(* written through a temporary file, and clone opens with create_new.       *)
WholeStaysWhole ==
    [][edits' = edits /\ load("p")
          => load("p")' \/ (user = Absent /\ user' = Partial)]_vars

(* The empty override that hides a shipped profile is one that a clone is   *)
(* about to write, or one whose clone was killed or told its user that it   *)
(* failed: none that reported success leaves it.                            *)
HiddenMeanwhile ==
    user = Partial =>
        \E w \in Writers : /\ kind[w] = "clone"
                           /\ pc[w] = "fill" \/ told[w] \in {"killed", "error"}

(* A clone that is told to be saved had found no file of that name.        *)
OneCloneSucceeds ==
    edits = 0 => Cardinality({w \in Writers : kind[w] = "clone" /\ told[w] = "saved"}) <= 1

(* A write whose profile nobody touched since it was read changes its own  *)
(* part only: a new microphone keeps the outputs and the other way round.  *)
EditsKeepTheRest ==
    [][\A w \in Writers :
          pc[w] = "write" /\ user \in Parsed /\ user' \in Doc /\ user' # user
          /\ pc'[w] = "done" /\ held[w].version = version
          => \/ kind[w] = "outputs" /\ user'.sources = user.sources
             \/ kind[w] # "outputs" /\ user'.outputs = user.outputs]_vars

(* A selection whose profile was removed or broken since does not come     *)
(* back as the active profile of the next daemon.                          *)
RestartOffersLoadable ==
    [][~up /\ up' => active' = "" \/ load(active')]_vars
=============================================================================
