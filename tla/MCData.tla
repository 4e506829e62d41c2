------------------------------- MODULE MCData -------------------------------
(***************************************************************************)
(* Model-checking instance of what the user sets up: ProfileStore (profiles*)
(* on disk and their writers), Sources (which device a profile or a command*)
(* names) and Secrets (the API key). One part runs in a behaviour. Every   *)
(* invariant includes the type invariants of the parts it speaks of.       *)
(***************************************************************************)
EXTENDS Naturals, FiniteSets

CONSTANTS
    Writers, Absent, Partial, Broken, MaxEdits, MaxCrashes,
    Mics, Sinks, NoNode, MaxId, Moves,
    Keys, Inodes, i1, None, Edits

VARIABLE part   \* the part of the system that runs

VARIABLES kind, shipped, user, version, pc, held, bad, told, up, active,
          stored, calls, edits, crashes
P == INSTANCE ProfileStore
pvars == <<kind, shipped, user, version, pc, held, bad, told, up, active,
           stored, calls, edits, crashes>>

VARIABLES id, source, sink, moves, profile, cli, changed, lost, rec, absent,
          defaults
S == INSTANCE Sources
svars == <<id, source, sink, moves, profile, cli, changed, lost, rec, absent,
           defaults>>

VARIABLES env, path, mode, body, parentOk, valid, k_edits, rd, seen, quiet
K == INSTANCE Secrets
     WITH edits <- k_edits
kvars == <<env, path, mode, body, parentOk, valid, k_edits, rd, seen, quiet>>

(* The bounds are numbers, and what is no document, node, key or file is   *)
(* none.                                                                   *)
ASSUME StoreAssumption ==
    /\ IsFiniteSet(Writers) /\ MaxEdits \in Nat /\ MaxCrashes \in Nat
    /\ P!Parsed \intersect {Absent, Partial, Broken} = {}
    /\ Absent \notin {Partial, Broken} /\ Partial # Broken
    /\ P!Bad \notin P!Part

ASSUME GraphAssumption ==
    MaxId \in Nat /\ Moves \in Nat /\ NoNode \notin Mics \union Sinks

ASSUME KeyAssumption ==
    Edits \in Nat /\ i1 \in Inodes /\ None \notin Keys \union Inodes

(* One part runs; the others keep one of their initial states.             *)
Init ==
    /\ part \in {"profiles", "devices", "secrets"}
    /\ P!Init /\ (part # "profiles" => user = Absent /\ shipped /\ kind = [w \in Writers |-> CHOOSE k \in P!Kind : TRUE] /\ bad = [w \in Writers |-> FALSE])
    /\ S!Init /\ (part # "devices" => id = [n \in S!Nodes |-> 0] /\ profile.mic = "default" /\ profile.monitor = "")
    /\ K!Init /\ (part # "secrets" => path = None /\ valid = K!FirstKey /\ env = [r \in K!Readers |-> None] /\ body[i1] = "nokey" /\ mode[i1] = "0600")

Next ==
    \/ /\ part = "profiles" /\ P!Next
       /\ UNCHANGED <<part, svars, kvars>>
    \/ /\ part = "devices" /\ S!Next
       /\ UNCHANGED <<part, pvars, kvars>>
    \/ /\ part = "secrets" /\ K!Next
       /\ UNCHANGED <<part, pvars, svars>>

vars == <<part, pvars, svars, kvars>>

Spec ==
    /\ Init /\ [][Next]_vars

-----------------------------------------------------------------------------
(* `profile list` names the file a load reads, at most one clone of a name *)
(* succeeds, and an empty override is not one that was reported as cloned  *)
(* (listing.rs, loader.rs, cli profile.rs).                                *)
StoreAgrees ==
    /\ part = "profiles" =>
          /\ P!TypeOK
          /\ P!ListTellsSource
          /\ P!OneCloneSucceeds
          /\ P!HiddenMeanwhile

(* While devices come and go, only the chosen source's volume is turned,   *)
(* the wizard stores a microphone, a recording has the sources its profile *)
(* names, and a device reported missing was missing (setup/mod.rs,         *)
(* audio.rs, devices.rs).                                                  *)
DevicesMatch ==
    /\ part = "devices" =>
          /\ S!TypeOK
          /\ S!TurnsOnlyTheChosen
          /\ S!WizardNamesMic
          /\ S!RecordsWhatProfileSays
          /\ S!MissingIsTrue

(* A key from the file is one it held since the job began and is dropped   *)
(* after its request, a configuration in order is not refused, and an OK of*)
(* health means that a job's key is accepted (resolver.rs, backend.rs,     *)
(* deepgram.rs).                                                           *)
KeysMatch ==
    /\ part = "secrets" =>
          /\ K!TypeOK
          /\ K!KeyIsCurrent
          /\ K!GoodConfigResolves
          /\ K!HealthPredictsJob

(* Only the creation of a clone's override, which hides a shipped profile  *)
(* until it is written, makes a profile stop loading; an undisturbed edit  *)
(* changes its own part only, and a restarted daemon's active profile loads*)
(* (listing.rs, client.rs, active_profile.rs).                             *)
ProfilesKept ==
    /\ P!WholeStaysWhole
    /\ P!EditsKeepTheRest
    /\ P!RestartOffersLoadable
=============================================================================
