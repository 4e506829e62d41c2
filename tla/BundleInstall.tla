---------------------------- MODULE BundleInstall ----------------------------
(***************************************************************************)
(* Installing a model that is a directory of files (BundleInstaller of     *)
(* zwhisper-core/transcribe/bundle_download.rs, archive_extract.rs): fetch *)
(* each file, or fetch one archive and unpack it, into a staging directory;*)
(* verify; then swap it for the final one.  `zwhisper model install` runs  *)
(* it; it may be killed between any two steps and started again.           *)
(*                                                                         *)
(* A file is absent, torn, good (what the registry's hash names) or        *)
(* foreign (something else).                                               *)
(***************************************************************************)
EXTENDS Integers, Sequences, SequencesExt

CONSTANTS
    Files,          \* expected_files of the bundle, in the order of its source
    Archives,       \* archives that the registry may name: sequences of Entry
    MaxEntries, MaxUnpacked,    \* the archive's limits
    MaxFaults       \* faults of network and disk, kills (bound)

VARIABLES
    source,     \* "multi", or the archive
    place,      \* what the final path is: none, dir or file
    final,      \* its files
    staging,    \* files of the staging directory; "part" is the archive
    pc, todo,   \* control state; files, or entries, still to be done
    unpacked,   \* bytes written by the extraction
    result,     \* of the last install
    faults

vars == <<source, place, final, staging, pc, todo, unpacked, result, faults>>

Expected == {Files[i] : i \in 1 .. Len(Files)}
Entry == [kind : {"file", "dir", "link"}, name : Expected \union {"extra", ".."},
          declared : Nat, size : Nat]
Names == Expected \union {"extra", "part"}
Multi == source = <<"multi">>
Empty == [n \in Names |-> "absent"]

(* The file with which a hand-made, incomplete directory begins.           *)
HandMade == {[Empty EXCEPT ![n] = "foreign"] : n \in Expected} \union {Empty}

Init ==
    /\ source \in {<<"multi">>} \union Archives
    /\ place \in {"none", "dir", "file"}
    /\ final \in IF place = "dir" THEN HandMade ELSE {Empty}
    /\ staging = Empty
    /\ pc = "idle" /\ todo = <<>> /\ unpacked = 0
    /\ result = "none" /\ faults = 0

Fault == faults < MaxFaults /\ faults' = faults + 1

missing_files(dir) == {n \in Expected : dir[n] = "absent"}
bundle_complete == place = "dir" /\ missing_files(final) = {}

(* An error before the swap removes the staging tree.                      *)
FailClean(o) ==
    /\ result' = o /\ pc' = "idle" /\ staging' = Empty /\ todo' = <<>>

(* Mutant: the old directory makes room before the new one is there.       *)
BeginMakesRoom ==
    /\ pc = "idle" /\ ~bundle_complete
    /\ staging' = Empty /\ final' = Empty
    /\ todo' = IF Multi THEN Files ELSE source
    /\ pc' = "fetch"
    /\ unpacked' = 0 /\ result' = "none"
    /\ UNCHANGED <<source, place, faults>>

(* A complete bundle is left alone.  The removal of a stale staging tree   *)
(* is best effort.                                                         *)
Begin ==
    /\ pc = "idle"
    /\ IF bundle_complete
       THEN result' = "installed" /\ UNCHANGED <<staging, todo, pc, unpacked, faults>>
       ELSE /\ \/ staging' = Empty /\ UNCHANGED faults
               \/ Fault /\ UNCHANGED staging
            /\ todo' = IF Multi THEN Files ELSE source
            /\ pc' = "fetch"
            /\ unpacked' = 0 /\ result' = "none"
    /\ UNCHANGED <<source, place, final>>

-----------------------------------------------------------------------------
(* download_verify_file: the file is created, grows, is synced, and is     *)
(* removed again when its size or hash is wrong.                           *)

Target == IF Multi THEN Head(todo) ELSE "part"

StartFetch ==
    /\ pc = "fetch" /\ todo # <<>>
    /\ staging' = [staging EXCEPT ![Target] = "torn"]
    /\ pc' = "body"
    /\ UNCHANGED <<source, place, final, todo, unpacked, result, faults>>

Verified ==
    IF Multi THEN pc' = "fetch" /\ todo' = Tail(todo)
             ELSE pc' = "extract" /\ UNCHANGED todo

(* Mutant: the size is compared, the hash is not.                          *)
EndFetchUnhashed ==
    /\ pc = "body"
    /\ \/ staging' = [staging EXCEPT ![Target] = "good"] /\ UNCHANGED faults
       \/ Fault /\ staging' = [staging EXCEPT ![Target] = "foreign"]
    /\ Verified
    /\ UNCHANGED <<source, place, final, unpacked, result>>

EndFetch ==
    /\ pc = "body"
    /\ \/ /\ staging' = [staging EXCEPT ![Target] = "good"]
          /\ Verified /\ UNCHANGED <<result, faults>>
       \/ Fault /\ FailClean("failed")
    /\ UNCHANGED <<source, place, final, unpacked>>

AllFetched ==
    /\ pc = "fetch" /\ todo = <<>>
    /\ pc' = "check"
    /\ UNCHANGED <<source, place, final, staging, todo, unpacked, result, faults>>

-----------------------------------------------------------------------------
(* Extraction *)

(* Mutant: the size that the header declares is believed.                  *)
RefusedDeclared(e) ==
    \/ e.kind = "link" \/ e.name = ".."
    \/ e.kind = "file" /\ e.declared > MaxUnpacked

(* Links, names that leave the directory and oversized entries; write_entry*)
(* counts what it really copies.  The cap of one entry is the archive's.   *)
Refused(e) ==
    \/ e.kind = "link" \/ e.name = ".."
    \/ e.kind = "file" /\ (e.declared > MaxUnpacked \/ e.size > MaxUnpacked)

(* The next entry: an entry past the count, a refused one, or one that     *)
(* takes the total over the limit ends the install.  The oversized entry   *)
(* is cut off when its cap is reached.                                     *)
Extract ==
    /\ pc = "extract" /\ todo # <<>>
    /\ LET e == Head(todo)
           after == unpacked + IF e.kind = "file" THEN e.size ELSE 0 IN
         IF Len(source) > MaxEntries \/ Refused(e)
         THEN FailClean("failed") /\ UNCHANGED <<unpacked, faults>>
         ELSE /\ unpacked' = after
              /\ \/ /\ after > MaxUnpacked
                    /\ FailClean("failed") /\ UNCHANGED faults
                 \/ /\ after <= MaxUnpacked
                    /\ staging' = IF e.kind = "file"
                                  THEN [staging EXCEPT ![e.name] = "good"] ELSE staging
                    /\ todo' = Tail(todo)
                    /\ UNCHANGED <<pc, result, faults>>
                 \/ Fault /\ FailClean("failed")
    /\ UNCHANGED <<source, place, final>>

Extracted ==
    /\ pc = "extract" /\ todo = <<>>
    /\ staging' = [staging EXCEPT !["part"] = "absent"]
    /\ pc' = "check"
    /\ UNCHANGED <<source, place, final, todo, unpacked, result, faults>>

-----------------------------------------------------------------------------
(* Completeness and the swap *)

Check ==
    /\ pc = "check"
    /\ IF missing_files(staging) # {} THEN FailClean("failed")
       ELSE pc' = "remove" /\ UNCHANGED <<staging, todo, result>>
    /\ UNCHANGED <<source, place, final, unpacked, faults>>

(* Mutant: anything at the final path is an error.                         *)
RemoveRefuses ==
    /\ pc = "remove"
    /\ IF place = "none" THEN pc' = "rename" /\ UNCHANGED result
                         ELSE pc' = "idle" /\ result' = "failed"
    /\ UNCHANGED <<source, place, final, staging, todo, unpacked, faults>>

(* Errors of atomic_install leave the staging tree behind.                 *)
FailDirty == result' = "failed" /\ pc' = "idle" /\ UNCHANGED <<staging, todo>>

(* What is at the final path is removed first, file by file; that a plain  *)
(* file is there is an error.                                              *)
RemoveOld ==
    /\ pc = "remove"
    /\ \/ /\ place = "none" /\ pc' = "rename"
          /\ UNCHANGED <<staging, todo, place, final, result, faults>>
       \/ /\ place = "dir" /\ final # Empty
          /\ \E n \in Names : final[n] # "absent" /\ final' = [final EXCEPT ![n] = "absent"]
          /\ UNCHANGED <<staging, todo, place, pc, result, faults>>
       \/ /\ place = "dir" /\ final = Empty /\ place' = "none" /\ pc' = "rename"
          /\ UNCHANGED <<staging, todo, final, result, faults>>
       \/ /\ place = "file" /\ FailDirty /\ UNCHANGED <<place, final, faults>>
       \/ /\ place = "dir" /\ Fault /\ FailDirty /\ UNCHANGED <<place, final>>
    /\ UNCHANGED <<source, unpacked>>

(* Mutant: the error of the rename is dropped.                             *)
RenameAnyway ==
    /\ pc = "rename" /\ pc' = "idle" /\ result' = "installed"
    /\ \/ place' = "dir" /\ final' = staging /\ staging' = Empty /\ UNCHANGED faults
       \/ Fault /\ UNCHANGED <<place, final, staging>>
    /\ UNCHANGED <<source, todo, unpacked>>
Rename ==
    /\ pc = "rename"
    /\ \/ /\ place' = "dir" /\ final' = staging /\ staging' = Empty
          /\ pc' = "idle" /\ result' = "installed" /\ UNCHANGED <<todo, faults>>
       \/ Fault /\ FailDirty /\ UNCHANGED <<place, final>>
    /\ UNCHANGED <<source, unpacked>>

Killed ==
    /\ pc # "idle" /\ Fault
    /\ pc' = "idle" /\ result' = "none"
    /\ UNCHANGED <<source, place, final, staging, todo, unpacked>>

Step == StartFetch \/ EndFetch \/ AllFetched \/ Extract \/ Extracted \/ Check
        \/ RemoveOld \/ Rename
Next == Begin \/ Step \/ Killed

(* The process runs on and the user tries again.                           *)
Spec == Init /\ [][Next]_vars /\ WF_vars(Begin \/ Step)

-----------------------------------------------------------------------------
(* What the rest of the program sees: ModelRegistry of transcribe/model.rs *)

resolve_spec == IF place = "dir" /\ missing_files(final) = {}
                THEN "Directory" ELSE "ModelBundleIncomplete"

(* Mutant: a directory is taken for a bundle.                              *)
status_any == IF place = "none" THEN "Missing" ELSE "Installed"

status ==
    IF place = "none" THEN "Missing"
    ELSE IF place = "file" THEN "Corrupt"
    ELSE IF missing_files(final) = {} THEN "Installed"
    ELSE IF missing_files(final) = Expected THEN "Missing" ELSE "Corrupt"

-----------------------------------------------------------------------------
(* Properties *)

(* Every variable stays in its type.                                      *)
TypeOK ==
    /\ place \in {"none", "dir", "file"}
    /\ {final, staging} \subseteq [Names -> {"absent", "torn", "good", "foreign"}]
    /\ pc \in {"idle", "fetch", "body", "extract", "check", "remove", "rename"}
    /\ result \in {"none", "installed", "failed"}
    /\ unpacked \in Nat /\ faults \in 0 .. MaxFaults
    /\ place # "dir" => final = Empty

(* A directory that counts as installed holds every file, verified: a kill *)
(* or a failure at no point leaves a bundle that is complete by its names  *)
(* and torn or foreign by its contents (bundle_download.rs, "SHA-256 + size*)
(* verification BEFORE install").                                          *)
CompleteIsVerified == bundle_complete => \A n \in Expected : final[n] = "good"

(* Success is reported for a bundle that is really there.                  *)
InstalledIsComplete == result = "installed" => bundle_complete

(* The list, the resolver and the installer agree on what is installed.    *)
AgreeOnInstalled ==
    /\ (status = "Installed") <=> (resolve_spec = "Directory")
    /\ (status = "Installed") <=> bundle_complete

(* Unpacking stops within one entry of its limit, however the archive lies *)
(* about its sizes.                                                        *)
ExtractionIsBounded == unpacked <= 2 * MaxUnpacked

(* Nothing touches the final path before a complete new bundle lies beside *)
(* it.                                                                     *)
FinalWaitsForStaging ==
    [][ final' # final \/ place' # place =>
          /\ pc \in {"remove", "rename"}
          /\ missing_files(staging) = {} ]_vars

(* What an archive holds that the registry may well name.                  *)
Installable ==
    Multi \/
    /\ Len(source) <= MaxEntries
    /\ \A i \in 1 .. Len(source) : ~Refused(source[i])
    /\ Expected \subseteq {source[i].name : i \in 1 .. Len(source)}
    /\ FoldLeft(LAMBDA n, e : n + e.size, 0, source) <= MaxUnpacked

(* From whatever an earlier attempt left, trying again installs the bundle,*)
(* unless a plain file is in the way.                                      *)
Converges == []<>(Installable /\ place # "file" => result = "installed")
=============================================================================
