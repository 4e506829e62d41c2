------------------------------- MODULE Secrets ------------------------------
(***************************************************************************)
(* The API key of a cloud backend: the environment before secrets.toml,    *)
(* the file opened once and checked on that descriptor, the key used for   *)
(* one request and dropped.  `zwhisper backend health` in the user's shell *)
(* and a transcription job in the daemon go the same way while the user    *)
(* edits the file, by writing in place or by renaming a new one over it,   *)
(* changes its mode, and rotates the key at the provider.                  *)
(***************************************************************************)
EXTENDS Naturals

CONSTANTS
    Keys,     \* key values
    Inodes,   \* files that may come to stand at the path
    Edits,    \* bound: changes of the file and of the provider's key
    None      \* no key, no file

Readers == {"health", "job"}
Bodies == Keys \cup {"torn", "nokey"}   \* nokey: no section, or an empty api_key
Modes == {"0600", "0400", "other"}     \* other: a looser mode, or another user's file

VARIABLES
    env,       \* what the variable holds in each process: None, "empty" or a key
    path,      \* the file at secrets.toml, or None
    mode,      \* mode and owner of each file
    body,      \* contents of each file
    parentOk,  \* the directory is writable by its owner only
    valid,     \* the key the provider accepts
    edits,     \* changes so far
    rd,        \* each reader: [pc, fd, key, source, outcome]
    seen,      \* contents of the file at the path since the reader began
    quiet      \* nothing changed since the reader began

vars == <<env, path, mode, body, parentOk, valid, edits, rd, seen, quiet>>
config == <<env, path, mode, body, parentOk, valid, edits>>

Reader == [pc |-> "idle", fd |-> None, key |-> None, source |-> "none", outcome |-> "none"]

-----------------------------------------------------------------------------
(* The key the user has at first; others come from edits and rotations.    *)
FirstKey == CHOOSE k \in Keys : TRUE

Init ==
    /\ env \in [Readers -> {None, "empty", FirstKey}]
    /\ path \in {None, CHOOSE i \in Inodes : TRUE}
    /\ \E m \in Modes : mode = [i \in Inodes |-> m]
    /\ \E b \in {FirstKey, "nokey"} : body = [i \in Inodes |-> b]
    /\ parentOk \in IF path = None THEN {TRUE} ELSE BOOLEAN
    /\ valid \in Keys /\ edits = 0
    /\ rd = [r \in Readers |-> Reader]
    /\ seen = [r \in Readers |-> {}] /\ quiet = [r \in Readers |-> FALSE]

-----------------------------------------------------------------------------
(* The user and the provider.                                              *)

Current(p, b) == IF p = None THEN {} ELSE {b[p]} \cap Keys

Changed ==
    /\ edits < Edits /\ edits' = edits + 1
    /\ quiet' = [r \in Readers |-> FALSE]
    /\ seen' = [r \in Readers |-> seen[r] \cup Current(path', body')]
    /\ UNCHANGED <<env, parentOk, rd>>

(* An editor that writes in place: for a moment the file is torn.          *)
Truncate == /\ path # None /\ body[path] # "torn"
            /\ body' = [body EXCEPT ![path] = "torn"]
            /\ UNCHANGED <<path, mode, valid>> /\ Changed
FinishSave == /\ path # None /\ body[path] = "torn"
              /\ \E k \in Keys : body' = [body EXCEPT ![path] = k]
              /\ UNCHANGED <<env, path, mode, parentOk, valid, edits, rd>>
              /\ seen' = [r \in Readers |-> seen[r] \cup Current(path, body')]
              /\ quiet' = [r \in Readers |-> FALSE]

(* An editor that renames a complete file over the path.                   *)
Replace == /\ \E i \in Inodes \ {path}, k \in Keys, m \in {"0600", "other"} :
                 /\ \A r \in Readers : rd[r].fd # i \/ rd[r].pc \in {"idle", "done"}
                 /\ path' = i /\ body' = [body EXCEPT ![i] = k]
                 /\ mode' = [mode EXCEPT ![i] = m]
           /\ UNCHANGED valid /\ Changed
Chmod == /\ path # None /\ \E m \in Modes : mode' = [mode EXCEPT ![path] = m]
         /\ UNCHANGED <<path, body, valid>> /\ Changed
Delete == /\ path # None /\ path' = None
          /\ UNCHANGED <<mode, body, valid>> /\ Changed
Rotate == /\ \E k \in Keys : valid' = k
          /\ UNCHANGED <<path, mode, body>> /\ Changed

-----------------------------------------------------------------------------
(* resolve_api_key.                                                        *)

Reads(r, rec) == rd' = [rd EXCEPT ![r] = rec] /\ UNCHANGED <<config, seen, quiet>>
Fails(r) == Reads(r, [rd[r] EXCEPT !.pc = "done", !.outcome = "refused"])

(* A health probe or a job begins.                                         *)
Begin(r) ==
    /\ rd[r].pc \in {"idle", "done"}
    /\ rd' = [rd EXCEPT ![r] = [Reader EXCEPT !.pc = "env", !.fd = rd[r].fd]]
    /\ seen' = [seen EXCEPT ![r] = Current(path, body)]
    /\ quiet' = [quiet EXCEPT ![r] = TRUE]
    /\ UNCHANGED config

(* A non-empty variable wins; an empty one counts as unset.                *)
lookup_env(r) == env[r] \in Keys

LookupEnv(r) ==
    /\ rd[r].pc = "env"
    /\ IF lookup_env(r)
          THEN Reads(r, [rd[r] EXCEPT !.pc = "use", !.key = env[r], !.source = "env"])
          ELSE Reads(r, [rd[r] EXCEPT !.pc = "open"])

(* The file is opened anew for every resolution.                           *)
OpenedOnce(r) == IF rd[r].fd # None /\ mode[rd[r].fd] = "0600" /\ body[rd[r].fd] \in Keys
                 THEN rd[r].fd ELSE path
Opened(r) == path

Open(r) ==
    /\ rd[r].pc = "open"
    /\ IF Opened(r) = None THEN Fails(r)
       ELSE Reads(r, [rd[r] EXCEPT !.pc = "stat", !.fd = Opened(r)])

ACCEPTED_MODES_Only600 == {"0600"}
ACCEPTED_MODES == {"0600", "0400"}

Stat(r) ==
    /\ rd[r].pc = "stat"
    /\ IF mode[rd[r].fd] \in ACCEPTED_MODES
          THEN Reads(r, [rd[r] EXCEPT !.pc = "parent"]) ELSE Fails(r)

check_parent_directory(r) ==
    /\ rd[r].pc = "parent"
    /\ IF parentOk THEN Reads(r, [rd[r] EXCEPT !.pc = "read"]) ELSE Fails(r)

(* Reading, parsing and extract_backend_key.                               *)
Read(r) ==
    /\ rd[r].pc = "read"
    /\ LET b == body[rd[r].fd] IN
       IF b \in Keys
          THEN Reads(r, [rd[r] EXCEPT !.pc = "use", !.key = b, !.source = "file"])
          ELSE Fails(r)

-----------------------------------------------------------------------------
(* The request: probe_deepgram and classify_failure, or the job's upload.  *)

Answers(k) == {"network"} \cup IF k = valid THEN {"2xx", "402", "500"} ELSE {"401"}

classify_failureLenient(answer) == IF answer \in {"2xx", "401"} THEN "ok" ELSE "quota"
classify_failure(answer) ==
    CASE answer = "2xx" -> "ok" [] answer = "401" -> "auth" [] answer = "402" -> "quota"
      [] answer = "500" -> "bad" [] answer = "network" -> "network"

classify_http_error(answer) ==
    CASE answer = "2xx" -> "ok" [] answer = "401" -> "auth" [] answer = "402" -> "quota"
      [] answer = "500" -> "bad" [] answer = "network" -> "network"

(* The key is dropped as soon as the answer is there.                      *)
DroppedLate(k) == k
Dropped(k) == None

Use(r) ==
    /\ rd[r].pc = "use"
    /\ \E a \in Answers(rd[r].key) :
          Reads(r, [rd[r] EXCEPT !.pc = "done", !.key = Dropped(@), !.source = "none",
                         !.outcome = IF r = "health" THEN classify_failure(a)
                                     ELSE classify_http_error(a)])

Next ==
    \/ Truncate \/ FinishSave \/ Replace \/ Chmod \/ Delete \/ Rotate
    \/ \E r \in Readers : \/ Begin(r) \/ LookupEnv(r) \/ Open(r) \/ Stat(r)
                          \/ check_parent_directory(r) \/ Read(r) \/ Use(r)

Spec == Init /\ [][Next]_vars

-----------------------------------------------------------------------------
(* Properties.                                                             *)

(* Every variable has its type, and no reader holds a key but while it     *)
(* makes its request.                                                      *)
TypeOK ==
    /\ path \in Inodes \cup {None} /\ mode \in [Inodes -> Modes] /\ body \in [Inodes -> Bodies]
    /\ valid \in Keys /\ edits \in 0..Edits
    /\ \A r \in Readers :
          /\ rd[r].pc \in {"idle", "env", "open", "stat", "parent", "read", "use", "done"}
          /\ rd[r].key \in Keys \cup {None} /\ (rd[r].key # None => rd[r].pc = "use")

(* A key taken from the file is one the file at the path held since the    *)
(* job began: a rotated key is used by the next job without a restart.     *)
KeyIsCurrent ==
    \A r \in Readers : rd[r].pc = "use" /\ rd[r].source = "file" => rd[r].key \in seen[r]

(* A configuration that is in order and left alone is never refused.       *)
GoodConfigResolves ==
    \A r \in Readers :
        /\ rd[r].pc = "done" /\ quiet[r] /\ parentOk /\ path # None
        /\ mode[path] \in {"0600", "0400"} /\ body[path] \in Keys
        => rd[r].outcome \in {"ok", "auth", "quota", "bad", "network"}

(* When health says OK and nothing changes, a job of a daemon that sees    *)
(* the same variable is not turned away for its key.                       *)
HealthPredictsJob ==
    /\ \A r \in Readers : rd[r].pc = "done" /\ quiet[r]
    /\ env["health"] = env["job"] /\ rd["health"].outcome = "ok"
    => rd["job"].outcome # "auth"
=============================================================================
