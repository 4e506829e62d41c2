----------------------------- MODULE DataProofs -----------------------------
(***************************************************************************)
(* Proofs about MCData, for every value of its constants: the profiles on  *)
(* disk with any number of writers, the devices a profile names, and the   *)
(* API key.  Each part has an inductive invariant of its own; a step of    *)
(* another part leaves its variables alone.                                *)
(***************************************************************************)
EXTENDS MCData, FiniteSetTheorems, TLAPS

-----------------------------------------------------------------------------
(* Profiles on disk *)

WriterPc == {"start", "create", "fill", "write", "form", "confirm", "done"}

StoreTypes ==
    /\ kind \in [Writers -> P!Kind] /\ shipped \in BOOLEAN
    /\ user \in P!Parsed \union {Absent, Partial, Broken} /\ version \in Nat
    /\ pc \in [Writers -> WriterPc]
    /\ held \in [Writers -> [doc : P!Parsed, version : Nat]]
    /\ \A w \in Writers : kind[w] \in {"clone", "settings"} => held[w].doc \in P!Doc
    /\ bad \in [Writers -> BOOLEAN]
    /\ told \in [Writers -> {"", "saved", "error", "killed"}]
    /\ active \in P!Name \union {""} /\ stored \in P!Name \union {""}
    /\ calls \subseteq P!Name /\ edits \in 0 .. MaxEdits

(* Each kind of writer has its own steps.                                  *)
StepsFit ==
    \A w \in Writers :
        /\ pc[w] \in {"create", "fill"} => kind[w] = "clone"
        /\ pc[w] \in {"form", "confirm"} => kind[w] = "settings"
        /\ pc[w] = "write" => kind[w] # "clone"
        /\ pc[w] # "done" => told[w] = ""

(* What a writer holds is what a load would return, if nobody wrote since. *)
HeldIsRead ==
    \A w \in Writers :
        /\ held[w].version <= version
        /\ pc[w] \in {"create", "form", "confirm", "write"}
           /\ held[w].version = version => held[w].doc = P!resolve

(* A clone that created the override, and the override that it leaves.     *)
Cloned(w) == kind[w] = "clone" /\ (pc[w] = "fill" \/ told[w] = "saved")
OneCloned ==
    edits = 0 => /\ \A v, w \in Writers : Cloned(v) /\ Cloned(w) => v = w
                 /\ \A w \in Writers : Cloned(w) => user # Absent

(* An empty override has a clone that is about to write it, or that did not*)
(* succeed.                                                                *)
Hides(w) ==
    kind[w] = "clone" /\ (pc[w] = "fill" \/ told[w] \in {"killed", "error"})
HiddenBy == user = Partial => \E w \in Writers : Hides(w)

(* Each writer changes the override once, a clone twice.                   *)
Touched == {w \in Writers : pc[w] \in {"fill", "done"}}
Ended == {w \in Writers : pc[w] = "done"}
Counted == version <= Cardinality(Touched) + Cardinality(Ended) + edits

StoreInv ==
    StoreTypes /\ StepsFit /\ HeldIsRead /\ OneCloned /\ HiddenBy /\ Counted

-----------------------------------------------------------------------------
(* Devices *)

Selectable == {"", "default"} \union {S!Monitor(s) : s \in Sinks}
CliType == [pc : {"idle", "default", "pick", "volume", "write"},
            kind : {"calibrate", "setup"}, list : [S!Nodes -> 0 .. MaxId],
            default : S!Nodes \union {NoNode}, target : 0 .. MaxId,
            chosen : S!Nodes \union {NoNode}]

RecorderType == [pc : {"idle", "mic", "monitor", "launch", "on", "failed"},
                 mic : {"default"} \union S!Nodes, monitor : Selectable,
                 selMic : S!Nodes \union {NoNode},
                 selMonitor : Selectable \union {NoNode},
                 error : {"none", "tool", "missing", "nodefault", "preroll"}]

GraphInv ==
    /\ id \in [S!Nodes -> 0 .. MaxId]
    /\ \A a, b \in S!Nodes : a # b /\ id[a] = id[b] => id[a] = 0
    /\ source \in (S!Present(id) \intersect Mics) \union {NoNode}
    /\ sink \in (S!Present(id) \intersect Sinks) \union {NoNode}
    /\ profile.mic \in {"default"} \union S!Nodes
    /\ profile.monitor \in Selectable

(* The list of a command gives an id to one node; what was never lost since*)
(* has the id it had then.                                                 *)
CommandInv ==
    /\ cli \in CliType /\ changed \subseteq S!Nodes
    /\ \A a, b \in S!Nodes : a # b /\ cli.list[a] = cli.list[b] => cli.list[a] = 0
    /\ cli.pc # "idle" =>
          \A n \in S!Nodes : n \notin lost => id[n] = cli.list[n] /\ id[n] # 0
    /\ cli.pc \in {"volume", "write"} => cli.target # 0
    /\ cli.pc \in {"idle", "default", "pick"} =>
          cli.chosen = NoNode /\ changed = {}
    /\ cli.pc = "volume" => changed = {}
    /\ cli.chosen # NoNode => cli.list[cli.chosen] = cli.target

(* What a start remembers of the graph, and what it selected so far.       *)
RecorderInv ==
    /\ rec \in RecorderType
    /\ rec.pc # "idle" => /\ S!Nodes \ S!Present(id) \subseteq absent
                          /\ {source, sink} \subseteq defaults
    /\ rec.pc \in {"idle", "mic", "monitor", "launch", "on"} => rec.error = "none"
    /\ rec.pc \in {"monitor", "launch", "on"} =>
          IF rec.mic = "default" THEN rec.selMic \in defaults \intersect Mics
                                 ELSE rec.selMic = rec.mic
    /\ rec.pc \in {"mic", "monitor"} => rec.selMonitor = NoNode
    /\ rec.pc \in {"launch", "on"} =>
          CASE rec.monitor = "" -> rec.selMonitor = NoNode
            [] rec.monitor = "default" ->
                 \E s \in defaults \intersect Sinks : rec.selMonitor = S!Monitor(s)
            [] OTHER -> rec.selMonitor = rec.monitor

DeviceInv ==
    /\ GraphInv /\ CommandInv /\ RecorderInv
    /\ S!TurnsOnlyTheChosen /\ S!WizardNamesMic /\ S!MissingIsTrue

-----------------------------------------------------------------------------
(* The API key *)

ReaderType == [pc : {"idle", "env", "open", "stat", "parent", "read", "use", "done"},
               fd : Inodes \union {None}, key : Keys \union {None},
               source : {"none", "env", "file"},
               outcome : {"none", "refused", "ok", "auth", "quota", "bad", "network"}]

KeyTypes ==
    /\ path \in Inodes \union {None} /\ mode \in [Inodes -> K!Modes]
    /\ body \in [Inodes -> K!Bodies] /\ valid \in Keys /\ k_edits \in 0 .. Edits
    /\ parentOk \in BOOLEAN
    /\ rd \in [K!Readers -> ReaderType]
    /\ seen \in [K!Readers -> SUBSET Keys] /\ quiet \in [K!Readers -> BOOLEAN]

Busy(row) == row.pc \notin {"idle", "done"}
Reading(row) == row.pc \in {"stat", "parent", "read"}

(* What a reader has open, and all that lay at the path, is in its history,*)
(* and it has a key only for its request.                                  *)
SeenRow(r, row) ==
    /\ row.key # None => row.pc = "use"
    /\ Busy(row) => K!Current(path, body) \subseteq seen[r]
    /\ Reading(row) => row.fd \in Inodes
                       /\ (body[row.fd] \in Keys => body[row.fd] \in seen[r])
    /\ row.pc = "use" /\ row.source = "file" => row.key \in seen[r]
    /\ row.pc = "done" => row.outcome # "none"

(* The key that a reader finds while nobody changes anything, and whether  *)
(* the file is in order.                                                   *)
Effective(r) == IF env[r] \in Keys THEN env[r]
                ELSE IF path = None THEN None ELSE body[path]
InOrder == /\ parentOk /\ path # None /\ mode[path] \in {"0600", "0400"}
           /\ body[path] \in Keys

QuietRow(r, row) ==
    quiet[r] =>
        /\ row.pc = "open" => env[r] \notin Keys
        /\ Reading(row) => env[r] \notin Keys /\ row.fd = path
        /\ row.pc = "use" => row.key = Effective(r)
        /\ row.pc = "done" /\ row.outcome = "ok" => Effective(r) = valid
        /\ row.pc = "done" /\ row.outcome = "auth" => Effective(r) # valid
        /\ row.pc = "done" /\ row.outcome = "refused" => ~InOrder

KeyInv ==
    /\ KeyTypes
    /\ \A r \in K!Readers : SeenRow(r, rd[r]) /\ QuietRow(r, rd[r])

-----------------------------------------------------------------------------
(* Proof: profiles on disk *)

(* What a step of a writer may be.                                         *)
Becomes(w, step, outcome, doc) ==
    /\ pc' = [pc EXCEPT ![w] = step] /\ told' = [told EXCEPT ![w] = outcome]
    /\ held' = [held EXCEPT ![w] = doc]

Reads(w, step) ==
    /\ <<kind[w], pc[w], step>> \in
          {<<"clone", "start", "create">>, <<"sources", "start", "write">>,
           <<"outputs", "start", "write">>, <<"settings", "start", "form">>,
           <<"settings", "form", "confirm">>}
    /\ P!resolve \in P!Parsed
    /\ kind[w] \in {"clone", "settings"} => P!resolve \in P!Doc
    /\ Becomes(w, step, told[w], [doc |-> P!resolve, version |-> version])
    /\ UNCHANGED <<user, version>>

Passes(w) ==
    /\ pc[w] = "confirm" /\ Becomes(w, "write", told[w], held[w])
    /\ UNCHANGED <<user, version>>

Gives(w, outcome) ==
    /\ pc[w] # "done" /\ outcome \in {"error", "killed"}
    /\ Becomes(w, "done", outcome, held[w])
    /\ UNCHANGED <<user, version>>

Creates(w) ==
    /\ pc[w] = "create" /\ user = Absent
    /\ Becomes(w, "fill", told[w], held[w])
    /\ user' = Partial /\ version' = version + 1

Fills(w) ==
    /\ pc[w] = "fill" /\ Becomes(w, "done", "saved", held[w])
    /\ \/ user = Partial /\ user' = held[w].doc /\ version' = version + 1
       \/ user # Partial /\ UNCHANGED <<user, version>>

Writes(w, outcome) ==
    /\ pc[w] = "write" /\ outcome \in {"error", "saved"}
    /\ Becomes(w, "done", outcome, held[w])
    /\ P!Edited(w) \in P!Doc
    /\ user' = P!Edited(w) /\ version' = version + 1

WriterStep(w) ==
    \/ \E step \in WriterPc : Reads(w, step)
    \/ Passes(w) \/ Creates(w) \/ Fills(w)
    \/ \E outcome \in {"error", "killed", "saved"} :
          Gives(w, outcome) \/ Writes(w, outcome)

Beside == UNCHANGED <<kind, shipped, bad, edits>>
DaemonSame == UNCHANGED <<up, active, stored, calls>>

LEMMA Unmoved ==
    ASSUME StoreTypes, NEW w \in Writers
    PROVE  /\ UNCHANGED pc => pc' = [pc EXCEPT ![w] = pc[w]]
           /\ UNCHANGED told => told' = [told EXCEPT ![w] = told[w]]
           /\ UNCHANGED held => held' = [held EXCEPT ![w] = held[w]]
  BY DEF StoreTypes

LEMMA EditedType ==
    ASSUME StoreTypes, NEW w \in Writers
    PROVE  /\ kind[w] \in {"clone", "settings"} => P!Edited(w) \in P!Doc
           /\ kind[w] = "outputs" => P!Edited(w).sources = held[w].doc.sources
           /\ kind[w] # "outputs" => P!Edited(w).outputs = held[w].doc.outputs
  BY DEF StoreTypes, P!Edited, P!OutputsEdited, P!SourcesEdited, P!Doc, P!Parsed, P!Part

(* What is loaded is a document, and what is a document is there.          *)
LEMMA Documents ==
    /\ P!ShippedDoc \in P!Doc /\ P!Doc \subseteq P!Parsed
    /\ \A d \in P!Parsed : d # Absent /\ d # Partial /\ d # Broken
    /\ Absent # Partial /\ Absent # Broken /\ Partial # Broken
    /\ P!load("p") <=> P!resolve \in P!Doc
    /\ user \in P!Parsed => P!resolve = user
    /\ P!Spoilt \subseteq P!Parsed \union {Absent, Broken}
<1>1. P!ShippedDoc \in P!Doc /\ P!Doc \subseteq P!Parsed
  BY DEF P!Doc, P!Parsed, P!Part, P!ShippedDoc, P!Nobody
<1>2. \A d \in P!Parsed : d # Absent /\ d # Partial /\ d # Broken
  BY StoreAssumption
<1>3. P!Spoilt \subseteq P!Parsed \union {Absent, Broken}
  BY DEF P!Spoilt, P!Parsed, P!Part, P!ShippedDoc, P!Nobody
<1> QED
  BY <1>1, <1>2, <1>3, StoreAssumption DEF P!load, P!Loadable, P!resolve

LEMMA WriterShapes ==
    ASSUME StoreTypes, NEW w \in Writers, P!Writer(w) \/ P!Kill(w)
    PROVE  WriterStep(w) /\ Beside /\ DaemonSame
<1> DEFINE Shape == WriterStep(w) /\ Beside /\ DaemonSame
<1>1. ASSUME P!CloneLoad(w)
      PROVE  Shape
  <2>1. CASE P!load("p")
    <3>1. Reads(w, "create")
      BY <1>1, <2>1, Documents, Unmoved
      DEF P!CloneLoad, P!Goes, P!Hold, Reads, Becomes, P!fileVars
    <3> QED
      BY <1>1, <3>1 DEF WriterStep, WriterPc, P!CloneLoad, P!fileVars, P!daemonVars,
         Beside, DaemonSame
  <2>2. CASE ~P!load("p")
    <3>1. Gives(w, "error")
      BY <1>1, <2>2, Unmoved
      DEF P!CloneLoad, P!Ends, Gives, Becomes, P!fileVars
    <3> QED
      BY <1>1, <3>1 DEF WriterStep, P!CloneLoad, P!fileVars, P!daemonVars,
         Beside, DaemonSame
  <2> QED
    BY <2>1, <2>2
<1>2. ASSUME P!CloneCreate(w)
      PROVE  Shape
  <2>1. Creates(w) \/ Gives(w, "error")
    BY <1>2, Unmoved
    DEF P!CloneCreate, P!Goes, P!Ends, P!Put, P!create_new, Gives, Creates, Becomes
  <2> QED
    BY <1>2, <2>1 DEF WriterStep, P!CloneCreate, P!daemonVars, Beside, DaemonSame
<1>3. ASSUME P!CloneFill(w)
      PROVE  Shape
  <2>1. Fills(w) \/ Gives(w, "error")
    BY <1>3, Unmoved DEF P!CloneFill, P!Ends, P!Put, Fills, Gives, Becomes
  <2> QED
    BY <1>3, <2>1 DEF WriterStep, P!CloneFill, P!daemonVars, Beside, DaemonSame
<1>4. ASSUME P!EditRead(w)
      PROVE  Shape
  <2>1. CASE user \in P!Parsed
    <3>1. Reads(w, "write")
      BY <1>4, <2>1, Documents, Unmoved
      DEF P!EditRead, P!Goes, P!Hold, Reads, Becomes, P!fileVars
    <3> QED
      BY <1>4, <3>1 DEF WriterStep, WriterPc, P!EditRead, P!fileVars, P!daemonVars,
         Beside, DaemonSame
  <2>2. CASE user \notin P!Parsed
    <3>1. Gives(w, "error")
      BY <1>4, <2>2, Unmoved
      DEF P!EditRead, P!Ends, Gives, Becomes, P!fileVars
    <3> QED
      BY <1>4, <3>1 DEF WriterStep, P!EditRead, P!fileVars, P!daemonVars,
         Beside, DaemonSame
  <2> QED
    BY <2>1, <2>2
<1>5. ASSUME P!EditWrite(w)
      PROVE  Shape
  <2>1. Writes(w, "saved") \/ Gives(w, "error")
    BY <1>5, Unmoved
    DEF P!EditWrite, P!Loadable, P!Ends, P!Put, Gives, Writes, Becomes
  <2> QED
    BY <1>5, <2>1 DEF WriterStep, P!EditWrite, P!daemonVars, Beside, DaemonSame
<1>6. ASSUME P!FormLoad(w)
      PROVE  Shape
  <2>1. CASE P!load("p")
    <3>1. Reads(w, "form")
      BY <1>6, <2>1, Documents, Unmoved
      DEF P!FormLoad, P!Goes, P!Hold, Reads, Becomes, P!fileVars
    <3> QED
      BY <1>6, <3>1 DEF WriterStep, WriterPc, P!FormLoad, P!fileVars, P!daemonVars,
         Beside, DaemonSame
  <2>2. CASE ~P!load("p")
    <3>1. Gives(w, "error")
      BY <1>6, <2>2, Unmoved
      DEF P!FormLoad, P!Ends, Gives, Becomes, P!fileVars
    <3> QED
      BY <1>6, <3>1 DEF WriterStep, P!FormLoad, P!fileVars, P!daemonVars,
         Beside, DaemonSame
  <2> QED
    BY <2>1, <2>2
<1>7. ASSUME P!SaveClick(w)
      PROVE  Shape
  <2>1. CASE P!load("p")
    <3>1. Reads(w, "confirm")
      BY <1>7, <2>1, Documents, Unmoved
      DEF P!SaveClick, P!Goes, P!Hold, Reads, Becomes, P!fileVars
    <3> QED
      BY <1>7, <3>1 DEF WriterStep, WriterPc, P!SaveClick, P!fileVars, P!daemonVars,
         Beside, DaemonSame
  <2>2. CASE ~P!load("p")
    <3>1. Gives(w, "error")
      BY <1>7, <2>2, Unmoved
      DEF P!SaveClick, P!Ends, Gives, Becomes, P!fileVars
    <3> QED
      BY <1>7, <3>1 DEF WriterStep, P!SaveClick, P!fileVars, P!daemonVars,
         Beside, DaemonSame
  <2> QED
    BY <2>1, <2>2
<1>8. ASSUME P!Confirm(w)
      PROVE  Shape
  <2>1. Passes(w) \/ Gives(w, "error")
    BY <1>8, Unmoved DEF P!Confirm, P!Goes, P!Ends, Gives, Passes, Becomes, P!fileVars
  <2> QED
    BY <1>8, <2>1 DEF WriterStep, P!Confirm, P!fileVars, P!daemonVars, Beside, DaemonSame
<1>9. ASSUME P!SaveWrite(w)
      PROVE  Shape
  <2>1. Writes(w, "saved") \/ Writes(w, "error") \/ Gives(w, "error")
    BY <1>9, Unmoved, EditedType
    DEF P!SaveWrite, P!Ends, P!Put, Gives, Writes, Becomes
  <2> QED
    BY <1>9, <2>1 DEF WriterStep, P!SaveWrite, P!daemonVars, Beside, DaemonSame
<1>10. ASSUME P!Kill(w)
       PROVE  Shape
  <2>1. Gives(w, "killed")
    BY <1>10, Unmoved DEF P!Kill, P!Ends, Gives, Becomes, P!fileVars
  <2> QED
    BY <1>10, <2>1 DEF WriterStep, P!Kill, P!fileVars, P!daemonVars, Beside, DaemonSame
<1> QED
  BY <1>1, <1>2, <1>3, <1>4, <1>5, <1>6, <1>7, <1>8, <1>9, <1>10 DEF P!Writer

(* The other steps: the user's editor, and the daemon.                     *)
OutsideStep ==
    /\ UNCHANGED <<kind, shipped, pc, held, bad, told>>
    /\ \/ /\ edits < MaxEdits /\ edits' = edits + 1 /\ version' = version + 1
          /\ user' \in P!Parsed \union {Absent, Broken} /\ DaemonSame
       \/ /\ UNCHANGED <<user, version, edits>>
          /\ active' \in P!Name \union {""} /\ stored' \in P!Name \union {""}
          /\ calls' \subseteq P!Name
          /\ ~up /\ up' => active' = "" \/ P!load(active')

LEMMA StoreShapes ==
    ASSUME StoreTypes, [P!Next]_(P!vars)
    PROVE  \/ \E w \in Writers : WriterStep(w) /\ Beside /\ DaemonSame
           \/ OutsideStep
<1>1. ASSUME NEW w \in Writers, P!Writer(w) \/ P!Kill(w)
      PROVE  \E v \in Writers : WriterStep(v) /\ Beside /\ DaemonSame
  BY <1>1, WriterShapes
<1>2. ASSUME P!HandEdit
      PROVE  OutsideStep
  BY <1>2, Documents DEF P!HandEdit, P!Put, P!writerVars, P!daemonVars, OutsideStep, DaemonSame
<1>3. ASSUME NEW n \in P!Name,
             P!SetActive(n) \/ P!SetActiveReplies(n) \/ P!StartRecording(n)
      PROVE  OutsideStep
  <2>1. /\ active \in P!Name \union {""} /\ stored \in P!Name \union {""}
        /\ calls \subseteq P!Name
    BY DEF StoreTypes
  <2>2. /\ calls \union {n} \subseteq P!Name /\ calls \ {n} \subseteq P!Name
        /\ n \in P!Name \union {""}
    BY <2>1
  <2>3. /\ UNCHANGED <<P!fileVars, P!writerVars, up, edits>>
        /\ active' \in {active, n} /\ stored' \in {stored, n}
        /\ calls' \in {calls, calls \union {n}, calls \ {n}}
    BY <1>3 DEF P!SetActive, P!SetActiveReplies, P!StartRecording, P!store
  <2> QED
    BY <2>1, <2>2, <2>3 DEF P!fileVars, P!writerVars, OutsideStep
<1>4. ASSUME P!DaemonDies
      PROVE  OutsideStep
  BY <1>4 DEF P!DaemonDies, P!fileVars, P!writerVars, OutsideStep, StoreTypes
<1>5. ASSUME P!DaemonStarts
      PROVE  OutsideStep
  <2>1. P!load_from \in P!Name \union {""} /\ (P!load_from = "" \/ P!load(P!load_from))
    BY DEF P!load_from, StoreTypes
  <2> QED
    BY <1>5, <2>1 DEF P!DaemonStarts, P!fileVars, P!writerVars, OutsideStep, StoreTypes
<1>6. ASSUME UNCHANGED P!vars
      PROVE  OutsideStep
  BY <1>6 DEF P!vars, P!fileVars, P!writerVars, P!daemonVars, OutsideStep, StoreTypes
<1> QED
  BY <1>1, <1>2, <1>3, <1>4, <1>5, <1>6 DEF P!Next

LEMMA Numbers ==
    ASSUME StoreTypes
    PROVE  version \in Nat /\ edits \in 0 .. MaxEdits
  BY DEF StoreTypes

LEMMA StoreTypesStep ==
    ASSUME StoreTypes, [P!Next]_(P!vars)
    PROVE  StoreTypes'
<1>1. ASSUME NEW w \in Writers, WriterStep(w), Beside, DaemonSame
      PROVE  StoreTypes'
  <2>1. ASSUME NEW step \in WriterPc, NEW o \in {"", "saved", "error", "killed"},
               NEW h \in [doc : P!Parsed, version : Nat], Becomes(w, step, o, h)
        PROVE  /\ pc' \in [Writers -> WriterPc]
               /\ told' \in [Writers -> {"", "saved", "error", "killed"}]
               /\ held' \in [Writers -> [doc : P!Parsed, version : Nat]]
    BY <2>1 DEF Becomes, StoreTypes
  <2>2. held[w] \in [doc : P!Parsed, version : Nat] /\ held[w].doc \in P!Parsed
        /\ told[w] \in {"", "saved", "error", "killed"} /\ version \in Nat
        /\ {"create", "fill", "write", "form", "confirm", "done"} \subseteq WriterPc
    BY DEF WriterPc, StoreTypes
  <2> DEFINE Rows == /\ pc' \in [Writers -> WriterPc]
                     /\ told' \in [Writers -> {"", "saved", "error", "killed"}]
                     /\ held' \in [Writers -> [doc : P!Parsed, version : Nat]]
             File == user' \in P!Parsed \union {Absent, Partial, Broken}
                     /\ version' \in Nat
  <2>0. version + 1 \in Nat /\ (UNCHANGED <<user, version>> => File)
    <3>1. user \in P!Parsed \union {Absent, Partial, Broken}
      BY DEF StoreTypes
    <3>2. version + 1 \in Nat
      BY Numbers
    <3> QED
      BY <2>2, <3>1, <3>2
  <2>3. Rows /\ File
    <3>1. ASSUME NEW step \in WriterPc, Reads(w, step)
          PROVE  Rows /\ File
      <4>1. [doc |-> P!resolve, version |-> version] \in [doc : P!Parsed, version : Nat]
        BY <3>1, <2>2 DEF Reads
      <4>2. Rows
        BY <3>1, <4>1, <2>1, <2>2 DEF Reads
      <4> QED
        BY <3>1, <4>2, <2>0 DEF Reads
    <3>2. CASE Passes(w)
      <4>1. Rows
        BY <3>2, <2>1, <2>2 DEF Passes
      <4> QED
        BY <3>2, <4>1, <2>0 DEF Passes
    <3>3. CASE Creates(w)
      <4>1. Rows
        BY <3>3, <2>1, <2>2 DEF Creates
      <4> QED
        BY <3>3, <4>1, <2>0 DEF Creates
    <3>4. CASE Fills(w)
      <4>1. Rows
        BY <3>4, <2>1, <2>2 DEF Fills
      <4> QED
        BY <3>4, <4>1, <2>0, <2>2 DEF Fills
    <3>5. ASSUME NEW o \in {"error", "killed", "saved"}, Gives(w, o)
          PROVE  Rows /\ File
      <4>1. Rows
        BY <3>5, <2>1, <2>2 DEF Gives
      <4> QED
        BY <3>5, <4>1, <2>0 DEF Gives
    <3>6. ASSUME NEW o \in {"error", "killed", "saved"}, Writes(w, o)
          PROVE  Rows /\ File
      <4>1. Rows
        BY <3>6, <2>1, <2>2 DEF Writes
      <4>2. P!Edited(w) \in P!Parsed
        BY <3>6, Documents DEF Writes
      <4> QED
        BY <3>6, <4>1, <4>2, <2>0 DEF Writes
    <3> HIDE DEF Rows, File
    <3> QED
      BY <1>1, <3>1, <3>2, <3>3, <3>4, <3>5, <3>6 DEF WriterStep
  <2>4. \A v \in Writers :
            kind'[v] \in {"clone", "settings"} => held'[v].doc \in P!Doc
    <3>1. PICK h \in [doc : P!Parsed, version : Nat] :
             /\ held' = [held EXCEPT ![w] = h]
             /\ kind[w] \in {"clone", "settings"} => h.doc \in P!Doc
      <4>1. ASSUME NEW step \in WriterPc, Reads(w, step)
            PROVE  /\ held' = [held EXCEPT ![w] =
                                 [doc |-> P!resolve, version |-> version]]
                   /\ [doc |-> P!resolve, version |-> version]
                        \in [doc : P!Parsed, version : Nat]
        BY <4>1, <2>2 DEF Reads, Becomes
      <4>2. \/ held' = [held EXCEPT ![w] = held[w]]
            \/ \E step \in WriterPc : Reads(w, step)
        BY <1>1 DEF WriterStep, Passes, Gives, Creates, Fills, Writes, Becomes
      <4>3. kind[w] \in {"clone", "settings"} => held[w].doc \in P!Doc
        BY DEF StoreTypes
      <4> QED
        BY <4>1, <4>2, <4>3, <2>2 DEF Reads
    <3>2. \A v \in Writers : held'[v] = IF v = w THEN h ELSE held[v]
      BY <3>1 DEF StoreTypes
    <3> QED
      BY <1>1, <3>1, <3>2 DEF Beside, StoreTypes
  <2> HIDE DEF Rows, File
  <2> QED
    BY <1>1, <2>3, <2>4 DEF Beside, DaemonSame, StoreTypes, Rows, File
<1>2. ASSUME OutsideStep
      PROVE  StoreTypes'
  <2>1. version + 1 \in Nat /\ (edits < MaxEdits => edits + 1 \in 0 .. MaxEdits)
    BY StoreAssumption, Numbers
  <2>2. /\ user' \in P!Parsed \union {Absent, Partial, Broken} /\ version' \in Nat
        /\ edits' \in 0 .. MaxEdits
    BY <1>2, <2>1 DEF OutsideStep, StoreTypes
  <2>3. /\ active' \in P!Name \union {""} /\ stored' \in P!Name \union {""}
        /\ calls' \subseteq P!Name
    BY <1>2 DEF OutsideStep, DaemonSame, StoreTypes
  <2> QED
    BY <1>2, <2>2, <2>3 DEF OutsideStep, StoreTypes
<1> QED
  BY <1>1, <1>2, StoreShapes

LEMMA StepsFitStep ==
    ASSUME StoreTypes, StepsFit, [P!Next]_(P!vars)
    PROVE  StepsFit'
<1>1. ASSUME NEW w \in Writers, WriterStep(w), Beside
      PROVE  StepsFit'
  BY <1>1 DEF WriterStep, Reads, Passes, Gives, Creates, Fills, Writes, Becomes,
     Beside, StoreTypes, StepsFit
<1>2. ASSUME OutsideStep
      PROVE  StepsFit'
  BY <1>2 DEF OutsideStep, StepsFit
<1> QED
  BY <1>1, <1>2, StoreShapes

LEMMA HeldIsReadStep ==
    ASSUME StoreTypes, HeldIsRead, [P!Next]_(P!vars)
    PROVE  HeldIsRead'
<1> DEFINE Good(v) == /\ held[v].version <= version
                      /\ pc[v] \in {"create", "form", "confirm", "write"}
                         /\ held[v].version = version => held[v].doc = P!resolve
<1>1. \/ version' = version /\ user' = user /\ shipped' = shipped
      \/ version' = version + 1
  BY StoreShapes DEF WriterStep, Reads, Passes, Gives, Creates, Fills, Writes,
     OutsideStep, Beside
<1>2. version' = version => P!resolve' = P!resolve
  <2>1. version + 1 # version
    BY Numbers
  <2> QED
    BY <1>1, <2>1 DEF P!resolve
<1>3. ASSUME NEW v \in Writers, held'[v] = held[v],
             pc'[v] = pc[v] \/ pc'[v] \in {"fill", "done"}
                \/ (pc[v] = "confirm" /\ pc'[v] = "write")
      PROVE  Good(v)'
  <2>1. version \in Nat /\ held[v].version \in Nat
    BY DEF StoreTypes
  <2>2. held'[v].version <= version'
        /\ (held'[v].version = version' => version' = version)
    BY <1>1, <1>3, <2>1 DEF HeldIsRead
  <2> QED
    BY <1>2, <1>3, <2>2 DEF HeldIsRead
<1>4. ASSUME NEW w \in Writers, WriterStep(w)
      PROVE  \A v \in Writers : Good(v)'
  <2>1. ASSUME NEW step \in WriterPc, Reads(w, step)
        PROVE  \A v \in Writers : Good(v)'
    <3>1. Good(w)'
      <4>1. held'[w] = [doc |-> P!resolve, version |-> version] /\ version' = version
        BY <2>1 DEF Reads, Becomes, StoreTypes
      <4>2. version \in Nat
        BY DEF StoreTypes
      <4> QED
        BY <4>1, <4>2, <1>2
    <3>2. ASSUME NEW v \in Writers, v # w
          PROVE  held'[v] = held[v] /\ pc'[v] = pc[v]
      BY <2>1, <3>2 DEF Reads, Becomes, StoreTypes
    <3> QED
      BY <3>1, <3>2, <1>3
  <2>2. ASSUME NEW v \in Writers,
               \/ Passes(w) \/ Creates(w) \/ Fills(w)
               \/ \E o \in {"error", "killed", "saved"} : Gives(w, o) \/ Writes(w, o)
        PROVE  /\ held'[v] = held[v]
               /\ pc'[v] = pc[v] \/ pc'[v] \in {"fill", "done"}
                  \/ (pc[v] = "confirm" /\ pc'[v] = "write")
    BY <2>2 DEF Passes, Gives, Creates, Fills, Writes, Becomes, StoreTypes
  <2> QED
    BY <1>4, <2>1, <2>2, <1>3 DEF WriterStep
<1>5. ASSUME OutsideStep
      PROVE  \A v \in Writers : Good(v)'
  BY <1>3, <1>5 DEF OutsideStep
<1> QED
  BY <1>4, <1>5, StoreShapes DEF HeldIsRead

LEMMA OneClonedStep ==
    ASSUME StoreTypes, StepsFit, OneCloned, [P!Next]_(P!vars)
    PROVE  OneCloned'
<1> DEFINE One == /\ \A v, w \in Writers : Cloned(v) /\ Cloned(w) => v = w
                  /\ \A w \in Writers : Cloned(w) => user # Absent
<1>1. ASSUME NEW w \in Writers, WriterStep(w), Beside, One
      PROVE  One'
  <2>1. ASSUME NEW v \in Writers, v # w
        PROVE  Cloned(v)' <=> Cloned(v)
    BY <1>1, <2>1 DEF WriterStep, Reads, Passes, Gives, Creates, Fills, Writes,
       Becomes, Beside, StoreTypes, Cloned
  <2>2. ASSUME NEW step \in WriterPc, Reads(w, step)
        PROVE  (Cloned(w)' => Cloned(w)) /\ user' = user
    BY <1>1, <2>2 DEF Reads, Becomes, Beside, StoreTypes, Cloned
  <2>3. CASE Passes(w)
    <3>1. (Cloned(w)' => Cloned(w)) /\ user' = user
      BY <1>1, <2>3 DEF Passes, Becomes, Beside, StoreTypes, Cloned
    <3> QED
      BY <1>1, <2>1, <3>1
  <2>4. CASE Creates(w)
    <3>1. user = Absent /\ user' # Absent
      BY <2>4, Documents DEF Creates
    <3> QED
      BY <1>1, <2>1, <3>1
  <2>5. CASE Fills(w)
    <3>1. Cloned(w)
      BY <2>5 DEF Fills, StepsFit, Cloned
    <3>2. user # Absent => user' # Absent
      BY <2>5, Documents DEF Fills, StoreTypes
    <3> QED
      BY <1>1, <2>1, <3>1, <3>2
  <2>6. ASSUME NEW o \in {"error", "killed", "saved"}, Gives(w, o)
        PROVE  ~Cloned(w)' /\ user' = user
    BY <2>6 DEF Gives, Becomes, StoreTypes, Cloned
  <2>7. ASSUME NEW o \in {"error", "killed", "saved"}, Writes(w, o)
        PROVE  ~Cloned(w)' /\ user' # Absent
    <3>1. kind'[w] # "clone"
      BY <1>1, <2>7 DEF Writes, Beside, StepsFit
    <3>2. user' # Absent
      BY <2>7, Documents DEF Writes
    <3> QED
      BY <3>1, <3>2 DEF Cloned
  <2> QED
    BY <1>1, <2>1, <2>2, <2>3, <2>4, <2>5, <2>6, <2>7 DEF WriterStep
<1>2. ASSUME NEW w \in Writers, WriterStep(w), Beside
      PROVE  OneCloned'
  BY <1>1, <1>2 DEF OneCloned, Beside
<1>3. ASSUME OutsideStep
      PROVE  OneCloned'
  <2>1. edits + 1 # 0
    BY Numbers
  <2>2. \A w \in Writers : Cloned(w)' <=> Cloned(w)
    BY <1>3 DEF OutsideStep, Cloned
  <2>3. edits' = 0 => edits = 0 /\ user' = user
    BY <1>3, <2>1 DEF OutsideStep
  <2> QED
    BY <2>2, <2>3 DEF OneCloned
<1> QED
  BY <1>2, <1>3, StoreShapes

LEMMA HiddenByStep ==
    ASSUME StoreTypes, StepsFit, HiddenBy, [P!Next]_(P!vars)
    PROVE  HiddenBy'
<1>1. ASSUME NEW w \in Writers, WriterStep(w), Beside
      PROVE  HiddenBy'
  <2>1. ASSUME NEW v \in Writers, v # w, Hides(v)
        PROVE  Hides(v)'
    BY <1>1, <2>1 DEF WriterStep, Reads, Passes, Gives, Creates, Fills, Writes,
       Becomes, Beside, StoreTypes, Hides
  <2>2. Creates(w) => Hides(w)'
    BY <1>1 DEF Creates, Becomes, Beside, StoreTypes, StepsFit, Hides
  <2>3. ASSUME Hides(w), user' = Partial
        PROVE  Hides(w)'
    <3>1. pc[w] = "fill"
      <4>1. pc[w] # "done"
        BY <1>1 DEF WriterStep, Reads, Passes, Gives, Creates, Fills, Writes
      <4> QED
        BY <2>3, <4>1 DEF StepsFit, Hides
    <3>2. ~Fills(w) \/ user # Partial
      BY <2>3, Documents DEF Fills, StoreTypes, StepsFit
    <3>3. user' = user \/ Fills(w)
      BY <1>1, <3>1 DEF WriterStep, Reads, Passes, Gives, Creates, Writes
    <3>4. PICK o \in {"error", "killed", "saved"} : Gives(w, o)
      BY <1>1, <2>3, <3>1, <3>2, <3>3
      DEF WriterStep, Reads, Passes, Creates, Fills, Writes
    <3> QED
      BY <1>1, <2>3, <3>4 DEF Gives, Becomes, Beside, StoreTypes, Hides
  <2>4. user' = user \/ user' # Partial \/ Creates(w)
    BY <1>1, Documents DEF WriterStep, Reads, Passes, Gives, Fills, Writes, StoreTypes
  <2> QED
    BY <2>1, <2>2, <2>3, <2>4 DEF HiddenBy
<1>2. ASSUME OutsideStep
      PROVE  HiddenBy'
  BY <1>2, Documents DEF OutsideStep, HiddenBy, Hides
<1> QED
  BY <1>1, <1>2, StoreShapes

LEMMA CountsAgree == \A s : P!Cardinality(s) = Cardinality(s)
  BY Zenon DEF P!Cardinality, Cardinality

LEMMA OneMore ==
    ASSUME NEW A, NEW B, IsFiniteSet(B), A \subseteq B, NEW x \in B, x \notin A
    PROVE  Cardinality(A) + 1 <= Cardinality(B)
<1>1. IsFiniteSet(A) /\ A \union {x} \in SUBSET B
  BY FS_Subset
<1>2. Cardinality(A \union {x}) = Cardinality(A) + 1
  BY <1>1, FS_AddElement
<1> QED
  BY <1>1, <1>2, FS_Subset

LEMMA CountedStep ==
    ASSUME StoreTypes, Counted, [P!Next]_(P!vars)
    PROVE  Counted'
<1> DEFINE t == Cardinality(Touched)  tt == Cardinality(Touched')
           e == Cardinality(Ended)    ee == Cardinality(Ended')
<1>1. /\ IsFiniteSet(Touched) /\ IsFiniteSet(Touched')
      /\ IsFiniteSet(Ended) /\ IsFiniteSet(Ended')
  BY StoreAssumption, FS_Subset DEF Touched, Ended
<1>2. t \in Nat /\ tt \in Nat /\ e \in Nat /\ ee \in Nat
  BY <1>1, FS_CardinalityType
<1>3. version \in Nat /\ edits \in Nat /\ version <= t + e + edits
  BY Numbers DEF Counted
<1>4. ASSUME NEW w \in Writers, WriterStep(w), Beside
      PROVE  version' <= tt + ee + edits'
  <2>1. Touched \subseteq Touched' /\ Ended \subseteq Ended'
    BY <1>4 DEF WriterStep, Reads, Passes, Gives, Creates, Fills, Writes, Becomes,
       StoreTypes, Touched, Ended
  <2>2. t <= tt /\ e <= ee
    BY <1>1, <2>1, FS_Subset
  <2>3. \/ version' = version
        \/ version' = version + 1 /\ w \in Touched' /\ w \notin Touched
        \/ version' = version + 1 /\ w \in Ended' /\ w \notin Ended
    BY <1>4 DEF WriterStep, Reads, Passes, Gives, Creates, Fills, Writes, Becomes,
       StoreTypes, Touched, Ended
  <2>4. version' = version \/ (version' = version + 1 /\ (t + 1 <= tt \/ e + 1 <= ee))
    BY <1>1, <2>1, <2>3, OneMore
  <2>5. edits' = edits
    BY <1>4 DEF Beside
  <2> HIDE DEF t, tt, e, ee
  <2> QED
    BY <1>2, <1>3, <2>2, <2>4, <2>5
<1>5. ASSUME OutsideStep
      PROVE  version' <= tt + ee + edits'
  <2>1. tt = t /\ ee = e
    BY <1>5 DEF OutsideStep, Touched, Ended
  <2>2. \/ version' = version /\ edits' = edits
        \/ version' = version + 1 /\ edits' = edits + 1
    BY <1>5 DEF OutsideStep
  <2> HIDE DEF t, tt, e, ee
  <2> QED
    BY <1>2, <1>3, <2>1, <2>2
<1> QED
  BY <1>4, <1>5, StoreShapes DEF Counted

LEMMA StoreInit == P!Init => StoreInv
<1> SUFFICES ASSUME P!Init
             PROVE  StoreInv
  OBVIOUS
<1>1. StoreTypes
  <2>1. /\ kind \in [Writers -> P!Kind] /\ shipped \in BOOLEAN
        /\ bad \in [Writers -> BOOLEAN]
        /\ user \in P!Parsed \union {Absent, Broken}
    BY Documents DEF P!Init
  <2>2. pc \in [Writers -> WriterPc] /\ told \in [Writers -> {"", "saved", "error", "killed"}]
    BY DEF P!Init, WriterPc
  <2>3. /\ held \in [Writers -> [doc : P!Parsed, version : Nat]]
        /\ \A w \in Writers : held[w].doc \in P!Doc
    <3>1. [doc |-> P!ShippedDoc, version |-> 0] \in [doc : P!Parsed, version : Nat]
      BY Documents
    <3> QED
      BY <3>1, Documents DEF P!Init
  <2>4. /\ version = 0 /\ edits = 0 /\ calls = {} /\ active = "" /\ stored = ""
    BY DEF P!Init
  <2>5. 0 \in 0 .. MaxEdits
    BY StoreAssumption
  <2> QED
    BY <2>1, <2>2, <2>3, <2>4, <2>5 DEF StoreTypes
<1>2. StepsFit /\ OneCloned /\ HeldIsRead /\ HiddenBy
  <2>1. /\ \A w \in Writers : pc[w] = "start" /\ told[w] = "" /\ held[w].version = 0
        /\ version = 0
    BY DEF P!Init
  <2> QED
    <3>1. StepsFit
      BY <2>1 DEF StepsFit
    <3>2. OneCloned
      BY <2>1 DEF OneCloned, Cloned
    <3>3. HeldIsRead
      <4>1. \A w \in Writers : pc[w] \notin {"create", "form", "confirm", "write"}
        BY <2>1
      <4>2. \A w \in Writers : held[w].version <= version
        <5>1. 0 <= 0
          OBVIOUS
        <5>2. ASSUME NEW w \in Writers
              PROVE  held[w].version <= version
          BY <2>1, <5>1, Zenon
        <5> QED
          BY <5>2
      <4> QED
        BY <4>1, <4>2 DEF HeldIsRead
    <3>4. HiddenBy
      BY Documents DEF P!Init, HiddenBy
    <3> QED
      BY <3>1, <3>2, <3>3, <3>4
<1>3. Counted
  <2>1. Touched = {} /\ Ended = {} /\ version = 0 /\ edits = 0
    BY DEF P!Init, Touched, Ended
  <2> QED
    BY <2>1, FS_EmptySet DEF Counted
<1> QED
  BY <1>1, <1>2, <1>3 DEF StoreInv

LEMMA StoreStep == StoreInv /\ [P!Next]_(P!vars) => StoreInv'
  BY StoreTypesStep, StepsFitStep, HeldIsReadStep, OneClonedStep, HiddenByStep,
     CountedStep
  DEF StoreInv

LEMMA StoreKept ==
    ASSUME StoreInv
    PROVE  /\ P!TypeOK /\ P!ListTellsSource /\ P!OneCloneSucceeds
           /\ P!HiddenMeanwhile
<1>1. P!TypeOK
  <2> DEFINE c == Cardinality(Writers)
  <2>1. /\ Touched \in SUBSET Writers /\ Ended \in SUBSET Writers
        /\ IsFiniteSet(Writers) /\ MaxEdits \in Nat
    BY StoreAssumption DEF Touched, Ended
  <2>2. Cardinality(Touched) <= c /\ Cardinality(Ended) <= c /\ c \in Nat
        /\ Cardinality(Touched) \in Nat /\ Cardinality(Ended) \in Nat
    BY <2>1, FS_Subset, FS_CardinalityType
  <2>3. version \in Nat /\ edits \in 0 .. MaxEdits
        /\ version <= Cardinality(Touched) + Cardinality(Ended) + edits
    BY Numbers DEF StoreInv, Counted
  <2>4. version \in 0 .. 2 * c + MaxEdits
    <3> HIDE DEF c
    <3> QED
      BY <2>1, <2>2, <2>3
  <2>5. version \in 0 .. 2 * P!Cardinality(Writers) + MaxEdits
    BY <2>4, CountsAgree
  <2> QED
    BY <2>5 DEF P!TypeOK, StoreInv, StoreTypes, WriterPc
<1>2. P!ListTellsSource
  BY Documents DEF P!ListTellsSource, P!list_source, P!resolved_source, P!resolve
<1>3. P!OneCloneSucceeds
  <2> DEFINE Savers == {w \in Writers : kind[w] = "clone" /\ told[w] = "saved"}
  <2>1. ASSUME edits = 0
        PROVE  Cardinality(Savers) <= 1
    <3>1. \A v, w \in Savers : v = w
      BY <2>1 DEF StoreInv, OneCloned, Cloned
    <3>2. Savers = {} \/ \E w \in Writers : Savers = {w}
      BY <3>1
    <3> QED
      BY <3>2, FS_EmptySet, FS_Singleton
  <2> QED
    BY <2>1, CountsAgree DEF P!OneCloneSucceeds
<1>4. P!HiddenMeanwhile
  BY DEF StoreInv, HiddenBy, Hides, P!HiddenMeanwhile
<1> QED
  BY <1>1, <1>2, <1>3, <1>4

(* Only the creation of an override makes a profile stop loading, a writer *)
(* writes its own part over what it read, and the daemon starts with a     *)
(* profile that loads.                                                     *)
LEMMA WholeStep ==
    ASSUME StoreInv, [P!Next]_(P!vars), edits' = edits, P!load("p")
    PROVE  P!load("p")' \/ (user = Absent /\ user' = Partial)
<1>1. StoreTypes
  BY DEF StoreInv
<1>2. user' \in P!Doc => P!load("p")'
  BY Documents DEF P!load, P!Loadable, P!resolve
<1>3. user' = user /\ shipped' = shipped => P!load("p")'
  BY DEF P!load, P!Loadable, P!resolve
<1>4. ASSUME NEW w \in Writers, WriterStep(w), Beside
      PROVE  user' \in P!Doc \/ user' = user \/ (user = Absent /\ user' = Partial)
  <2>1. CASE Fills(w)
    BY <1>1, <2>1 DEF Fills, StepsFit, StoreInv, StoreTypes
  <2> QED
    BY <1>4, <2>1 DEF WriterStep, Reads, Passes, Gives, Creates, Writes
<1>5. ASSUME OutsideStep
      PROVE  user' = user /\ shipped' = shipped
  <2>1. edits + 1 # edits
    BY <1>1, Numbers
  <2> QED
    BY <1>5, <2>1 DEF OutsideStep
<1> QED
  BY <1>1, <1>2, <1>3, <1>4, <1>5, StoreShapes DEF Beside

LEMMA RestStep ==
    ASSUME StoreInv, [P!Next]_(P!vars), NEW w \in Writers,
           pc[w] = "write", user \in P!Parsed, user' # user, pc'[w] = "done",
           held[w].version = version
    PROVE  \/ kind[w] = "outputs" /\ user'.sources = user.sources
           \/ kind[w] # "outputs" /\ user'.outputs = user.outputs
<1>1. StoreTypes /\ held[w].doc = user
  BY Documents DEF StoreInv, HeldIsRead
<1>2. ASSUME NEW v \in Writers, WriterStep(v)
      PROVE  user' = P!Edited(w)
  <2>1. v = w
    BY <1>1, <1>2 DEF WriterStep, Reads, Passes, Gives, Creates, Fills, Writes,
       Becomes, StoreTypes
  <2> QED
    BY <1>2, <2>1 DEF WriterStep, Reads, Passes, Gives, Creates, Fills, Writes
<1>3. ~OutsideStep
  BY DEF OutsideStep
<1> QED
  BY <1>1, <1>2, <1>3, StoreShapes, EditedType

LEMMA RestartStep ==
    ASSUME StoreInv, [P!Next]_(P!vars), ~up, up'
    PROVE  active' = "" \/ P!load(active')
<1>1. StoreTypes
  BY DEF StoreInv
<1> QED
  BY <1>1, StoreShapes DEF OutsideStep, DaemonSame

-----------------------------------------------------------------------------
(* Proof: devices *)

(* What comes or goes: one node, and the defaults follow.                  *)
LEMMA GraphShapes ==
    ASSUME GraphInv, NEW n \in S!Nodes, S!Unplug(n) \/ S!Plug(n)
    PROVE  /\ id' \in [S!Nodes -> 0 .. MaxId]
           /\ \A m \in S!Nodes \ {n} : id'[m] = id[m]
           /\ id[n] = 0 \/ id'[n] = 0
           /\ S!Moved
<1>1. ASSUME S!Unplug(n)
      PROVE  id' \in [S!Nodes -> 0 .. MaxId] /\ id'[n] = 0
             /\ \A m \in S!Nodes \ {n} : id'[m] = id[m]
  BY <1>1, GraphAssumption DEF S!Unplug, GraphInv
<1>2. ASSUME S!Plug(n)
      PROVE  id' \in [S!Nodes -> 0 .. MaxId]
             /\ \A m \in S!Nodes \ {n} : id'[m] = id[m]
  <2>1. PICK free \in 1 .. MaxId : id' = [id EXCEPT ![n] = free]
    BY <1>2 DEF S!Plug
  <2>2. free \in 0 .. MaxId
    BY GraphAssumption
  <2> QED
    BY <2>1, <2>2 DEF GraphInv
<1> QED
  BY <1>1, <1>2 DEF S!Unplug, S!Plug

LEMMA GraphPlugs ==
    ASSUME GraphInv, NEW n \in S!Nodes, S!Unplug(n) \/ S!Plug(n)
    PROVE  GraphInv'
<1>1. id' \in [S!Nodes -> 0 .. MaxId] /\ UNCHANGED profile
  BY GraphShapes DEF S!Moved
<1>2. ASSUME S!Unplug(n)
      PROVE  /\ \A a, b \in S!Nodes : a # b /\ id'[a] = id'[b] => id'[a] = 0
             /\ source' \in (S!Present(id') \intersect Mics) \union {NoNode}
             /\ sink' \in (S!Present(id') \intersect Sinks) \union {NoNode}
  <2>1. id' = [id EXCEPT ![n] = 0] /\ id \in [S!Nodes -> 0 .. MaxId]
    BY <1>2 DEF S!Unplug, GraphInv
  <2>2. S!Present(id') = S!Present(id) \ {n}
    BY <2>1 DEF S!Present
  <2>3. \A a, b \in S!Nodes : a # b /\ id'[a] = id'[b] => id'[a] = 0
    BY <2>1 DEF GraphInv
  <2>4. source' \in (S!Present(id') \intersect Mics) \union {NoNode}
    BY <1>2, <2>2 DEF S!Unplug, GraphInv
  <2>5. sink' \in (S!Present(id') \intersect Sinks) \union {NoNode}
    BY <1>2, <2>2 DEF S!Unplug, GraphInv
  <2> QED
    BY <2>3, <2>4, <2>5
<1>3. ASSUME S!Plug(n)
      PROVE  /\ \A a, b \in S!Nodes : a # b /\ id'[a] = id'[b] => id'[a] = 0
             /\ source' \in (S!Present(id') \intersect Mics) \union {NoNode}
             /\ sink' \in (S!Present(id') \intersect Sinks) \union {NoNode}
  <2>1. PICK free \in 1 .. MaxId : /\ id' = [id EXCEPT ![n] = free]
                                   /\ \A other \in S!Nodes : id[other] # free
    BY <1>3 DEF S!Plug
  <2>2. free # 0 /\ id \in [S!Nodes -> 0 .. MaxId]
    BY GraphAssumption DEF GraphInv
  <2>3. S!Present(id') = S!Present(id) \union {n}
    BY <2>1, <2>2 DEF S!Present
  <2>4. \A a, b \in S!Nodes : a # b /\ id'[a] = id'[b] => id'[a] = 0
    BY <2>1, <2>2 DEF GraphInv
  <2>5. source' \in (S!Present(id') \intersect Mics) \union {NoNode}
    BY <1>3, <2>3 DEF S!Plug, GraphInv
  <2>6. sink' \in (S!Present(id') \intersect Sinks) \union {NoNode}
    BY <1>3, <2>3 DEF S!Plug, GraphInv
  <2> QED
    BY <2>4, <2>5, <2>6
<1> QED
  BY <1>1, <1>2, <1>3 DEF GraphInv

LEMMA GraphDefaults ==
    ASSUME GraphInv, CommandInv, S!SetDefault
    PROVE  GraphInv'
<1>1. S!Holder \subseteq S!Present(id) /\ S!Holder # {} /\ UNCHANGED <<id, profile>>
  BY DEF S!SetDefault, S!Holder, S!Present, CommandInv
<1>2. (CHOOSE n \in S!Holder : TRUE) \in S!Holder
  BY <1>1
<1> DEFINE first == CHOOSE n \in S!Holder : TRUE
<1>3. /\ source' = IF S!Holder \subseteq Mics THEN first ELSE source
      /\ sink' = IF S!Holder \subseteq Sinks THEN first ELSE sink
      /\ first \in S!Holder
  BY <1>2 DEF S!SetDefault
<1> HIDE DEF first
<1>4. source' \in (S!Present(id) \intersect Mics) \union {NoNode}
  BY <1>1, <1>3 DEF GraphInv
<1>5. sink' \in (S!Present(id) \intersect Sinks) \union {NoNode}
  BY <1>1, <1>3 DEF GraphInv
<1> QED
  BY <1>1, <1>4, <1>5 DEF GraphInv

LEMMA GraphStep ==
    ASSUME GraphInv, CommandInv, [S!Next]_(S!vars)
    PROVE  GraphInv'
<1>1. ASSUME UNCHANGED <<S!graph, profile>>
      PROVE  GraphInv'
  BY <1>1 DEF S!graph, GraphInv
<1>2. ASSUME S!Persist
      PROVE  GraphInv'
  <2>1. profile'.mic \in {"default"} \union S!Nodes /\ profile'.monitor \in Selectable
    <3>1. /\ profile.mic \in {"default"} \union S!Nodes /\ profile.monitor \in Selectable
          /\ cli.chosen \in S!Nodes \union {NoNode}
          /\ {"", "default"} \subseteq Selectable
      BY DEF GraphInv, CommandInv, CliType, Selectable
    <3>2. CASE cli.chosen = NoNode
      BY <1>2, <3>1, <3>2 DEF S!Persist
    <3>3. CASE cli.chosen # NoNode
      <4>1. PICK o \in Selectable : profile' = [mic |-> cli.chosen, monitor |-> o]
        BY <1>2, <3>1, <3>3 DEF S!Persist
      <4> QED
        BY <3>1, <3>3, <4>1
    <3> QED
      BY <3>2, <3>3
  <2> QED
    BY <1>2, <2>1 DEF S!Persist, S!graph, GraphInv
<1>3. CASE UNCHANGED S!vars
  BY <1>1, <1>3 DEF S!vars, S!graph
<1>4. CASE S!Dump \/ S!AskDefault \/ S!Pick \/ S!SetVolume
  BY <1>1, <1>4 DEF S!Dump, S!AskDefault, S!Pick, S!SetVolume
<1>5. CASE S!Start \/ S!ResolveMic \/ S!ResolveMonitor \/ S!Launch \/ S!Stop
  BY <1>1, <1>5 DEF S!Start, S!ResolveMic, S!ResolveMonitor, S!Launch, S!Stop
<1> QED
  BY <1>2, <1>3, <1>4, <1>5, GraphPlugs, GraphDefaults DEF S!Next

(* A command: what it knows of the graph, and the node that it chose.      *)
CommandAll == CommandInv /\ S!TurnsOnlyTheChosen /\ S!WizardNamesMic

LEMMA NewCommand ==
    /\ S!NoCommand \in CliType /\ S!NoCommand.pc = "idle"
    /\ S!NoCommand.chosen = NoNode /\ S!NoCommand.target = 0
    /\ \A n \in S!Nodes : S!NoCommand.list[n] = 0
  BY GraphAssumption DEF S!NoCommand, CliType

LEMMA CommandEnds ==
    ASSUME cli' = S!NoCommand, changed' = {}
    PROVE  CommandAll'
<1>1. cli'.pc = "idle" /\ cli'.chosen = NoNode /\ cli' \in CliType
      /\ \A n \in S!Nodes : cli'.list[n] = 0
  BY NewCommand
<1> QED
  BY <1>1 DEF CommandAll, CommandInv, S!TurnsOnlyTheChosen, S!WizardNamesMic

LEMMA CommandMoved ==
    ASSUME GraphInv, CommandAll, NEW n \in S!Nodes, S!Unplug(n) \/ S!Plug(n)
    PROVE  CommandAll'
<1>1. /\ \A m \in S!Nodes \ {n} : id'[m] = id[m]
      /\ id[n] = 0 \/ id'[n] = 0
      /\ UNCHANGED <<cli, changed>>
      /\ lost' = IF cli.pc = "idle" THEN lost ELSE lost \union (S!Nodes \ S!Present(id'))
  BY GraphShapes DEF S!Moved
<1>2. ASSUME cli.pc # "idle", NEW m \in S!Nodes, m \notin lost'
      PROVE  id'[m] = cli.list[m] /\ id'[m] # 0
  <2>1. m \notin lost /\ id'[m] # 0 /\ id[m] = cli.list[m] /\ id[m] # 0
    BY <1>1, <1>2 DEF S!Present, CommandAll, CommandInv
  <2>2. m # n
    BY <1>1, <2>1
  <2> QED
    BY <1>1, <2>1, <2>2
<1>3. lost \subseteq lost'
  BY <1>1
<1> QED
  BY <1>1, <1>2, <1>3
  DEF CommandAll, CommandInv, S!TurnsOnlyTheChosen, S!WizardNamesMic

LEMMA CommandDumps ==
    ASSUME GraphInv, CommandAll, S!Dump
    PROVE  CommandAll'
<1>1. PICK k \in {"calibrate", "setup"} :
          cli' = [S!NoCommand EXCEPT !.pc = "default", !.kind = k, !.list = id]
  BY DEF S!Dump
<1>2. /\ cli' \in CliType /\ cli'.pc = "default" /\ cli'.list = id
      /\ cli'.chosen = NoNode
  BY <1>1, NewCommand DEF GraphInv, CliType
<1>3. lost' = S!Nodes \ S!Present(id) /\ changed' = {} /\ id' = id
  BY DEF S!Dump, S!graph
<1>4. \A m \in S!Nodes : m \notin lost' => id'[m] = cli'.list[m] /\ id'[m] # 0
  BY <1>2, <1>3 DEF S!Present
<1>5. \A a, b \in S!Nodes : a # b /\ cli'.list[a] = cli'.list[b] => cli'.list[a] = 0
  BY <1>2 DEF GraphInv
<1> QED
  BY <1>2, <1>3, <1>4, <1>5
  DEF CommandAll, CommandInv, S!TurnsOnlyTheChosen, S!WizardNamesMic

LEMMA CommandAsks ==
    ASSUME GraphInv, CommandAll, S!AskDefault
    PROVE  CommandAll'
<1>1. CASE S!Ends
  BY <1>1, CommandEnds DEF S!Ends
<1>2. ASSUME ~S!Ends
      PROVE  CommandAll'
  <2>1. /\ cli' = [cli EXCEPT !.pc = "pick", !.default = source]
        /\ UNCHANGED <<changed, lost, id>> /\ source \in S!Nodes /\ cli.pc = "default"
    BY <1>2 DEF S!AskDefault, S!graph, GraphInv, S!Present
  <2>2. /\ cli' \in CliType /\ cli'.pc = "pick" /\ cli'.list = cli.list
        /\ cli'.chosen = cli.chosen
    BY <2>1 DEF CommandAll, CommandInv, CliType
  <2>3. cli.chosen = NoNode /\ changed = {}
    BY <2>1 DEF CommandAll, CommandInv
  <2> QED
    BY <2>1, <2>2, <2>3
    DEF CommandAll, CommandInv, S!TurnsOnlyTheChosen, S!WizardNamesMic
<1> QED
  BY <1>1, <1>2

LEMMA CommandPicks ==
    ASSUME GraphInv, CommandAll, S!Pick
    PROVE  CommandAll'
<1>0. /\ cli.list \in [S!Nodes -> 0 .. MaxId] /\ cli.default \in S!Nodes \union {NoNode}
      /\ \A a, b \in S!Nodes : a # b /\ cli.list[a] = cli.list[b] => cli.list[a] = 0
      /\ cli \in CliType
  BY DEF CommandAll, CommandInv, CliType
<1>1. CASE S!Ends
  BY <1>1, CommandEnds DEF S!Ends
<1>2. ASSUME NEW i, i # 0,
             i \in IF cli.kind = "setup"
                   THEN {cli.list[n] : n \in S!Offered} \union {0}
                   ELSE S!resolve_selector,
             cli' = [cli EXCEPT !.pc = "volume", !.target = i, !.chosen = S!DeviceOf(i)],
             UNCHANGED <<changed, lost>>
      PROVE  CommandAll'
  <2>1. i \in 0 .. MaxId
    <3>1. S!Offered \subseteq S!Nodes /\ S!Rows \subseteq S!Nodes
      BY DEF S!Offered, S!Rows, S!Present
    <3>2. S!resolve_selector \subseteq 0 .. MaxId
      BY <1>0, <3>1, GraphAssumption DEF S!resolve_selector, S!ByDefault
    <3> QED
      BY <1>0, <1>2, <3>1, <3>2
  <2>2. \/ S!DeviceOf(i) = NoNode
        \/ S!DeviceOf(i) \in S!Rows /\ cli.list[S!DeviceOf(i)] = i
    BY DEF S!DeviceOf
  <2>3. ASSUME cli.kind = "setup"
        PROVE  S!DeviceOf(i) \in Mics
    <3>1. PICK n \in S!Offered : cli.list[n] = i
      BY <1>2, <2>3
    <3>2. n \in S!Rows /\ n \in S!Nodes /\ n \in Mics
      BY <3>1 DEF S!Offered, S!Rows, S!Present
    <3>3. S!DeviceOf(i) \in S!Rows /\ cli.list[S!DeviceOf(i)] = i
      BY <3>1, <3>2 DEF S!DeviceOf
    <3>4. S!DeviceOf(i) = n
      BY <1>0, <1>2, <3>1, <3>2, <3>3 DEF S!Rows, S!Present
    <3> QED
      BY <3>2, <3>4
  <2>4. S!DeviceOf(i) \in S!Nodes \union {NoNode}
    BY <2>2 DEF S!Rows, S!Present
  <2>5. /\ cli' \in CliType /\ cli'.pc = "volume" /\ cli'.list = cli.list
        /\ cli'.chosen = S!DeviceOf(i) /\ cli'.target = i /\ cli'.kind = cli.kind
    <3>1. ASSUME NEW d \in S!Nodes \union {NoNode},
                 cli' = [cli EXCEPT !.pc = "volume", !.target = i, !.chosen = d]
          PROVE  /\ cli' \in CliType /\ cli'.pc = "volume" /\ cli'.list = cli.list
                 /\ cli'.chosen = d /\ cli'.target = i /\ cli'.kind = cli.kind
      BY <1>0, <2>1, <3>1 DEF CliType
    <3> QED
      BY <1>2, <2>4, <3>1
  <2>6. changed = {} /\ cli.pc = "pick" /\ id' = id
    BY DEF S!Pick, S!graph, CommandAll, CommandInv
  <2> QED
    BY <1>2, <2>2, <2>3, <2>5, <2>6
    DEF CommandAll, CommandInv, S!TurnsOnlyTheChosen, S!WizardNamesMic
<1> QED
  BY <1>1, <1>2 DEF S!Pick

LEMMA CommandTurns ==
    ASSUME GraphInv, CommandAll, S!SetVolume
    PROVE  CommandAll'
<1>1. CASE S!Ends
  BY <1>1, CommandEnds DEF S!Ends
<1>2. ASSUME ~S!Ends
      PROVE  CommandAll'
  <2>1. /\ changed' = changed \union S!Holder /\ lost' = lost /\ id' = id
        /\ cli' = [cli EXCEPT !.pc = "write"] /\ cli.pc = "volume"
    BY <1>2 DEF S!SetVolume, S!Target, S!TargetById, S!graph
  <2>2. /\ cli' \in CliType /\ cli'.pc = "write" /\ cli'.list = cli.list
        /\ cli'.chosen = cli.chosen /\ cli'.target = cli.target /\ cli'.kind = cli.kind
    BY <2>1 DEF CommandAll, CommandInv, CliType
  <2>3. changed = {} /\ S!Holder \subseteq S!Nodes /\ cli.target # 0
        /\ cli.chosen \in S!Nodes \union {NoNode}
    BY <2>1 DEF CommandAll, CommandInv, CliType, S!Holder
  <2>4. cli.chosen # NoNode /\ cli.chosen \notin lost => changed' \subseteq {cli.chosen}
    <3> SUFFICES ASSUME cli.chosen # NoNode, cli.chosen \notin lost,
                        NEW n \in S!Holder
                 PROVE  n = cli.chosen
      BY <2>1, <2>3
    <3>1. id[cli.chosen] = cli.target
      BY <2>1, <2>3 DEF CommandAll, CommandInv
    <3>2. id[n] = cli.target /\ n \in S!Nodes
      BY DEF S!Holder
    <3> QED
      BY <2>3, <3>1, <3>2 DEF GraphInv
  <2> QED
    BY <2>1, <2>2, <2>3, <2>4
    DEF CommandAll, CommandInv, S!TurnsOnlyTheChosen, S!WizardNamesMic
<1> QED
  BY <1>1, <1>2

LEMMA CommandStep ==
    ASSUME GraphInv, CommandAll, [S!Next]_(S!vars)
    PROVE  CommandAll'
<1>1. ASSUME UNCHANGED <<id, S!command>>
      PROVE  CommandAll'
  BY <1>1 DEF S!command, CommandAll, CommandInv, S!TurnsOnlyTheChosen, S!WizardNamesMic
<1>2. CASE UNCHANGED S!vars
  BY <1>1, <1>2 DEF S!vars, S!command
<1>3. CASE S!Start \/ S!ResolveMic \/ S!ResolveMonitor \/ S!Launch \/ S!Stop \/ S!SetDefault
  BY <1>1, <1>3
  DEF S!Start, S!ResolveMic, S!ResolveMonitor, S!Launch, S!Stop, S!SetDefault, S!graph
<1>4. CASE S!Persist
  BY <1>4, CommandEnds DEF S!Persist, S!Ends
<1> QED
  BY <1>2, <1>3, <1>4, CommandMoved, CommandDumps, CommandAsks, CommandPicks,
     CommandTurns
  DEF S!Next

(* The recorder's start: what it selects is what the profile names.        *)
RecorderAll == RecorderInv /\ S!MissingIsTrue

(* What was absent and what was the default only grows while it starts.    *)
LEMMA RecorderBeside ==
    ASSUME RecorderAll, rec' = rec,
           absent \subseteq absent', defaults \subseteq defaults',
           rec.pc # "idle" => /\ S!Nodes \ S!Present(id)' \subseteq absent'
                              /\ {source', sink'} \subseteq defaults'
    PROVE  RecorderAll'
<1>1. RecorderInv'
  BY DEF RecorderAll, RecorderInv
<1>2. S!MissingIsTrue'
  BY DEF RecorderAll, S!MissingIsTrue
<1> QED
  BY <1>1, <1>2 DEF RecorderAll

LEMMA NewRecording ==
    /\ S!NoRecording \in RecorderType /\ S!NoRecording.pc = "idle"
    /\ S!NoRecording.error = "none" /\ S!NoRecording.selMonitor = NoNode
  BY DEF S!NoRecording, RecorderType, Selectable

(* A start that fails: the reason is kept.                                 *)
LEMMA RecorderFails ==
    ASSUME RecorderAll, NEW why \in {"tool", "missing", "nodefault", "preroll"},
           rec.pc # "idle", S!Fails(why), UNCHANGED <<id, source, sink, absent, defaults>>,
           why = "missing" =>
               \E n \in absent : rec.mic = n \/ rec.monitor = S!Monitor(n)
    PROVE  RecorderAll'
<1>1. /\ rec' \in RecorderType /\ rec'.pc = "failed" /\ rec'.error = why
      /\ rec'.mic = rec.mic /\ rec'.monitor = rec.monitor
  BY DEF S!Fails, RecorderAll, RecorderInv, RecorderType
<1>2. RecorderInv'
  BY <1>1 DEF RecorderAll, RecorderInv
<1>3. S!MissingIsTrue'
  BY <1>1 DEF S!MissingIsTrue
<1> QED
  BY <1>2, <1>3 DEF RecorderAll

LEMMA RecorderStarts ==
    ASSUME GraphInv, RecorderAll, S!Start
    PROVE  RecorderAll'
<1>1. /\ rec' = [S!NoRecording EXCEPT !.pc = "mic", !.mic = profile.mic,
                                      !.monitor = profile.monitor]
      /\ profile.mic \in {"default"} \union S!Nodes /\ profile.monitor \in Selectable
  BY DEF S!Start, GraphInv
<1>2. \A a \in {"default"} \union S!Nodes, b \in Selectable :
         rec' = [S!NoRecording EXCEPT !.pc = "mic", !.mic = a, !.monitor = b] =>
            /\ rec' \in RecorderType /\ rec'.pc = "mic" /\ rec'.error = "none"
            /\ rec'.selMonitor = NoNode
  BY NewRecording DEF RecorderType
<1>3. /\ rec' \in RecorderType /\ rec'.pc = "mic" /\ rec'.error = "none"
      /\ rec'.selMonitor = NoNode
  BY <1>1, <1>2
<1>4. /\ absent' = S!Nodes \ S!Present(id) /\ defaults' = {source, sink}
      /\ UNCHANGED <<id, source, sink>>
  BY DEF S!Start, S!graph
<1> QED
  BY <1>3, <1>4 DEF RecorderAll, RecorderInv, S!MissingIsTrue, S!Present

LEMMA RecorderFindsMic ==
    ASSUME GraphInv, RecorderAll, S!ResolveMic
    PROVE  RecorderAll'
<1>1. /\ rec \in RecorderType /\ rec.pc = "mic" /\ rec.selMonitor = NoNode
      /\ S!Nodes \ S!Present(id) \subseteq absent /\ {source, sink} \subseteq defaults
      /\ rec.error = "none"
  BY DEF S!ResolveMic, RecorderAll, RecorderInv
<1>2. UNCHANGED <<id, source, sink, absent, defaults>>
  BY DEF S!ResolveMic, S!graph
<1>3. ASSUME NEW n \in S!Nodes, rec' = [rec EXCEPT !.pc = "monitor", !.selMic = n],
             IF rec.mic = "default" THEN n \in defaults \intersect Mics ELSE n = rec.mic
      PROVE  RecorderAll'
  <2>1. /\ rec' \in RecorderType /\ rec'.pc = "monitor" /\ rec'.selMic = n
        /\ rec'.mic = rec.mic /\ rec'.monitor = rec.monitor
        /\ rec'.selMonitor = NoNode /\ rec'.error = "none"
    BY <1>1, <1>3 DEF RecorderType
  <2> QED
    BY <1>1, <1>2, <1>3, <2>1 DEF RecorderAll, RecorderInv, S!MissingIsTrue, S!Present
<1>4. CASE S!Fails("tool") \/ S!Fails("nodefault")
  BY <1>1, <1>2, <1>4, RecorderFails
<1>5. ASSUME rec.mic = "default", source # NoNode,
             rec' = [rec EXCEPT !.pc = "monitor", !.selMic = source]
      PROVE  RecorderAll'
  <2>1. source \in defaults \intersect Mics /\ source \in S!Nodes
    BY <1>1, <1>5 DEF GraphInv, S!Nodes
  <2> QED
    BY <1>3, <1>5, <2>1
<1>6. ASSUME rec.mic # "default"
      PROVE  rec.mic \in S!Nodes
  BY <1>1, <1>6 DEF RecorderType
<1>7. ASSUME rec.mic # "default", rec' = [rec EXCEPT !.pc = "monitor", !.selMic = rec.mic]
      PROVE  RecorderAll'
  BY <1>3, <1>6, <1>7
<1>8. ASSUME rec.mic # "default", ~S!ensure_node_exists(rec.mic), S!Fails("missing")
      PROVE  RecorderAll'
  <2>1. rec.mic \in absent
    BY <1>1, <1>6, <1>8 DEF S!ensure_node_exists, S!Listed
  <2> QED
    BY <1>1, <1>2, <1>8, <2>1, RecorderFails
<1> QED
  BY <1>4, <1>5, <1>7, <1>8 DEF S!ResolveMic

LEMMA RecorderFindsMonitor ==
    ASSUME GraphInv, RecorderAll, S!ResolveMonitor
    PROVE  RecorderAll'
<1> DEFINE Selected(m) ==
              CASE rec.monitor = "" -> m = NoNode
                [] rec.monitor = "default" ->
                     \E s \in defaults \intersect Sinks : m = S!Monitor(s)
                [] OTHER -> m = rec.monitor
<1>1. /\ rec \in RecorderType /\ rec.pc = "monitor" /\ rec.selMonitor = NoNode
      /\ S!Nodes \ S!Present(id) \subseteq absent /\ {source, sink} \subseteq defaults
      /\ rec.error = "none" /\ S!MonitorArg = rec.monitor
  BY DEF S!ResolveMonitor, RecorderAll, RecorderInv, S!MonitorArg
<1>2. UNCHANGED <<id, source, sink, absent, defaults>>
  BY DEF S!ResolveMonitor, S!graph
<1>3. ASSUME NEW m \in Selectable \union {NoNode}, Selected(m),
             rec' = [rec EXCEPT !.pc = "launch", !.selMonitor = m]
      PROVE  RecorderAll'
  <2>1. /\ rec' \in RecorderType /\ rec'.pc = "launch" /\ rec'.selMic = rec.selMic
        /\ rec'.mic = rec.mic /\ rec'.monitor = rec.monitor
        /\ rec'.selMonitor = m /\ rec'.error = "none"
    BY <1>1, <1>3 DEF RecorderType
  <2>2. IF rec.mic = "default" THEN rec.selMic \in defaults \intersect Mics
                               ELSE rec.selMic = rec.mic
    BY <1>1 DEF RecorderAll, RecorderInv
  <2> QED
    BY <1>1, <1>2, <1>3, <2>1, <2>2 DEF RecorderAll, RecorderInv, S!MissingIsTrue, S!Present
<1>4. CASE S!Fails("tool") \/ S!Fails("nodefault")
  BY <1>1, <1>2, <1>4, RecorderFails
<1>5. ASSUME rec.monitor = "", rec' = [rec EXCEPT !.pc = "launch"]
      PROVE  RecorderAll'
  <2>1. rec' = [rec EXCEPT !.pc = "launch", !.selMonitor = NoNode]
    BY <1>1, <1>5 DEF RecorderType
  <2> QED
    BY <1>3, <1>5, <2>1
<1>6. ASSUME rec.monitor = "default", sink # NoNode,
             rec' = [rec EXCEPT !.pc = "launch", !.selMonitor = S!Monitor(sink)]
      PROVE  RecorderAll'
  <2>1. sink \in defaults \intersect Sinks
    BY <1>1, <1>6 DEF GraphInv
  <2>2. S!Monitor(sink) \in Selectable
    BY <2>1 DEF Selectable
  <2>3. Selected(S!Monitor(sink))
    BY <1>6, <2>1
  <2> HIDE DEF Selected
  <2> QED
    BY <1>3, <1>6, <2>2, <2>3
<1>7. ASSUME rec.monitor \notin {"", "default"},
             rec' = [rec EXCEPT !.pc = "launch", !.selMonitor = rec.monitor]
      PROVE  RecorderAll'
  <2>1. rec.monitor \in Selectable /\ Selected(rec.monitor)
    BY <1>1, <1>7 DEF RecorderType
  <2> HIDE DEF Selected
  <2> QED
    BY <1>3, <1>7, <2>1
<1>8. ASSUME rec.monitor \notin {"", "default"}, ~S!ensure_node_exists(rec.monitor),
             S!Fails("missing")
      PROVE  RecorderAll'
  <2>1. PICK s \in Sinks : rec.monitor = S!Monitor(s)
    BY <1>1, <1>8 DEF RecorderType, Selectable
  <2>2. s \in absent
    BY <1>1, <1>8, <2>1 DEF S!ensure_node_exists, S!Listed, S!Nodes
  <2> QED
    BY <1>1, <1>2, <1>8, <2>1, <2>2, RecorderFails
<1> QED
  BY <1>1, <1>4, <1>5, <1>6, <1>7, <1>8 DEF S!ResolveMonitor

LEMMA RecorderLaunches ==
    ASSUME RecorderAll, S!Launch
    PROVE  RecorderAll'
<1>1. rec \in RecorderType /\ rec.pc = "launch" /\ rec.error = "none"
      /\ UNCHANGED <<id, source, sink, absent, defaults>>
  BY DEF S!Launch, S!graph, RecorderAll, RecorderInv
<1>2. ASSUME rec' = [rec EXCEPT !.pc = "on"]
      PROVE  RecorderAll'
  <2>1. /\ rec' \in RecorderType /\ rec'.pc = "on" /\ rec'.selMic = rec.selMic
        /\ rec'.mic = rec.mic /\ rec'.monitor = rec.monitor
        /\ rec'.selMonitor = rec.selMonitor /\ rec'.error = "none"
    BY <1>1, <1>2 DEF RecorderType
  <2> QED
    BY <1>1, <2>1 DEF RecorderAll, RecorderInv, S!MissingIsTrue, S!Present
<1>3. CASE S!Fails("preroll")
  BY <1>1, <1>3, RecorderFails
<1> QED
  BY <1>2, <1>3 DEF S!Launch

LEMMA RecorderStops ==
    ASSUME rec' = S!NoRecording
    PROVE  RecorderAll'
  BY NewRecording DEF RecorderAll, RecorderInv, S!MissingIsTrue

LEMMA RecorderStep ==
    ASSUME GraphInv, RecorderAll, [S!Next]_(S!vars)
    PROVE  RecorderAll'
<1>1. ASSUME UNCHANGED <<id, source, sink, S!recorder>>
      PROVE  RecorderAll'
  <2>1. S!Present(id)' = S!Present(id)
    BY <1>1 DEF S!Present
  <2> QED
    BY <1>1, <2>1, RecorderBeside DEF S!recorder, RecorderAll, RecorderInv
<1>2. ASSUME NEW n \in S!Nodes, S!Unplug(n) \/ S!Plug(n)
      PROVE  RecorderAll'
  <2>1. S!Moved /\ S!Present(id)' = S!Present(id')
    BY <1>2 DEF S!Unplug, S!Plug, S!Present
  <2> QED
    BY <2>1, RecorderBeside DEF S!Moved, RecorderAll, RecorderInv
<1>3. CASE S!SetDefault
  <2>1. UNCHANGED <<id, rec, absent>> /\ S!Present(id)' = S!Present(id)
    BY <1>3 DEF S!SetDefault, S!Present
  <2>2. defaults' = IF rec.pc = "idle" THEN defaults ELSE defaults \union {source', sink'}
    BY <1>3 DEF S!SetDefault
  <2> QED
    BY <2>1, <2>2, RecorderBeside DEF RecorderAll, RecorderInv
<1>4. CASE UNCHANGED S!vars
  BY <1>1, <1>4 DEF S!vars, S!recorder
<1>5. CASE S!Dump \/ S!AskDefault \/ S!Pick \/ S!SetVolume \/ S!Persist
  BY <1>1, <1>5
  DEF S!Dump, S!AskDefault, S!Pick, S!SetVolume, S!Persist, S!graph, S!recorder
<1>6. CASE S!Stop
  BY <1>6, RecorderStops DEF S!Stop
<1> QED
  BY <1>2, <1>3, <1>4, <1>5, <1>6, RecorderStarts, RecorderFindsMic,
     RecorderFindsMonitor, RecorderLaunches
  DEF S!Next

LEMMA DeviceInit == S!Init => DeviceInv
<1> SUFFICES ASSUME S!Init
             PROVE  DeviceInv
  OBVIOUS
<1>1. GraphInv
  <2>1. PICK ids \in [S!Nodes -> 0 .. MaxId] :
           /\ \A a, b \in S!Nodes : a # b /\ ids[a] = ids[b] => ids[a] = 0
           /\ id = ids
    BY DEF S!Init
  <2>2. profile.mic \in {"default"} \union S!Nodes /\ profile.monitor \in Selectable
    BY DEF S!Init, Selectable
  <2> QED
    BY <2>1, <2>2 DEF S!Init, GraphInv
<1>2. CommandInv /\ S!TurnsOnlyTheChosen /\ S!WizardNamesMic
  BY NewCommand DEF S!Init, CommandInv, S!TurnsOnlyTheChosen, S!WizardNamesMic
<1>3. RecorderInv /\ S!MissingIsTrue
  BY NewRecording DEF S!Init, RecorderInv, S!MissingIsTrue
<1> QED
  BY <1>1, <1>2, <1>3 DEF DeviceInv

LEMMA DeviceStep == DeviceInv /\ [S!Next]_(S!vars) => DeviceInv'
  BY GraphStep, CommandStep, RecorderStep DEF DeviceInv, CommandAll, RecorderAll

LEMMA DeviceKept ==
    ASSUME DeviceInv
    PROVE  /\ S!TypeOK /\ S!TurnsOnlyTheChosen /\ S!WizardNamesMic
           /\ S!RecordsWhatProfileSays /\ S!MissingIsTrue
<1>1. S!TypeOK
  BY DEF DeviceInv, GraphInv, CommandInv, CliType, RecorderInv, RecorderType, S!TypeOK
<1>2. S!RecordsWhatProfileSays
  BY DEF DeviceInv, RecorderInv, S!RecordsWhatProfileSays
<1> QED
  BY <1>1, <1>2 DEF DeviceInv

-----------------------------------------------------------------------------
(* Proof: the API key *)

(* A change of the file, of its directory entry or of the provider's key:  *)
(* what a reader has open is touched only at the path.                     *)
LEMMA ConfigChanges ==
    ASSUME KeyInv, UNCHANGED <<env, parentOk, rd>>,
           path' \in Inodes \union {None}, mode' \in [Inodes -> K!Modes],
           body' \in [Inodes -> K!Bodies], valid' \in Keys, k_edits' \in 0 .. Edits,
           seen' = [r \in K!Readers |-> seen[r] \union K!Current(path', body')],
           quiet' = [r \in K!Readers |-> FALSE],
           \A r \in K!Readers : Reading(rd[r]) =>
               body'[rd[r].fd] = body[rd[r].fd] \/ rd[r].fd = path'
    PROVE  KeyInv'
<1>1. KeyTypes'
  <2>1. \A r \in K!Readers : K!Current(path', body') \subseteq Keys
    BY DEF K!Current
  <2>2. seen' \in [K!Readers -> SUBSET Keys]
    BY <2>1 DEF KeyInv, KeyTypes
  <2> QED
    BY <2>2 DEF KeyInv, KeyTypes
<1>2. ASSUME NEW r \in K!Readers
      PROVE  SeenRow(r, rd[r])' /\ QuietRow(r, rd[r])'
  <2>1. /\ seen[r] \subseteq seen'[r] /\ K!Current(path', body') \subseteq seen'[r]
        /\ ~quiet'[r] /\ rd'[r] = rd[r] /\ rd[r] \in ReaderType /\ SeenRow(r, rd[r])
    BY DEF KeyInv, KeyTypes
  <2>2. K!Current(path, body)' = K!Current(path', body')
    BY DEF K!Current
  <2>3. Reading(rd[r]) => rd[r].fd \in Inodes
           /\ (body'[rd[r].fd] \in Keys => body'[rd[r].fd] \in seen'[r])
    <3> SUFFICES ASSUME Reading(rd[r]), body'[rd[r].fd] \in Keys
                 PROVE  body'[rd[r].fd] \in seen'[r]
      BY <2>1 DEF SeenRow
    <3>1. CASE rd[r].fd = path'
      <4>1. rd[r].fd \in Inodes /\ rd[r].fd # None
        BY <2>1, KeyAssumption DEF SeenRow
      <4> QED
        BY <2>1, <3>1, <4>1 DEF K!Current
    <3>2. CASE body'[rd[r].fd] = body[rd[r].fd]
      BY <2>1, <3>2 DEF SeenRow
    <3> QED
      BY <3>1, <3>2
  <2>4. SeenRow(r, rd[r])'
    BY <2>1, <2>2, <2>3 DEF SeenRow, Busy, Reading
  <2>5. QuietRow(r, rd[r])'
    BY <2>1 DEF QuietRow
  <2> QED
    BY <2>4, <2>5
<1> QED
  BY <1>1, <1>2 DEF KeyInv

LEMMA UserSteps ==
    ASSUME KeyInv, \/ K!Truncate \/ K!FinishSave \/ K!Replace
                   \/ K!Chmod \/ K!Delete \/ K!Rotate
    PROVE  KeyInv'
<1>1. /\ path \in Inodes \union {None} /\ mode \in [Inodes -> K!Modes]
      /\ body \in [Inodes -> K!Bodies] /\ valid \in Keys /\ k_edits \in 0 .. Edits
  BY DEF KeyInv, KeyTypes
<1>2. K!Changed => /\ UNCHANGED <<env, parentOk, rd>> /\ k_edits' \in 0 .. Edits
                   /\ seen' = [r \in K!Readers |-> seen[r] \union K!Current(path', body')]
                   /\ quiet' = [r \in K!Readers |-> FALSE]
  BY <1>1, KeyAssumption DEF K!Changed
<1>3. ASSUME K!Truncate
      PROVE  KeyInv'
  <2>1. /\ path' = path /\ body' \in [Inodes -> K!Bodies]
        /\ \A i \in Inodes : body'[i] = body[i] \/ i = path'
    BY <1>1, <1>3 DEF K!Truncate, K!Bodies
  <2>2. \A r \in K!Readers : Reading(rd[r]) => rd[r].fd \in Inodes
    BY DEF KeyInv, SeenRow
  <2> QED
    BY <1>1, <1>2, <1>3, <2>1, <2>2, ConfigChanges DEF K!Truncate
<1>4. ASSUME K!FinishSave
      PROVE  KeyInv'
  <2>1. /\ path' = path /\ body' \in [Inodes -> K!Bodies]
        /\ \A i \in Inodes : body'[i] = body[i] \/ i = path'
    BY <1>1, <1>4 DEF K!FinishSave, K!Bodies
  <2>2. \A r \in K!Readers : Reading(rd[r]) => rd[r].fd \in Inodes
    BY DEF KeyInv, SeenRow
  <2>3. seen' = [r \in K!Readers |-> seen[r] \union K!Current(path', body')]
    BY <1>4, <2>1 DEF K!FinishSave
  <2> QED
    BY <1>1, <1>4, <2>1, <2>2, <2>3, ConfigChanges DEF K!FinishSave
<1>5. ASSUME K!Replace
      PROVE  KeyInv'
  <2>1. PICK i \in Inodes \ {path}, k \in Keys, m \in {"0600", "other"} :
           /\ \A r \in K!Readers : rd[r].fd # i \/ rd[r].pc \in {"idle", "done"}
           /\ path' = i /\ body' = [body EXCEPT ![i] = k]
           /\ mode' = [mode EXCEPT ![i] = m]
    BY <1>5 DEF K!Replace
  <2>2. /\ body' \in [Inodes -> K!Bodies] /\ mode' \in [Inodes -> K!Modes]
        /\ \A j \in Inodes : body'[j] = body[j] \/ j = path'
    BY <1>1, <2>1 DEF K!Bodies, K!Modes
  <2>3. \A r \in K!Readers : Reading(rd[r]) => rd[r].fd \in Inodes
    BY DEF KeyInv, SeenRow
  <2> QED
    BY <1>1, <1>2, <1>5, <2>1, <2>2, <2>3, ConfigChanges DEF K!Replace
<1>6. ASSUME K!Chmod
      PROVE  KeyInv'
  <2>1. mode' \in [Inodes -> K!Modes]
    BY <1>1, <1>6 DEF K!Chmod
  <2> QED
    BY <1>1, <1>2, <1>6, <2>1, ConfigChanges DEF K!Chmod
<1>7. ASSUME K!Delete
      PROVE  KeyInv'
  BY <1>1, <1>2, <1>7, ConfigChanges DEF K!Delete
<1>8. ASSUME K!Rotate
      PROVE  KeyInv'
  BY <1>1, <1>2, <1>8, ConfigChanges DEF K!Rotate
<1> QED
  BY <1>3, <1>4, <1>5, <1>6, <1>7, <1>8

(* A step of one reader.                                                   *)
LEMMA ReaderMoves ==
    ASSUME KeyInv, NEW r \in K!Readers, NEW row \in ReaderType, K!Reads(r, row),
           SeenRow(r, row), QuietRow(r, row)
    PROVE  KeyInv'
<1>1. /\ UNCHANGED <<env, path, mode, body, parentOk, valid, k_edits, seen, quiet>>
      /\ rd' = [rd EXCEPT ![r] = row]
  BY DEF K!Reads, K!config
<1>2. rd'[r] = row /\ \A s \in K!Readers : s # r => rd'[s] = rd[s]
  BY <1>1 DEF KeyInv, KeyTypes
<1>3. KeyTypes'
  BY <1>1 DEF KeyInv, KeyTypes
<1>4. ASSUME NEW s \in K!Readers, NEW x, x = rd'[s], SeenRow(s, x), QuietRow(s, x)
      PROVE  SeenRow(s, rd[s])' /\ QuietRow(s, rd[s])'
  BY <1>1, <1>4 DEF SeenRow, QuietRow, Busy, Reading, Effective, InOrder, K!Current
<1> QED
  BY <1>2, <1>3, <1>4 DEF KeyInv

(* What a step of a reader makes of its record.                            *)
RowIs(row, step, fd, key, from, verdict) ==
    /\ row \in ReaderType
    /\ row.pc = step /\ row.fd = fd /\ row.key = key /\ row.source = from
    /\ row.outcome = verdict

LEMMA RowChanges ==
    ASSUME NEW row \in ReaderType,
           NEW p \in {"idle", "env", "open", "stat", "parent", "read", "use", "done"},
           NEW f \in Inodes \union {None}, NEW k \in Keys \union {None},
           NEW s \in {"none", "env", "file"},
           NEW o \in {"none", "refused", "ok", "auth", "quota", "bad", "network"}
    PROVE  /\ RowIs([row EXCEPT !.pc = p], p, row.fd, row.key, row.source, row.outcome)
           /\ RowIs([row EXCEPT !.pc = p, !.fd = f],
                    p, f, row.key, row.source, row.outcome)
           /\ RowIs([row EXCEPT !.pc = p, !.key = k, !.source = s],
                    p, row.fd, k, s, row.outcome)
           /\ RowIs([row EXCEPT !.pc = p, !.outcome = o],
                    p, row.fd, row.key, row.source, o)
           /\ RowIs([row EXCEPT !.pc = p, !.key = K!Dropped(@), !.source = s,
                               !.outcome = o], p, row.fd, None, s, o)
<1>1. RowIs([row EXCEPT !.pc = p], p, row.fd, row.key, row.source, row.outcome)
  BY DEF ReaderType, RowIs
<1>2. RowIs([row EXCEPT !.pc = p, !.fd = f], p, f, row.key, row.source, row.outcome)
  BY DEF ReaderType, RowIs
<1>3. RowIs([row EXCEPT !.pc = p, !.key = k, !.source = s],
            p, row.fd, k, s, row.outcome)
  BY DEF ReaderType, RowIs
<1>4. RowIs([row EXCEPT !.pc = p, !.outcome = o], p, row.fd, row.key, row.source, o)
  BY DEF ReaderType, RowIs
<1>5. RowIs([row EXCEPT !.pc = p, !.key = K!Dropped(@), !.source = s, !.outcome = o],
            p, row.fd, None, s, o)
  <2>1. ASSUME NEW d \in Keys \union {None}
        PROVE  RowIs([row EXCEPT !.pc = p, !.key = d, !.source = s, !.outcome = o],
                     p, row.fd, d, s, o)
    <3> DEFINE new == [row EXCEPT !.pc = p, !.key = d, !.source = s, !.outcome = o]
    <3>1. new.pc = p /\ new.key = d /\ new.source = s /\ new.outcome = o
          /\ new.fd = row.fd
      BY DEF ReaderType
    <3>2. new \in ReaderType
      BY DEF ReaderType
    <3> QED
      BY <3>1, <3>2 DEF RowIs
  <2>2. K!Dropped(row.key) = None
    BY DEF K!Dropped
  <2> QED
    BY <2>1, <2>2
<1> QED
  BY <1>1, <1>2, <1>3, <1>4, <1>5

LEMMA ReaderFails ==
    ASSUME KeyInv, NEW r \in K!Readers, K!Fails(r), Busy(rd[r]), rd[r].pc # "use",
           quiet[r] => ~InOrder
    PROVE  KeyInv'
<1> DEFINE row == [rd[r] EXCEPT !.pc = "done", !.outcome = "refused"]
<1>1. rd[r] \in ReaderType /\ SeenRow(r, rd[r])
  BY DEF KeyInv, KeyTypes
<1>2. K!Reads(r, row)
  BY DEF K!Fails
<1>3. RowIs(row, "done", rd[r].fd, rd[r].key, rd[r].source, "refused")
  <2>1. rd[r].fd \in Inodes \union {None} /\ rd[r].key \in Keys \union {None}
        /\ rd[r].source \in {"none", "env", "file"}
    BY <1>1 DEF ReaderType
  <2> QED
    BY <1>1, <2>1, RowChanges
<1> HIDE DEF row
<1>4. SeenRow(r, row) /\ QuietRow(r, row)
  BY <1>1, <1>3 DEF RowIs, SeenRow, QuietRow, Busy, Reading
<1> QED
  BY <1>2, <1>3, <1>4, ReaderMoves DEF RowIs

LEMMA KeyBegins ==
    ASSUME KeyInv, NEW r \in K!Readers, K!Begin(r)
    PROVE  KeyInv'
<1>1. rd[r] \in ReaderType /\ K!Current(path, body) \subseteq Keys
  BY DEF KeyInv, KeyTypes, K!Current
<1> DEFINE row == [K!Reader EXCEPT !.pc = "env", !.fd = rd[r].fd]
<1>2. RowIs(row, "env", rd[r].fd, None, "none", "none")
  <2>1. RowIs(K!Reader, "idle", None, None, "none", "none")
    BY DEF K!Reader, RowIs, ReaderType
  <2>2. rd[r].fd \in Inodes \union {None}
    BY <1>1 DEF ReaderType
  <2> QED
    BY <2>1, <2>2 DEF RowIs, ReaderType
<1>3. /\ UNCHANGED <<env, path, mode, body, parentOk, valid, k_edits>>
      /\ rd' = [rd EXCEPT ![r] = row]
      /\ seen' = [seen EXCEPT ![r] = K!Current(path, body)]
      /\ quiet' = [quiet EXCEPT ![r] = TRUE]
  BY DEF K!Begin, K!config
<1>4. row \in ReaderType /\ row.pc = "env" /\ row.key = None
  BY <1>2 DEF RowIs
<1> HIDE DEF row
<1>5. KeyTypes'
  BY <1>1, <1>3, <1>4 DEF KeyInv, KeyTypes
<1>6. ASSUME NEW s \in K!Readers, s # r
      PROVE  SeenRow(s, rd[s])' /\ QuietRow(s, rd[s])'
  <2>1. rd'[s] = rd[s] /\ seen'[s] = seen[s] /\ quiet'[s] = quiet[s]
        /\ SeenRow(s, rd[s]) /\ QuietRow(s, rd[s])
    BY <1>3, <1>6 DEF KeyInv, KeyTypes
  <2> QED
    BY <1>3, <2>1 DEF SeenRow, QuietRow, Busy, Reading, Effective, InOrder, K!Current
<1>7. SeenRow(r, rd[r])' /\ QuietRow(r, rd[r])'
  <2>1. rd'[r] = row /\ seen'[r] = K!Current(path, body)
    BY <1>3 DEF KeyInv, KeyTypes
  <2> QED
    BY <1>3, <1>4, <2>1 DEF SeenRow, QuietRow, Busy, Reading, K!Current
<1> QED
  BY <1>5, <1>6, <1>7 DEF KeyInv

LEMMA KeyLookups ==
    ASSUME KeyInv, NEW r \in K!Readers, K!LookupEnv(r)
    PROVE  KeyInv'
<1>1. /\ rd[r] \in ReaderType /\ SeenRow(r, rd[r]) /\ QuietRow(r, rd[r])
      /\ rd[r].pc = "env"
  BY DEF KeyInv, KeyTypes, K!LookupEnv
<1>2. ASSUME env[r] \in Keys
      PROVE  KeyInv'
  <2> DEFINE row == [rd[r] EXCEPT !.pc = "use", !.key = env[r], !.source = "env"]
  <2>1. K!Reads(r, row)
    BY <1>1, <1>2 DEF K!LookupEnv, K!lookup_env
  <2>2. RowIs(row, "use", rd[r].fd, env[r], "env", rd[r].outcome)
    BY <1>1, <1>2, RowChanges
  <2> HIDE DEF row
  <2>3. SeenRow(r, row) /\ QuietRow(r, row)
    BY <1>1, <1>2, <2>2 DEF RowIs, SeenRow, QuietRow, Busy, Reading, Effective
  <2> QED
    BY <2>1, <2>2, <2>3, ReaderMoves DEF RowIs
<1>3. ASSUME env[r] \notin Keys
      PROVE  KeyInv'
  <2> DEFINE row == [rd[r] EXCEPT !.pc = "open"]
  <2>1. K!Reads(r, row)
    BY <1>1, <1>3 DEF K!LookupEnv, K!lookup_env
  <2>2. RowIs(row, "open", rd[r].fd, rd[r].key, rd[r].source, rd[r].outcome)
    BY <1>1, RowChanges
  <2> HIDE DEF row
  <2>3. SeenRow(r, row) /\ QuietRow(r, row)
    BY <1>1, <1>3, <2>2 DEF RowIs, SeenRow, QuietRow, Busy, Reading
  <2> QED
    BY <2>1, <2>2, <2>3, ReaderMoves DEF RowIs
<1> QED
  BY <1>2, <1>3

LEMMA KeyOpens ==
    ASSUME KeyInv, NEW r \in K!Readers, K!Open(r)
    PROVE  KeyInv'
<1>1. /\ rd[r] \in ReaderType /\ SeenRow(r, rd[r]) /\ QuietRow(r, rd[r])
      /\ rd[r].pc = "open" /\ path \in Inodes \union {None}
  BY DEF KeyInv, KeyTypes, K!Open
<1>2. ASSUME path = None
      PROVE  KeyInv'
  <2>1. K!Fails(r) /\ Busy(rd[r]) /\ ~InOrder
    BY <1>1, <1>2 DEF K!Open, K!Opened, Busy, InOrder
  <2> QED
    BY <1>1, <2>1, ReaderFails
<1>3. ASSUME path # None
      PROVE  KeyInv'
  <2> DEFINE row == [rd[r] EXCEPT !.pc = "stat", !.fd = path]
  <2>1. K!Reads(r, row)
    BY <1>1, <1>3 DEF K!Open, K!Opened
  <2>2. RowIs(row, "stat", path, rd[r].key, rd[r].source, rd[r].outcome)
    BY <1>1, RowChanges
  <2> HIDE DEF row
  <2>3. body[path] \in Keys => body[path] \in seen[r]
    BY <1>1, <1>3 DEF SeenRow, Busy, K!Current
  <2>4. SeenRow(r, row) /\ QuietRow(r, row)
    BY <1>1, <1>3, <2>3, <2>2 DEF RowIs, SeenRow, QuietRow, Busy, Reading
  <2> QED
    BY <2>1, <2>2, <2>4, ReaderMoves DEF RowIs
<1> QED
  BY <1>2, <1>3

(* The checks on the open file: its mode, and its directory.               *)
LEMMA KeyChecks ==
    ASSUME KeyInv, NEW r \in K!Readers, K!Stat(r) \/ K!check_parent_directory(r)
    PROVE  KeyInv'
<1>1. /\ rd[r] \in ReaderType /\ SeenRow(r, rd[r]) /\ QuietRow(r, rd[r])
      /\ rd[r].pc \in {"stat", "parent"}
  BY DEF KeyInv, KeyTypes, K!Stat, K!check_parent_directory
<1>2. ASSUME K!Fails(r), mode[rd[r].fd] \notin {"0600", "0400"} \/ ~parentOk
      PROVE  KeyInv'
  <2>1. Busy(rd[r]) /\ (quiet[r] => rd[r].fd = path)
    BY <1>1 DEF Busy, Reading, QuietRow
  <2> QED
    BY <1>1, <1>2, <2>1, ReaderFails DEF InOrder
<1>3. ASSUME NEW p \in {"parent", "read"}, K!Reads(r, [rd[r] EXCEPT !.pc = p])
      PROVE  KeyInv'
  <2> DEFINE row == [rd[r] EXCEPT !.pc = p]
  <2>1. K!Reads(r, row)
    BY <1>1, <1>3
  <2>2. RowIs(row, p, rd[r].fd, rd[r].key, rd[r].source, rd[r].outcome)
    BY <1>1, RowChanges
  <2> HIDE DEF row
  <2>3. SeenRow(r, row) /\ QuietRow(r, row)
    BY <1>1, <2>2 DEF RowIs, SeenRow, QuietRow, Busy, Reading
  <2> QED
    BY <2>1, <2>2, <2>3, ReaderMoves DEF RowIs
<1> QED
  BY <1>2, <1>3 DEF K!Stat, K!check_parent_directory, K!ACCEPTED_MODES

LEMMA KeyReads ==
    ASSUME KeyInv, NEW r \in K!Readers, K!Read(r)
    PROVE  KeyInv'
<1>1. /\ rd[r] \in ReaderType /\ SeenRow(r, rd[r]) /\ QuietRow(r, rd[r])
      /\ rd[r].pc = "read"
  BY DEF KeyInv, KeyTypes, K!Read
<1>2. ASSUME body[rd[r].fd] \notin Keys
      PROVE  KeyInv'
  <2>1. K!Fails(r) /\ Busy(rd[r]) /\ (quiet[r] => ~InOrder)
    BY <1>1, <1>2 DEF K!Read, Busy, Reading, QuietRow, InOrder
  <2> QED
    BY <1>1, <2>1, ReaderFails
<1>3. ASSUME body[rd[r].fd] \in Keys
      PROVE  KeyInv'
  <2> DEFINE row == [rd[r] EXCEPT !.pc = "use", !.key = body[rd[r].fd], !.source = "file"]
  <2>1. K!Reads(r, row)
    BY <1>1, <1>3 DEF K!Read
  <2>2. RowIs(row, "use", rd[r].fd, body[rd[r].fd], "file", rd[r].outcome)
    BY <1>1, <1>3, RowChanges
  <2> HIDE DEF row
  <2>3. SeenRow(r, row)
    BY <1>1, <1>3, <2>2 DEF RowIs, SeenRow, Busy, Reading
  <2>4. quiet[r] => body[rd[r].fd] = Effective(r)
    <3>1. rd[r].fd # None
      BY <1>1, KeyAssumption DEF SeenRow, Reading
    <3> QED
      BY <1>1, <3>1 DEF QuietRow, Reading, Effective
  <2>5. QuietRow(r, row)
    BY <1>1, <2>4, <2>2 DEF RowIs, QuietRow, Reading
  <2> QED
    BY <2>1, <2>2, <2>3, <2>5, ReaderMoves DEF RowIs
<1> QED
  BY <1>2, <1>3

LEMMA KeyUsed ==
    ASSUME KeyInv, NEW r \in K!Readers, K!Use(r)
    PROVE  KeyInv'
<1>1. /\ rd[r] \in ReaderType /\ SeenRow(r, rd[r]) /\ QuietRow(r, rd[r])
      /\ rd[r].pc = "use"
  BY DEF KeyInv, KeyTypes, K!Use
<1>2. PICK a \in K!Answers(rd[r].key) :
         K!Reads(r, [rd[r] EXCEPT !.pc = "done", !.key = K!Dropped(@), !.source = "none",
                        !.outcome = IF r = "health" THEN K!classify_failure(a)
                                    ELSE K!classify_http_error(a)])
  BY DEF K!Use
<1> DEFINE o == IF r = "health" THEN K!classify_failure(a) ELSE K!classify_http_error(a)
           row == [rd[r] EXCEPT !.pc = "done", !.key = K!Dropped(@), !.source = "none",
                                !.outcome = o]
<1>3. /\ o \in {"ok", "auth", "quota", "bad", "network"}
      /\ o = "ok" => rd[r].key = valid
      /\ o = "auth" => rd[r].key # valid
  BY DEF K!Answers, K!classify_failure, K!classify_http_error
<1>4. K!Reads(r, row)
  BY <1>2
<1> HIDE DEF o
<1>5. RowIs(row, "done", rd[r].fd, None, "none", o)
  <2>1. rd[r] \in ReaderType /\ "done" \in {"idle", "env", "open", "stat", "parent",
           "read", "use", "done"} /\ None \in Keys \union {None}
        /\ "none" \in {"none", "env", "file"}
        /\ o \in {"none", "refused", "ok", "auth", "quota", "bad", "network"}
    BY <1>1, <1>3
  <2> QED
    BY <2>1, RowChanges
<1> HIDE DEF row
<1>6. SeenRow(r, row) /\ QuietRow(r, row)
  BY <1>1, <1>3, <1>5 DEF RowIs, SeenRow, QuietRow, Busy, Reading
<1> QED
  BY <1>4, <1>5, <1>6, ReaderMoves DEF RowIs

LEMMA KeyStep == KeyInv /\ [K!Next]_(K!vars) => KeyInv'
<1> SUFFICES ASSUME KeyInv, [K!Next]_(K!vars)
             PROVE  KeyInv'
  OBVIOUS
<1>1. CASE UNCHANGED K!vars
  BY <1>1
  DEF K!vars, KeyInv, KeyTypes, SeenRow, QuietRow, Busy, Reading, Effective, InOrder,
      K!Current
<1> QED
  BY <1>1, UserSteps, KeyBegins, KeyLookups, KeyOpens, KeyChecks, KeyReads, KeyUsed
  DEF K!Next

LEMMA KeyInit == K!Init => KeyInv
<1> SUFFICES ASSUME K!Init
             PROVE  KeyInv
  OBVIOUS
<1>1. KeyTypes
  <2>1. K!FirstKey \in Keys /\ (CHOOSE i \in Inodes : TRUE) \in Inodes
    BY KeyAssumption DEF K!Init, K!FirstKey
  <2>2. path \in Inodes \union {None} /\ mode \in [Inodes -> K!Modes]
    BY <2>1 DEF K!Init
  <2>3. body \in [Inodes -> K!Bodies]
    BY <2>1 DEF K!Init, K!Bodies
  <2>4. parentOk \in BOOLEAN /\ valid \in Keys /\ k_edits \in 0 .. Edits
    <3>1. k_edits = 0 /\ valid \in Keys
      BY DEF K!Init
    <3>2. parentOk \in BOOLEAN
      BY DEF K!Init
    <3> QED
      BY <3>1, <3>2, KeyAssumption
  <2>5. rd \in [K!Readers -> ReaderType]
    BY DEF K!Init, K!Reader, ReaderType
  <2>6. seen \in [K!Readers -> SUBSET Keys] /\ quiet \in [K!Readers -> BOOLEAN]
    BY DEF K!Init
  <2> QED
    BY <2>2, <2>3, <2>4, <2>5, <2>6 DEF KeyTypes
<1>2. ASSUME NEW r \in K!Readers
      PROVE  SeenRow(r, rd[r]) /\ QuietRow(r, rd[r])
  <2>1. rd[r].pc = "idle" /\ rd[r].key = None /\ ~quiet[r]
    BY DEF K!Init, K!Reader
  <2> QED
    BY <2>1 DEF SeenRow, QuietRow, Busy, Reading
<1> QED
  BY <1>1, <1>2 DEF KeyInv

LEMMA KeyKept ==
    ASSUME KeyInv
    PROVE  /\ K!TypeOK /\ K!KeyIsCurrent /\ K!GoodConfigResolves
           /\ K!HealthPredictsJob
<1>1. K!TypeOK
  BY DEF KeyInv, KeyTypes, ReaderType, SeenRow, K!TypeOK
<1>2. K!KeyIsCurrent
  BY DEF KeyInv, SeenRow, K!KeyIsCurrent
<1>3. K!GoodConfigResolves
  BY DEF KeyInv, KeyTypes, ReaderType, SeenRow, QuietRow, InOrder, K!GoodConfigResolves
<1>4. K!HealthPredictsJob
  <2> SUFFICES ASSUME \A r \in K!Readers : rd[r].pc = "done" /\ quiet[r],
                      env["health"] = env["job"], rd["health"].outcome = "ok",
                      rd["job"].outcome = "auth"
               PROVE  FALSE
    BY DEF K!HealthPredictsJob
  <2>1. Effective("health") = valid /\ Effective("job") # valid
    BY DEF KeyInv, QuietRow, K!Readers
  <2> QED
    BY <2>1 DEF Effective
<1> QED
  BY <1>1, <1>2, <1>3, <1>4

-----------------------------------------------------------------------------
(* The parts together *)

Inv == StoreInv /\ DeviceInv /\ KeyInv

(* A part that does not run leaves its variables alone.                    *)
LEMMA PartSteps ==
    ASSUME [Next]_vars
    PROVE  [P!Next]_(P!vars) /\ [S!Next]_(S!vars) /\ [K!Next]_(K!vars)
<1>1. /\ P!Next \/ UNCHANGED pvars
      /\ S!Next \/ UNCHANGED svars
      /\ K!Next \/ UNCHANGED kvars
  BY DEF Next, vars
<1>2. /\ UNCHANGED pvars => UNCHANGED P!vars
      /\ UNCHANGED svars => UNCHANGED S!vars
      /\ UNCHANGED kvars => UNCHANGED K!vars
  BY DEF pvars, svars, kvars, P!vars, P!fileVars, P!writerVars, P!daemonVars,
         S!vars, K!vars
<1> QED
  BY <1>1, <1>2

LEMMA InvHolds == Spec => []Inv
<1>1. Init => Inv
  BY StoreInit, DeviceInit, KeyInit DEF Init, Inv
<1>2. Inv /\ [Next]_vars => Inv'
  BY PartSteps, StoreStep, DeviceStep, KeyStep DEF Inv
<1> QED
  BY <1>1, <1>2, PTL DEF Spec

(* `profile list` names the file that a load reads, and of any number of   *)
(* concurrent clones of a name at most one is told that it succeeded; the  *)
(* empty override that hides a shipped profile belongs to a clone that is  *)
(* under way, was killed or reported its failure (listing.rs, loader.rs,   *)
(* cli profile.rs).                                                        *)
THEOREM StoreIsSound == Spec => []StoreAgrees
<1>1. Inv => StoreAgrees
  BY StoreKept DEF Inv, StoreAgrees
<1> QED
  BY <1>1, InvHolds, PTL

(* Whatever is plugged, unplugged and made the default meanwhile, a command*)
(* turns the volume of the chosen device only, the wizard stores a         *)
(* microphone, a recording has the sources its profile names, and a device *)
(* that is reported missing was missing (setup/mod.rs, audio.rs,           *)
(* devices.rs).                                                            *)
THEOREM DevicesAreRight == Spec => []DevicesMatch
<1>1. Inv => DevicesMatch
  BY DeviceKept DEF Inv, DevicesMatch
<1> QED
  BY <1>1, InvHolds, PTL

(* A key from the file is one it held since the job began and is dropped   *)
(* after its request, a configuration in order is not refused, and an OK   *)
(* of health means that a job's key is accepted, over any number of edits  *)
(* and rotations (resolver.rs, backend.rs, deepgram.rs).                   *)
THEOREM KeysAreRight == Spec => []KeysMatch
<1>1. Inv => KeysMatch
  BY KeyKept DEF Inv, KeysMatch
<1> QED
  BY <1>1, InvHolds, PTL

(* The creation of a clone's override, which hides a shipped profile until *)
(* it is written, is the one step of the program that makes a profile stop *)
(* loading; an undisturbed edit changes its own part only, and a restarted *)
(* daemon's active profile loads (listing.rs, client.rs, active_profile.rs)*)
THEOREM ProfilesAreKept == Spec => ProfilesKept
<1> DEFINE Whole == edits' = edits /\ P!load("p")
                      => P!load("p")' \/ (user = Absent /\ user' = Partial)
           Rest == \A w \in Writers :
                      pc[w] = "write" /\ user \in P!Parsed /\ user' \in P!Doc /\ user' # user
                      /\ pc'[w] = "done" /\ held[w].version = version
                      => \/ kind[w] = "outputs" /\ user'.sources = user.sources
                         \/ kind[w] # "outputs" /\ user'.outputs = user.outputs
           Restart == ~up /\ up' => active' = "" \/ P!load(active')
<1>1. Inv /\ [Next]_vars => [Whole]_(P!vars)
  BY PartSteps, WholeStep DEF Inv
<1>2. Inv /\ [Next]_vars => [Rest]_(P!vars)
  BY PartSteps, RestStep DEF Inv
<1>3. Inv /\ [Next]_vars => [Restart]_(P!vars)
  BY PartSteps, RestartStep DEF Inv
<1> HIDE DEF Whole, Rest, Restart
<1>4. Spec => [][Whole]_(P!vars) /\ [][Rest]_(P!vars) /\ [][Restart]_(P!vars)
  BY <1>1, <1>2, <1>3, InvHolds, PTL DEF Spec
<1> QED
  BY <1>4 DEF ProfilesKept, P!WholeStaysWhole, P!EditsKeepTheRest,
              P!RestartOffersLoadable, Whole, Rest, Restart
=============================================================================
