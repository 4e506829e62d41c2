------------------------------- MODULE Sources ------------------------------
(***************************************************************************)
(* Which PipeWire node a name, an id or "default" means, and when: the     *)
(* microphone commands enumerate the nodes once and then act by object id, *)
(* the profile keeps a node name, and the recorder resolves that name at   *)
(* every start.  Meanwhile devices are unplugged and plugged again, their  *)
(* ids are given to others and the default moves.  The command and the     *)
(* recording share the graph and the profile, which each reads in one      *)
(* step; they are explored one after the other.                            *)
(***************************************************************************)
EXTENDS Naturals, Sequences

CONSTANTS
    Mics, Sinks,   \* node names of capture and of playback devices
    MaxId,         \* object ids; PipeWire gives the lowest free one
    Moves,         \* bound: device and default changes
    NoNode         \* no such node

Nodes == Mics \cup Sinks
Monitor(s) == s \o ".monitor"

VARIABLES
    id,        \* the object id of each node, 0 while it is unplugged
    source,    \* the default source, or NoNode
    sink,      \* the default sink, or NoNode
    moves,     \* changes of the graph so far
    profile,   \* [mic, monitor] of the profile
    cli,       \* the microphone command: [pc, kind, list, default, target, chosen]
    changed,   \* nodes whose volume the command has set
    lost,      \* nodes that were absent at some moment since the command's dump
    rec,       \* the recorder: [pc, mic, monitor, selMic, selMonitor, error]
    absent,    \* nodes that were absent at some moment since the recorder's start
    defaults   \* default source and sinks since the recorder's start

vars == <<id, source, sink, moves, profile, cli, changed, lost, rec, absent, defaults>>
graph == <<id, source, sink, moves>>
command == <<cli, changed, lost>>
recorder == <<rec, absent, defaults>>

Present(ids) == {n \in Nodes : ids[n] # 0}

-----------------------------------------------------------------------------
NoCommand == [pc |-> "idle", kind |-> "setup", list |-> [n \in Nodes |-> 0],
              default |-> NoNode, target |-> 0, chosen |-> NoNode]
NoRecording == [pc |-> "idle", mic |-> "default", monitor |-> "", selMic |-> NoNode,
                selMonitor |-> NoNode, error |-> "none"]

Init ==
    /\ \E ids \in [Nodes -> 0..MaxId] :
          /\ \A a, b \in Nodes : a # b /\ ids[a] = ids[b] => ids[a] = 0
          /\ \A n \in Nodes : \A i \in 1..ids[n] : \E other \in Nodes : ids[other] = i
          /\ id = ids
    /\ source \in (Present(id) \cap Mics) \cup {NoNode} /\ (source = NoNode) = (Present(id) \cap Mics = {})
    /\ sink \in (Present(id) \cap Sinks) \cup {NoNode} /\ (sink = NoNode) = (Present(id) \cap Sinks = {})
    /\ moves = 0
    /\ profile \in [mic: {"default"}, monitor: {"", "default"} \cup {Monitor(s) : s \in Sinks}]
    /\ cli = NoCommand /\ changed = {} /\ lost = {}
    /\ rec = NoRecording /\ absent = {} /\ defaults = {}

-----------------------------------------------------------------------------
(* PipeWire and its session manager.                                       *)

(* Whatever moves is remembered by the command and the recorder's history. *)
Moved ==
    /\ moves < Moves /\ moves' = moves + 1
    /\ lost' = IF cli.pc = "idle" THEN lost ELSE lost \cup (Nodes \ Present(id'))
    /\ absent' = IF rec.pc = "idle" THEN absent ELSE absent \cup (Nodes \ Present(id'))
    /\ defaults' = IF rec.pc = "idle" THEN defaults ELSE defaults \cup {source', sink'}
    /\ UNCHANGED <<profile, cli, changed, rec>>

Unplug(n) ==
    /\ id[n] # 0 /\ id' = [id EXCEPT ![n] = 0]
    /\ IF source = n
          THEN IF Present(id') \cap Mics = {} THEN source' = NoNode
               ELSE source' \in Present(id') \cap Mics
          ELSE UNCHANGED source
    /\ IF sink = n
          THEN IF Present(id') \cap Sinks = {} THEN sink' = NoNode
               ELSE sink' \in Present(id') \cap Sinks
          ELSE UNCHANGED sink
    /\ Moved

Plug(n) ==
    /\ id[n] = 0
    /\ \E free \in 1..MaxId :
          /\ \A other \in Nodes : id[other] # free
          /\ \A lower \in 1..(free - 1) : \E other \in Nodes : id[other] = lower
          /\ id' = [id EXCEPT ![n] = free]
    /\ source' = IF n \in Mics /\ source = NoNode THEN n ELSE source
    /\ sink' = IF n \in Sinks /\ sink = NoNode THEN n ELSE sink
    /\ Moved

-----------------------------------------------------------------------------
(* calibrate and setup.                                                    *)

(* parse_dump and build_devices: one row per audio node of one pw-dump.    *)
Dump ==
    /\ cli.pc = "idle" /\ rec.pc = "idle"
    /\ \E k \in {"calibrate", "setup"} :
          cli' = [NoCommand EXCEPT !.pc = "default", !.kind = k, !.list = id]
    /\ lost' = Nodes \ Present(id) /\ changed' = {}
    /\ UNCHANGED <<graph, profile, recorder>>

(* The command ends, with its work done or with an error.                  *)
Ends == cli' = NoCommand /\ changed' = {} /\ lost' = {}

(* default_source_name: asked afterwards, and an error where there is none.*)
AskDefault ==
    /\ cli.pc = "default"
    /\ IF source = NoNode THEN Ends
       ELSE cli' = [cli EXCEPT !.pc = "pick", !.default = source] /\ UNCHANGED <<changed, lost>>
    /\ UNCHANGED <<graph, profile, recorder>>

Rows == Present(cli.list)

(* What the wizard's menu offers.                                          *)
OfferedAll == Rows
Offered == Rows \cap Mics

(* resolve_selector: "default" is the row flagged so, a name is looked up  *)
(* among the rows, and a number is the id it is.                           *)
ByDefault == IF cli.default \in Rows THEN cli.list[cli.default] ELSE 0
resolve_selector == {ByDefault} \cup {cli.list[n] : n \in Nodes} \cup 1..MaxId

DeviceOf(i) == IF \E n \in Rows : cli.list[n] = i THEN CHOOSE n \in Rows : cli.list[n] = i
                                                  ELSE NoNode

Pick ==
    /\ cli.pc = "pick"
    /\ \E i \in IF cli.kind = "setup" THEN {cli.list[n] : n \in Offered} \cup {0}
                ELSE resolve_selector :
          IF i = 0 THEN Ends
          ELSE /\ cli' = [cli EXCEPT !.pc = "volume", !.target = i, !.chosen = DeviceOf(i)]
               /\ UNCHANGED <<changed, lost>>
    /\ UNCHANGED <<graph, profile, recorder>>

(* The volume is set on whatever has the id now; nothing there is an error.*)
Holder == {n \in Nodes : id[n] = cli.target}

TargetById == Holder
TargetDefault == {source} \ {NoNode}
Target == TargetById

SetVolume ==
    /\ cli.pc = "volume"
    /\ IF Target = {} THEN Ends
       ELSE /\ changed' = changed \cup Target
            /\ cli' = [cli EXCEPT !.pc = "write"] /\ UNCHANGED lost
    /\ UNCHANGED <<graph, profile, recorder>>

(* set-default, by id as well, when it was asked for.                      *)
SetDefault ==
    /\ cli.pc = "write" /\ moves < Moves /\ Holder # {}
    /\ source' = IF Holder \subseteq Mics THEN CHOOSE n \in Holder : TRUE ELSE source
    /\ sink' = IF Holder \subseteq Sinks THEN CHOOSE n \in Holder : TRUE ELSE sink
    /\ moves' = moves + 1
    /\ defaults' = IF rec.pc = "idle" THEN defaults ELSE defaults \cup {source', sink'}
    /\ UNCHANGED <<id, profile, command, rec, absent>>

(* The profile gets the name the row had, an id without a row gives none;  *)
(* the wizard also writes the preset's system output.                      *)
Persist ==
    /\ cli.pc = "write"
    /\ Ends
    /\ profile' \in
          IF cli.chosen = NoNode THEN {profile}
          ELSE {[mic |-> cli.chosen, monitor |-> o] :
                    o \in IF cli.kind = "setup" THEN {"", "default"} ELSE {profile.monitor}}
    /\ UNCHANGED <<graph, recorder>>

-----------------------------------------------------------------------------
(* The recorder's start.                                                   *)

Start ==
    /\ rec.pc = "idle" /\ cli.pc = "idle"
    /\ rec' = [NoRecording EXCEPT !.pc = "mic", !.mic = profile.mic, !.monitor = profile.monitor]
    /\ absent' = Nodes \ Present(id) /\ defaults' = {source, sink}
    /\ UNCHANGED <<graph, profile, command>>

Fails(why) == rec' = [rec EXCEPT !.pc = "failed", !.error = why]

(* ensure_node_exists over `pw-cli ls Node`; a monitor is a node of its    *)
(* own while its sink is there.                                            *)
Listed(ids) == Present(ids) \cup {Monitor(s) : s \in Present(ids) \cap Sinks}
ensure_node_existsDefault(name) == name \in {source} \cup {Monitor(s) : s \in Sinks \cap {sink}}
ensure_node_exists(name) == name \in Listed(id)

(* resolve, first half: "default" is asked of wpctl now, a name must be    *)
(* there now; wpctl or pw-cli may fail.                                    *)
ResolveMic ==
    /\ rec.pc = "mic"
    /\ \/ /\ rec.mic = "default"
          /\ IF source = NoNode THEN Fails("nodefault")
             ELSE rec' = [rec EXCEPT !.pc = "monitor", !.selMic = source]
       \/ /\ rec.mic # "default"
          /\ IF ensure_node_exists(rec.mic)
                THEN rec' = [rec EXCEPT !.pc = "monitor", !.selMic = rec.mic]
                ELSE Fails("missing")
       \/ Fails("tool")
    /\ UNCHANGED <<graph, profile, command, absent, defaults>>

(* Second half: an empty monitor stays none; the default sink's monitor is *)
(* named without being looked up.                                          *)
MonitorArgCoerced == IF rec.monitor = "" THEN "default" ELSE rec.monitor
MonitorArg == rec.monitor

ResolveMonitor ==
    /\ rec.pc = "monitor"
    /\ \/ MonitorArg = "" /\ rec' = [rec EXCEPT !.pc = "launch"]
       \/ /\ MonitorArg = "default"
          /\ IF sink = NoNode THEN Fails("nodefault")
             ELSE rec' = [rec EXCEPT !.pc = "launch", !.selMonitor = Monitor(sink)]
       \/ /\ MonitorArg \notin {"", "default"}
          /\ IF ensure_node_exists(MonitorArg)
                THEN rec' = [rec EXCEPT !.pc = "launch", !.selMonitor = MonitorArg]
                ELSE Fails("missing")
       \/ Fails("tool")
    /\ UNCHANGED <<graph, profile, command, absent, defaults>>

(* The pipeline is built on the names; a target that has gone meanwhile    *)
(* fails at preroll.                                                       *)
Launch ==
    /\ rec.pc = "launch"
    /\ IF {rec.selMic} \cup ({rec.selMonitor} \ {NoNode}) \subseteq Listed(id)
          THEN rec' = [rec EXCEPT !.pc = "on"] ELSE Fails("preroll")
    /\ UNCHANGED <<graph, profile, command, absent, defaults>>

Stop ==
    /\ rec.pc \in {"on", "failed"}
    /\ rec' = NoRecording /\ absent' = {} /\ defaults' = {}
    /\ UNCHANGED <<graph, profile, command>>

Next == \/ \E n \in Nodes : Unplug(n) \/ Plug(n)
        \/ Dump \/ AskDefault \/ Pick \/ SetVolume \/ SetDefault \/ Persist
        \/ Start \/ ResolveMic \/ ResolveMonitor \/ Launch \/ Stop

Spec == Init /\ [][Next]_vars

-----------------------------------------------------------------------------
(* Properties.                                                             *)

(* An id has one node, the row a command works with is the one of its id,  *)
(* the profile names a node, and command and recorder have their types.    *)
TypeOK ==
    /\ \A a, b \in Nodes : a # b /\ id[a] = id[b] => id[a] = 0
    /\ source \in (Present(id) \cap Mics) \cup {NoNode}
    /\ sink \in (Present(id) \cap Sinks) \cup {NoNode}
    /\ profile.mic \in {"default"} \cup Nodes
    /\ cli.pc \in {"idle", "default", "pick", "volume", "write"}
    /\ cli.chosen # NoNode => cli.list[cli.chosen] = cli.target
    /\ cli.target \in 0..MaxId /\ changed \subseteq Nodes
    /\ rec.pc \in {"idle", "mic", "monitor", "launch", "on", "failed"}
    /\ rec.error \in {"none", "tool", "missing", "nodefault", "preroll"}

(* Calibration turns the volume of the chosen device and of no other,      *)
(* unless that device was unplugged after the list was made: only then can *)
(* another one have its id.                                                *)
TurnsOnlyTheChosen == cli.chosen # NoNode /\ cli.chosen \notin lost => changed \subseteq {cli.chosen}

(* The wizard only ever names a microphone in the profile; calibrate, with *)
(* an explicit selector, also takes a playback device.                     *)
WizardNamesMic == cli.kind = "setup" /\ cli.chosen # NoNode => cli.chosen \in Mics

(* A recording that runs captures what its profile says: the named nodes,  *)
(* or a node that was the default while it started, and no system audio    *)
(* where the profile asks for none.                                        *)
RecordsWhatProfileSays ==
    rec.pc = "on" =>
        /\ IF rec.mic = "default" THEN rec.selMic \in defaults \cap Mics ELSE rec.selMic = rec.mic
        /\ CASE rec.monitor = "" -> rec.selMonitor = NoNode
             [] rec.monitor = "default" -> \E s \in defaults \cap Sinks : rec.selMonitor = Monitor(s)
             [] OTHER -> rec.selMonitor = rec.monitor

(* A named device is reported missing only if it was, whatever id it has   *)
(* had since the profile was written.                                      *)
MissingIsTrue ==
    rec.error = "missing" =>
        \E n \in absent : rec.mic = n \/ rec.monitor = Monitor(n)
=============================================================================
