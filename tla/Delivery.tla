------------------------------- MODULE Delivery -------------------------------
(***************************************************************************)
(* What becomes of a transcript: `zwhisper deliver --listen` (zwhisper-cli,*)
(* commands/deliver), which carries out the outputs of every completed job *)
(* in the graphical session; `zwhisper transcribe --queue`, which submits  *)
(* a foreground job and waits for it.  The daemon's job queue (module      *)
(* JobQueue) is the environment.                                           *)
(***************************************************************************)
EXTENDS Integers, Sequences, FiniteSets

CONSTANTS
    Kinds,          \* kinds of jobs: [mode, bytes, outputs]
    Jobs,           \* jobs of a behaviour (bound)
    Consumers,      \* deliver processes that may be started
    TYPE_MAX_BYTES, CLIPBOARD_MAX_BYTES,
    MaxFaults       \* failures of files, sinks and processes (bound)

Job == 1 .. Jobs
Nobody == 0

VARIABLES
    kind,       \* of each job
    job,        \* "none", "queued", "completed", "failed", "lost"
    waiter,     \* the command that submitted it: "none", "waiting", "gone", code
    inbox,      \* signals that the waiting command has received
    wtype,      \* wtype is installed
    owner,      \* consumer that owns DELIVER_BUS_NAME
    pc,         \* per consumer: "off", "claimed", "idle", "busy", "typing"
    queue,      \* per consumer: signals not yet taken
    work,       \* per consumer: the job in hand and its outputs to go
    typed,      \* per job: times it was typed at the cursor
    injected,   \* [job, why]: what reached the clipboard, and on whose behalf
    told,       \* jobs a notification spoke of
    unheard,    \* jobs of which a notification failed
    handled,    \* jobs a consumer has finished with
    faults

jobVars == <<kind, job, waiter, inbox>>
consumerVars == <<owner, pc, queue, work>>
effects == <<typed, injected, told, unheard, handled>>
vars == <<jobVars, wtype, consumerVars, effects, faults>>

Init ==
    /\ kind \in [Job -> Kinds]
    /\ job = [j \in Job |-> "none"] /\ waiter = [j \in Job |-> "none"]
    /\ inbox = [j \in Job |-> <<>>]
    /\ wtype \in BOOLEAN
    /\ owner = Nobody /\ pc = [c \in Consumers |-> "off"]
    /\ queue = [c \in Consumers |-> <<>>]
    /\ work = [c \in Consumers |-> [job |-> Nobody, todo |-> <<>>]]
    /\ typed = [j \in Job |-> 0] /\ injected = {}
    /\ told = {} /\ unheard = {} /\ handled = {}
    /\ faults = 0

Fault == faults < MaxFaults /\ faults' = faults + 1

-----------------------------------------------------------------------------
(* The queue and the command that waits *)

Foreground(j) == kind[j].mode = "foreground"

(* `transcribe --queue` subscribes to both streams and submits; --detach   *)
(* prints the job's id and leaves.  Recordings submit "auto" jobs, which   *)
(* the sinks treat as detached ones.                                       *)
Submit(j) ==
    /\ job[j] = "none" /\ \A i \in 1 .. j - 1 : job[i] # "none"
    /\ job' = [job EXCEPT ![j] = "queued"]
    /\ waiter' = [waiter EXCEPT ![j] = IF Foreground(j) THEN "waiting" ELSE "none"]
    /\ UNCHANGED <<kind, inbox, wtype, consumerVars, effects, faults>>

Signal(j, ok) ==
    /\ inbox' = [i \in Job |-> IF waiter[i] = "waiting"
                               THEN Append(inbox[i], [job |-> j, ok |-> ok]) ELSE inbox[i]]
    /\ queue' = [c \in Consumers |-> IF pc[c] \in {"idle", "busy", "typing"}
                               THEN Append(queue[c], [job |-> j, ok |-> ok]) ELSE queue[c]]

JobEnds(j) ==
    /\ job[j] = "queued"
    /\ \E ok \in BOOLEAN :
          /\ IF ok THEN UNCHANGED faults ELSE Fault
          /\ job' = [job EXCEPT ![j] = IF ok THEN "completed" ELSE "failed"]
          /\ Signal(j, ok)
    /\ UNCHANGED <<kind, waiter, wtype, owner, pc, work, effects>>

(* The daemon dies; its jobs are not persisted.                            *)
DaemonDies ==
    /\ Fault /\ \E j \in Job : job[j] = "queued"
    /\ job' = [j \in Job |-> IF job[j] = "queued" THEN "lost" ELSE job[j]]
    /\ UNCHANGED <<kind, waiter, inbox, wtype, consumerVars, effects>>

(* Mutant: the result of any job ends the wait.                            *)
WaitTakesAny(j) ==
    /\ waiter[j] = "waiting" /\ inbox[j] # <<>>
    /\ inbox' = [inbox EXCEPT ![j] = Tail(@)]
    /\ waiter' = [waiter EXCEPT ![j] = IF Head(inbox[j]).ok THEN "EXIT_OK" ELSE "EXIT_RECORDING_FAILED"]
    /\ UNCHANGED <<kind, job, wtype, consumerVars, effects, faults>>

(* run_queue_wait: either stream; results of other jobs are dropped.       *)
WaitTakes(j) ==
    /\ waiter[j] = "waiting" /\ inbox[j] # <<>>
    /\ inbox' = [inbox EXCEPT ![j] = Tail(@)]
    /\ waiter' = [waiter EXCEPT ![j] =
                     IF Head(inbox[j]).job # j THEN @
                     ELSE IF Head(inbox[j]).ok THEN "EXIT_OK" ELSE "EXIT_RECORDING_FAILED"]
    /\ UNCHANGED <<kind, job, wtype, consumerVars, effects, faults>>

(* Mutant: the wait is renewed until the daemon speaks.                    *)
WaitEndsRenewed(j) ==
    /\ waiter[j] = "waiting" /\ inbox[j] = <<>> /\ job[j] # "lost"
    /\ \/ waiter' = [waiter EXCEPT ![j] = "EXIT_JOB_TIMEOUT"] /\ UNCHANGED faults
       \/ waiter' = [waiter EXCEPT ![j] = "gone"] /\ Fault
    /\ UNCHANGED <<kind, job, inbox, wtype, consumerVars, effects>>

(* JOB_WAIT_TIMEOUT passes, with or without a job that still runs; or the  *)
(* user interrupts the command.  The job goes on.                          *)
WaitEnds(j) ==
    /\ waiter[j] = "waiting" /\ inbox[j] = <<>>
    /\ \/ waiter' = [waiter EXCEPT ![j] = "EXIT_JOB_TIMEOUT"] /\ UNCHANGED faults
       \/ waiter' = [waiter EXCEPT ![j] = "gone"] /\ Fault
    /\ UNCHANGED <<kind, job, inbox, wtype, consumerVars, effects>>

-----------------------------------------------------------------------------
(* The consumer *)

(* Mutant: a name that is taken is as good as one's own.                   *)
classify_name_replyAny == TRUE

(* DoNotQueue: Exists is a refusal.                                        *)
classify_name_reply == owner = Nobody

(* RequestName; a consumer that is not the only one leaves with success.   *)
Launch(c) ==
    /\ pc[c] = "off"
    /\ classify_name_reply
    /\ owner' = c /\ pc' = [pc EXCEPT ![c] = "claimed"]
    /\ UNCHANGED <<jobVars, wtype, queue, work, effects, faults>>

Subscribe(c) ==
    /\ pc[c] = "claimed"
    /\ pc' = [pc EXCEPT ![c] = "idle"]
    /\ UNCHANGED <<jobVars, wtype, owner, queue, work, effects, faults>>

(* Best effort: a notification that fails is logged and goes unheard, and  *)
(* the consumer goes on.                                                   *)
Notify(j) ==
    \/ told' = told \union {j} /\ UNCHANGED unheard
    \/ unheard' = unheard \union {j} /\ UNCHANGED told

Silent == UNCHANGED <<told, unheard>>


(* One signal: a failure is announced, the outputs of a completed job are  *)
(* carried out in their order.                                             *)
Take(c) ==
    /\ pc[c] = "idle" /\ queue[c] # <<>>
    /\ LET e == Head(queue[c]) IN
         IF e.ok
         THEN /\ pc' = [pc EXCEPT ![c] = "busy"]
              /\ work' = [work EXCEPT ![c] = [job |-> e.job, todo |-> kind[e.job].outputs]]
              /\ Silent /\ UNCHANGED handled
         ELSE Notify(e.job) /\ handled' = handled \union {e.job} /\ UNCHANGED <<pc, work>>
    /\ queue' = [queue EXCEPT ![c] = Tail(@)]
    /\ UNCHANGED <<jobVars, wtype, owner, typed, injected,
                   faults>>

decide_clipboard(k) ==
    IF k.bytes > CLIPBOARD_MAX_BYTES THEN "NotifyWithAction"
    ELSE IF k.mode = "foreground" THEN "Inject" ELSE "NotifyWithAction"

(* Mutant: the mode is not looked at.                                      *)
decide_typeBySize(k) ==
    IF k.bytes > TYPE_MAX_BYTES THEN "NotifyWithAction" ELSE "Type"

decide_type(k) ==
    IF k.bytes > TYPE_MAX_BYTES THEN "NotifyWithAction"
    ELSE IF k.mode = "foreground" THEN "Type" ELSE "NotifyWithAction"

(* The selection is taken over, or the clipboard cannot be reached.        *)
Inject(j, why) ==
    \/ injected' = injected \union {[job |-> j, why |-> why]} /\ UNCHANGED faults
    \/ Fault /\ UNCHANGED injected

(* Reading the transcript fails when its files are gone by now.            *)
Unreadable == Fault /\ UNCHANGED injected

NoEffect == UNCHANGED <<injected, faults>>

(* Mutant: a transcript that cannot be read is passed over.                *)
ClipboardEntryQuiet(j) ==
    \/ decide_clipboard(kind[j]) = "Inject" /\ (Inject(j, "clipboard") \/ Unreadable)
       /\ Silent
    \/ decide_clipboard(kind[j]) # "Inject" /\ NoEffect /\ Notify(j)

(* handle_clipboard *)
ClipboardEntry(j) ==
    \/ /\ decide_clipboard(kind[j]) = "Inject"
       /\ Inject(j, "clipboard")
       /\ IF faults' # faults THEN Notify(j) ELSE Silent
    \/ decide_clipboard(kind[j]) = "Inject" /\ Unreadable /\ Notify(j)
    \/ decide_clipboard(kind[j]) # "Inject" /\ NoEffect /\ Notify(j)

(* handle_type up to the start of wtype: without wtype the transcript goes *)
(* to the clipboard whatever the job's mode and size, and a notification   *)
(* says so in any case.                                                    *)
TypeEntryEnds(j) ==
    \/ ~wtype /\ (Inject(j, "fallback") \/ Unreadable) /\ Notify(j)
    \/ wtype /\ decide_type(kind[j]) # "Type" /\ NoEffect /\ Notify(j)
    \/ wtype /\ decide_type(kind[j]) = "Type" /\ Unreadable /\ Notify(j)

Entry(c) == Head(work[c].todo)

(* handle_completed, one entry of the outputs at a time.                   *)
Deliver(c) ==
    /\ pc[c] = "busy" /\ work[c].todo # <<>>
    /\ LET j == work[c].job IN
         \/ /\ \/ Entry(c) = "file" /\ NoEffect /\ Silent
               \/ Entry(c) = "notification" /\ NoEffect /\ Notify(j)
               \/ Entry(c) = "clipboard" /\ ClipboardEntry(j)
               \/ Entry(c) = "type_at_cursor" /\ TypeEntryEnds(j)
            /\ work' = [work EXCEPT ![c].todo = Tail(@)]
            /\ UNCHANGED pc
         \/ /\ Entry(c) = "type_at_cursor" /\ wtype /\ decide_type(kind[j]) = "Type"
            /\ pc' = [pc EXCEPT ![c] = "typing"]
            /\ NoEffect /\ Silent /\ UNCHANGED work
    /\ UNCHANGED <<jobVars, wtype, owner, queue, typed, handled>>

(* Mutant: the wait for wtype has no timeout.                              *)
WtypeEndsOnly(c) ==
    /\ pc[c] = "typing" /\ faults < MaxFaults
    /\ typed' = [typed EXCEPT ![work[c].job] = @ + 1]
    /\ NoEffect
    /\ work' = [work EXCEPT ![c].todo = Tail(@)]
    /\ pc' = [pc EXCEPT ![c] = "busy"]
    /\ UNCHANGED <<jobVars, wtype, owner, queue, handled, told, unheard>>

(* wtype ends well; or fails, or is killed when its time is up, and the    *)
(* transcript goes to the clipboard.                                       *)
WtypeEnds(c) ==
    /\ pc[c] = "typing"
    /\ LET j == work[c].job IN
         \/ /\ typed' = [typed EXCEPT ![j] = @ + 1]
            /\ NoEffect /\ Silent
         \/ Inject(j, "fallback") /\ Notify(j) /\ UNCHANGED typed
    /\ work' = [work EXCEPT ![c].todo = Tail(@)]
    /\ pc' = [pc EXCEPT ![c] = "busy"]
    /\ UNCHANGED <<jobVars, wtype, owner, queue, handled>>

Done(c) ==
    /\ pc[c] = "busy" /\ work[c].todo = <<>>
    /\ pc' = [pc EXCEPT ![c] = "idle"]
    /\ handled' = handled \union {work[c].job}
    /\ work' = [work EXCEPT ![c] = [job |-> Nobody, todo |-> <<>>]]
    /\ UNCHANGED <<jobVars, wtype, owner, queue, typed, injected, told,
                   unheard, faults>>

(* The process ends, and with it its claim and what it had not delivered.  *)
ConsumerDies(c) ==
    /\ pc[c] # "off" /\ Fault
    /\ pc' = [pc EXCEPT ![c] = "off"]
    /\ owner' = IF owner = c THEN Nobody ELSE owner
    /\ queue' = [queue EXCEPT ![c] = <<>>]
    /\ work' = [work EXCEPT ![c] = [job |-> Nobody, todo |-> <<>>]]
    /\ UNCHANGED <<jobVars, wtype, effects>>

Consumer(c) == Subscribe(c) \/ Take(c) \/ Deliver(c) \/ WtypeEnds(c) \/ Done(c)

Next ==
    \/ \E j \in Job : Submit(j) \/ JobEnds(j) \/ WaitTakes(j) \/ WaitEnds(j)
    \/ DaemonDies
    \/ \E c \in Consumers : Launch(c) \/ Consumer(c) \/ ConsumerDies(c)

Spec ==
    /\ Init /\ [][Next]_vars
    /\ \A j \in Job : WF_vars(WaitTakes(j) \/ WaitEnds(j))
    /\ \A c \in Consumers : WF_vars(Consumer(c))

-----------------------------------------------------------------------------
(* Properties *)

(* Every variable stays in its type.                                      *)
TypeOK ==
    /\ \A j \in Job : job[j] \in {"none", "queued", "completed", "failed", "lost"}
    /\ \A j \in Job : waiter[j] \in {"none", "waiting", "gone", "EXIT_OK",
                                    "EXIT_RECORDING_FAILED", "EXIT_JOB_TIMEOUT"}
    /\ \A c \in Consumers : pc[c] \in {"off", "claimed", "idle", "busy", "typing"}
    /\ owner \in Consumers \union {Nobody}
    /\ \A c \in Consumers : pc[c] = "typing" => work[c].todo # <<>>

(* Keystrokes go into the focused window, and the clipboard is overwritten *)
(* on behalf of its own output entry, only for a foreground job within the *)
(* ceiling (decide_type, decide_clipboard).                                *)
IntentGuarded ==
    /\ \A j \in Job : typed[j] > 0 => Foreground(j) /\ kind[j].bytes <= TYPE_MAX_BYTES
    /\ \A i \in injected : i.why = "clipboard" =>
          Foreground(i.job) /\ kind[i.job].bytes <= CLIPBOARD_MAX_BYTES

(* However many consumers are started and whenever they die, no job is     *)
(* typed more often than its profile asks: the bus name is claimed before  *)
(* the subscription.  (An output may be listed twice; validate allows it.) *)
Asked(j) ==
    Cardinality({i \in DOMAIN kind[j].outputs : kind[j].outputs[i] = "type_at_cursor"})
TypedOnce == \A j \in Job : typed[j] <= Asked(j)

(* No path through the outputs of a job ends without a word: a job that a  *)
(* consumer has finished with was typed, copied or spoken of, or the       *)
(* notification that was to speak of it failed, unless its only output is  *)
(* its file.  A refusal, an unreadable transcript, a clipboard that cannot *)
(* be reached and a wtype that is killed all come to one of these.         *)
NothingSwallowed ==
    \A j \in handled :
       (\E i \in DOMAIN kind[j].outputs : kind[j].outputs[i] # "file") \/ job[j] = "failed"
          => typed[j] > 0 \/ j \in told \union unheard \/ \E i \in injected : i.job = j

(* The waiting command reports its own job.                                *)
WaiterTellsOutcome ==
    \A j \in Job :
       /\ waiter[j] = "EXIT_OK" => job[j] = "completed"
       /\ waiter[j] = "EXIT_RECORDING_FAILED" => job[j] = "failed"

(* A compositor that never drains the keystrokes cannot wedge the consumer.*)
ConsumerNeverWedges == \A c \in Consumers : []<>(pc[c] # "typing")

(* The waiting command returns, whatever becomes of the daemon.            *)
WaiterReturns == \A j \in Job : []<>(waiter[j] # "waiting")

(* sink.rs, CLIPBOARD_STALE_THRESHOLD: "a transcript whose owning job was  *)
(* detached/auto never auto-injects regardless of age".                    *)
DetachedNeverInjected ==
    \A i \in injected : Foreground(i.job)
=============================================================================
