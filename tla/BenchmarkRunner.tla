---------------------------- MODULE BenchmarkRunner ----------------------------
(***************************************************************************)
(* The distributed benchmark, scripts/run_distributed_benchmark.py: one    *)
(* process that drives a sender, a receiver and a hub over ssh.  For each  *)
(* condition it shapes the sender's network, measures the clock offset,    *)
(* starts the processes of the transport, waits, fetches what they wrote,  *)
(* measures the clock again, corrects the latencies and cleans up.         *)
(*                                                                         *)
(* A remote command may be refused (nothing happened, an exception), lost  *)
(* (it happened, and timed out), and a stop, a copy or the deletion of a   *)
(* network profile, whose result nobody looks at, may silently not happen. *)
(* What was started may end by itself.  The runner itself may be killed    *)
(* and run again, resuming from the files it finds.  MaxFaults bounds all  *)
(* this.                                                                   *)
(***************************************************************************)
EXTENDS Naturals, Sequences, FiniteSets

CONSTANTS
    Conditions,        \* the records of the batch
    ContinueOnFailure, \* HORUS_BENCH_CONTINUE_ON_FAILURE
    MaxRuns,           \* times the program is run (a bound)
    MaxFaults          \* faults per behaviour (a bound)

(* NETWORK_PROFILES: a rate is a class of an htb queue, a loss a netem      *)
(* queue; no profile has both.                                              *)
RateProfiles == {"bw40", "bw20", "bw10", "bw5", "bw2"}
LossProfiles == {"loss1", "loss3"}
Profiles == {"unconstrained"} \cup RateProfiles \cup LossProfiles

(* What main puts in a batch: plain DDS does not cross the hub, WebRTC      *)
(* starts no bridge, and the video load is all the control conditions' or   *)
(* none's.  Resolutions, nodes, domains and bridge variants only name       *)
(* conditions.                                                              *)
GeneratedConditions(controlWithVideo) ==
    {c \in [kind : {"ros", "webrtc", "control"}, zenoh : BOOLEAN,
            cloud : BOOLEAN, load : BOOLEAN, profile : Profiles] :
        /\ c.kind = "webrtc" => ~c.zenoh
        /\ c.cloud => c.zenoh \/ c.kind = "webrtc"
        /\ c.load = (c.kind = "control" /\ controlWithVideo)}

ASSUME ConditionsAssumption ==
    \E controlWithVideo \in BOOLEAN : Conditions \subseteq GeneratedConditions(controlWithVideo)
ASSUME ContinueAssumption == ContinueOnFailure \in BOOLEAN
ASSUME BoundsAssumption == MaxRuns \in Nat /\ MaxFaults \in Nat

Nodes == {"sender", "receiver", "hub"}

OnReceiver == {"rx_bridge", "sub", "machine", "load_sub", "machine_cmd"}
OnHub == {"hub_bridge", "signal"}
NodeOf(role) == IF role \in OnHub THEN "hub"
                ELSE IF role \in OnReceiver THEN "receiver" ELSE "sender"

(* A process of a condition, known by its label, and where it runs.         *)
Process(c, role) == [of |-> c, role |-> role, node |-> NodeOf(role)]
Sampler(c, node) == [of |-> c, role |-> "resources", node |-> node]
(* Offsets of two ends that only share a hub are measured against the hub;  *)
(* control_pair measures none.                                              *)
ClockServer(c) == [of |-> c, role |-> "clock",
                   node |-> IF c.cloud THEN "hub" ELSE "receiver"]

(* A step of a pair function: a role to start and the labels it then adds   *)
(* to the list of what must be stopped, or the transport check.             *)
Step(role) == [start |-> role, record |-> <<role>>]
Check == [start |-> "check", record |-> <<>>]

(* Mutant: the hub's bridge is not recorded. *)
MutantBridges(c) ==
    IF c.kind = "webrtc" \/ ~c.zenoh THEN <<>>
    ELSE IF c.cloud
         THEN <<[start |-> "hub_bridge", record |-> <<>>], [start |-> "rx_bridge", record |-> <<>>],
                [start |-> "tx_bridge", record |-> <<"rx_bridge", "tx_bridge">>], Check>>
         ELSE <<Step("rx_bridge"), Step("tx_bridge"), Check>>

(* The receiver's bridge of a cloud condition is recorded with the sender's. *)
Bridges(c) ==
    IF c.kind = "webrtc" \/ ~c.zenoh THEN <<>>
    ELSE IF c.cloud
         THEN <<Step("hub_bridge"), [start |-> "rx_bridge", record |-> <<>>],
                [start |-> "tx_bridge", record |-> <<"rx_bridge", "tx_bridge">>], Check>>
         ELSE <<Step("rx_bridge"), Step("tx_bridge"), Check>>

RosPlan(c) == Bridges(c) \o <<Step("sub"), Step("pub")>>
WebrtcPlan(c) == (IF c.cloud THEN <<Step("signal")>> ELSE <<>>)
                 \o <<Step("machine"), Step("fake"), Step("robot")>>
ControlPlan(c) == Bridges(c) \o <<Step("robot_ack")>>
                  \o (IF c.load THEN <<Step("load_sub"), Step("load_pub")>> ELSE <<>>)
                  \o <<Step("machine_cmd")>>
Plan(c) == CASE c.kind = "ros" -> RosPlan(c)
             [] c.kind = "webrtc" -> WebrtcPlan(c)
             [] c.kind = "control" -> ControlPlan(c)

Roles(c) == {Plan(c)[i].start : i \in DOMAIN Plan(c)} \ {"check"}
Own(c) == {Process(c, role) : role \in Roles(c)}
          \cup {Sampler(c, NodeOf(role)) : role \in Roles(c)}
AllProcesses == UNION {Own(c) \cup {ClockServer(c)} : c \in Conditions}

(* The files fetched for a condition: what condition_complete asks for.     *)
Files(c) == CASE c.kind = "ros" -> {"pub", "sub", "samples"}
              [] c.kind = "webrtc" -> {"latency"}
              [] c.kind = "control" -> {"robot_ack", "cmd", "cmd_samples"} \cup
                     (IF c.load THEN {"load_pub", "load_sub", "load_samples"} ELSE {})
(* The files the clock correction reads and rewrites.                       *)
Corrigible(c) == Files(c) \cap {"sub", "samples", "latency"}
Writer(f) == CASE f = "samples" -> "sub"
               [] f = "latency" -> "machine"
               [] f \in {"cmd", "cmd_samples"} -> "machine_cmd"
               [] f = "load_samples" -> "load_sub"
               [] OTHER -> f
AllFiles == {"pub", "sub", "samples", "latency", "robot_ack", "cmd", "cmd_samples",
             "load_pub", "load_sub", "load_samples"}

VARIABLES
    run,        \* the number of this execution of the program
    resume,     \* HORUS_BENCH_RESUME
    pc,         \* where main is
    todo,       \* conditions this execution has still to look at
    cond,       \* the condition in progress
    step,       \* the next step of its plan, the next sampler
    phase,      \* which clock probe: "pre" or "post"
    labels,     \* the list of labels to stop, oldest first
    begun,      \* samplers started, not yet returned to the caller
    samplers,   \* samplers to stop
    netState,   \* network_state is known
    kept,       \* this condition's deletion of the old profile failed silently
    exc,        \* an exception is on its way
    running,    \* processes on the nodes
    shaping,    \* what the sender's interface does: a profile, or a bare "htb"
    local,      \* the execution each local file comes from, 0: absent
    corrected,  \* the execution whose clock corrected a condition, 0: none
    accepted,   \* the execution in which a condition ended without failure, or 0
    rejected,   \* conditions whose last clock drift was refused
    faults,     \* faults so far
    seen        \* kinds of faults of this execution

batchVars == <<run, resume, todo>>
condVars == <<cond, step, phase, labels, begun, samplers, netState, kept>>
fileVars == <<local, corrected, accepted, rejected>>
faultVars == <<faults, seen>>
vars == <<batchVars, pc, condVars, exc, running, shaping, fileVars, faultVars>>

NoCondition == [kind |-> "none"]

Init ==
    /\ run = 1 /\ resume \in BOOLEAN /\ pc = "begin"
    /\ todo = {} /\ cond = NoCondition /\ step = 1 /\ phase = "pre"
    /\ labels = <<>> /\ begun = <<>> /\ samplers = <<>>
    /\ netState = FALSE /\ kept = FALSE /\ exc = FALSE
    /\ running = {} /\ shaping = "unconstrained"
    /\ local = [c \in Conditions |-> [f \in AllFiles |-> 0]]
    /\ corrected = [c \in Conditions |-> 0] /\ accepted = [c \in Conditions |-> 0]
    /\ rejected = {} /\ faults = 0 /\ seen = {}

-----------------------------------------------------------------------------
(* Remote commands.                                                         *)

Fault(kind) == /\ faults < MaxFaults
               /\ faults' = faults + 1
               /\ seen' = seen \cup {kind}
NoFault == UNCHANGED faultVars

(* start_bg: the process runs, or the command is refused, or it times out   *)
(* with the process running.                                                *)
Started(p) == running' = running \cup {p} /\ NoFault
StartFails(p) == \/ Fault("refused") /\ UNCHANGED running
                 \/ Fault("lost") /\ running' = running \cup {p}

(* stop_label, whose exit status is not looked at: the process ends, or the *)
(* node could not be reached and it runs on.                                *)
Stopped(p) == \/ running' = running \ {p} /\ NoFault
              \/ Fault("stop") /\ UNCHANGED running
(* It takes longer than ten seconds: TimeoutExpired.                        *)
StopTimesOut == Fault("stop") /\ UNCHANGED running

(* stop_all: everything on the nodes that can be reached ends.              *)
StopAll == \/ running' = {} /\ NoFault
           \/ /\ Fault("stop")
              /\ \E n \in Nodes : running' = {p \in running : p.node = n}

(* A process ends by itself: its duration is over, it failed, or it never   *)
(* came up.                                                                 *)
Ends ==
    /\ \E p \in running : running' = running \ {p}
    /\ Fault("ended")
    /\ UNCHANGED <<batchVars, pc, condVars, exc, shaping, fileVars>>

(* An exception unwinds to the finally clause of the pair function.         *)
Raise == exc' = TRUE /\ pc' = "finSamplers"

-----------------------------------------------------------------------------
(* main: the batch.                                                         *)

(* Old artifacts go unless the batch is resumed; stop_all.                  *)
Begin ==
    /\ pc = "begin" /\ pc' = "setup"
    /\ IF resume THEN UNCHANGED fileVars
       ELSE /\ local' = [c \in Conditions |-> [f \in AllFiles |-> 0]]
            /\ corrected' = [c \in Conditions |-> 0]
            /\ accepted' = [c \in Conditions |-> 0]
            /\ rejected' = {}
    /\ StopAll
    /\ UNCHANGED <<batchVars, condVars, exc, shaping>>

(* setup_node for every node: not yet inside main's try.                    *)
Setup ==
    /\ pc = "setup"
    /\ \/ NoFault /\ pc' = "next" /\ todo' = Conditions
       \/ Fault("refused") /\ pc' = "exit" /\ UNCHANGED todo
    /\ UNCHANGED <<run, resume, condVars, exc, running, shaping, fileVars>>

(* condition_complete: every artifact exists.                               *)
Complete(c) == \A f \in Files(c) : local[c][f] # 0

Skip ==
    /\ pc = "next"
    /\ \E c \in todo : resume /\ Complete(c) /\ todo' = todo \ {c}
    /\ UNCHANGED <<run, resume, pc, condVars, exc, running, shaping, fileVars, faultVars>>

(* The order of a repetition is shuffled.                                   *)
NextCondition ==
    /\ pc = "next"
    /\ \E c \in todo :
        /\ ~(resume /\ Complete(c))
        /\ todo' = todo \ {c} /\ cond' = c
        /\ accepted' = [accepted EXCEPT ![c] = 0]
    /\ pc' = "shape" /\ exc' = FALSE
    /\ step' = 1 /\ phase' = "pre" /\ netState' = FALSE /\ kept' = FALSE
    /\ labels' = <<>> /\ begun' = <<>> /\ samplers' = <<>>
    /\ UNCHANGED <<run, resume, running, shaping, local, corrected, rejected, faultVars>>

(* Mutant: the processes are stopped only when a condition fails. *)
MutantBatchDone ==
    /\ pc = "next" /\ todo = {}
    /\ pc' = "exit"
    /\ UNCHANGED <<batchVars, condVars, exc, running, shaping, fileVars, faultVars>>

BatchDone ==
    /\ pc = "next" /\ todo = {}
    /\ pc' = "stopAll"
    /\ UNCHANGED <<batchVars, condVars, exc, running, shaping, fileVars, faultVars>>

(* The finally clause of main.                                              *)
Finish ==
    /\ pc = "stopAll" /\ pc' = "exit"
    /\ StopAll
    /\ UNCHANGED <<batchVars, condVars, exc, shaping, fileVars>>

-----------------------------------------------------------------------------
(* A pair function, inside its try.                                         *)

(* Mutant: a profile without limits has nothing to do with the interface. *)
MutantDeleteOld ==
    /\ pc = "shape" /\ pc' = "install"
    /\ shaping' = (IF cond.profile = "unconstrained" THEN shaping ELSE "unconstrained")
    /\ UNCHANGED kept /\ NoFault
    /\ UNCHANGED <<batchVars, cond, step, phase, labels, begun, samplers, netState, exc,
                   running, fileVars>>

(* apply_network_profile deletes the old discipline, by a command whose     *)
(* failure nobody sees ...                                                  *)
DeleteOld ==
    /\ pc = "shape" /\ pc' = "install"
    /\ \/ shaping' = "unconstrained" /\ NoFault /\ UNCHANGED kept
       \/ Fault("delete") /\ kept' = TRUE /\ UNCHANGED shaping
    /\ UNCHANGED <<batchVars, cond, step, phase, labels, begun, samplers, netState, exc,
                   running, fileVars>>

(* ... and installs the profile's, replacing what is there; without one it  *)
(* only looks at the interface.  A rate takes a second command.             *)
Applied == netState' = TRUE /\ pc' = IF cond.kind = "control" THEN "start" ELSE "clock"

Install ==
    /\ pc = "install"
    /\ \/ cond.profile = "unconstrained" /\ UNCHANGED shaping /\ Applied
       \/ cond.profile \in LossProfiles /\ shaping' = cond.profile /\ Applied
       \/ cond.profile \in RateProfiles /\ shaping' = "htb" /\ pc' = "limit" /\ UNCHANGED netState
    /\ NoFault
    /\ UNCHANGED <<batchVars, cond, step, phase, labels, begun, samplers, kept, exc, running,
                   fileVars>>

LimitRate ==
    /\ pc = "limit"
    /\ shaping' = cond.profile /\ Applied
    /\ NoFault
    /\ UNCHANGED <<batchVars, cond, step, phase, labels, begun, samplers, kept, exc, running,
                   fileVars>>

(* The interface is not found, a command is refused or times out, or the    *)
(* last look at the interface does.                                         *)
ApplyFails ==
    /\ pc \in {"shape", "install", "limit"}
    /\ Fault("shape")
    /\ shaping' \in {shaping}
           \cup (IF pc = "shape" THEN {"unconstrained"} ELSE {})
           \cup (IF pc = "install" /\ cond.profile \in RateProfiles THEN {"htb"} ELSE {})
           \cup (IF (pc = "install" /\ cond.profile \in LossProfiles) \/ pc = "limit"
                 THEN {cond.profile} ELSE {})
    /\ Raise
    /\ UNCHANGED <<batchVars, condVars, running, fileVars>>

ApplyNetworkProfile == DeleteOld \/ Install \/ LimitRate \/ ApplyFails

(* run_clock_probe, run_hub_clock_probe: the server is started ...          *)
ClockStart ==
    /\ pc = "clock"
    /\ \/ Started(ClockServer(cond)) /\ pc' = "probe" /\ UNCHANGED exc
       \/ StartFails(ClockServer(cond)) /\ Raise
    /\ UNCHANGED <<batchVars, condVars, shaping, fileVars>>

(* ... asked, with or without an answer ...                                 *)
ClockProbe ==
    /\ pc = "probe" /\ pc' = "clockStop"
    /\ \/ NoFault /\ UNCHANGED exc
       \/ Fault("refused") /\ exc' = TRUE
    /\ UNCHANGED <<batchVars, condVars, running, shaping, fileVars>>

(* ... and stopped in a finally clause.  Afterwards the first offset is     *)
(* written to the receiver, the second compared with the first.             *)
ClockStop ==
    /\ pc = "clockStop"
    /\ Stopped(ClockServer(cond))
    /\ IF exc THEN pc' = "finSamplers" /\ UNCHANGED <<exc, rejected>>
       ELSE IF phase = "pre" THEN pc' = "start" /\ UNCHANGED <<exc, rejected>>
       ELSE \/ pc' = "correct" /\ rejected' = rejected \ {cond} /\ UNCHANGED exc
            \/ Raise /\ rejected' = rejected \cup {cond}
    /\ UNCHANGED <<batchVars, condVars, shaping, local, corrected, accepted>>

ClockStopFails ==
    /\ pc = "clockStop"
    /\ StopTimesOut /\ Raise
    /\ UNCHANGED <<batchVars, condVars, shaping, fileVars>>

Current == Plan(cond)[step]

(* A process of the plan, and the labels recorded after it.                 *)
StartProcess ==
    /\ pc = "start" /\ Current.start # "check"
    /\ LET p == Process(cond, Current.start) IN
       \/ /\ Started(p)
          /\ labels' = labels \o [i \in DOMAIN Current.record |-> Process(cond, Current.record[i])]
          /\ step' = IF step = Len(Plan(cond)) THEN 1 ELSE step + 1
          /\ pc' = IF step = Len(Plan(cond)) THEN "samplers" ELSE "start"
          /\ UNCHANGED exc
       \/ StartFails(p) /\ Raise /\ UNCHANGED <<labels, step>>
    /\ UNCHANGED <<batchVars, cond, phase, begun, samplers, netState, kept, shaping, fileVars>>

(* assert_zenoh_transport: what is recorded so far, the bridges, is alive,  *)
(* and logs the transport asked for.  Nothing else is ever looked at.       *)
CheckTransport ==
    /\ pc = "start" /\ Current.start = "check"
    /\ LET alive == \A i \in DOMAIN labels : labels[i] \in running IN
       \/ alive /\ NoFault /\ step' = step + 1 /\ UNCHANGED <<pc, exc>>
       \/ ~alive /\ NoFault /\ Raise /\ UNCHANGED step
       \/ Fault("refused") /\ Raise /\ UNCHANGED step
    /\ UNCHANGED <<batchVars, cond, phase, labels, begun, samplers, netState, kept, running,
                   shaping, fileVars>>

(* start_resource_samplers: one per node, sorted by name, which with the    *)
(* names of PATHS is this order; the list is the caller's only when all of  *)
(* them run.                                                                *)
SampledNodes ==
    LET used(n) == IF \E i \in DOMAIN labels : labels[i].node = n THEN <<n>> ELSE <<>>
    IN used("sender") \o used("hub") \o used("receiver")

StartSampler ==
    /\ pc = "samplers" /\ step <= Len(SampledNodes)
    /\ LET p == Sampler(cond, SampledNodes[step]) IN
       \/ /\ Started(p)
          /\ begun' = Append(begun, p) /\ step' = step + 1
          /\ UNCHANGED <<pc, exc>>
       \/ StartFails(p) /\ Raise /\ UNCHANGED <<begun, step>>
    /\ UNCHANGED <<batchVars, cond, phase, labels, samplers, netState, kept, shaping, fileVars>>

SamplersStarted ==
    /\ pc = "samplers" /\ step > Len(SampledNodes)
    /\ samplers' = begun /\ step' = 1 /\ pc' = "measure"
    /\ UNCHANGED <<batchVars, cond, phase, labels, begun, netState, kept, exc, running,
                   shaping, fileVars, faultVars>>

(* sleep(DURATION + 10): the measurement.                                   *)
Measure ==
    /\ pc = "measure" /\ pc' = "fetch"
    /\ UNCHANGED <<batchVars, condVars, exc, running, shaping, fileVars, faultVars>>

(* What a process that ended may have left unwritten.                       *)
Unwritten == {f \in Files(cond) : Process(cond, Writer(f)) \notin running}

(* fetch: a copy that fails, or finds nothing, leaves what an earlier       *)
(* execution fetched.                                                       *)
Fetch ==
    /\ pc = "fetch" /\ pc' = "stopSamplers"
    /\ \E missing \in {{}, Unwritten} \cup {{f} : f \in Files(cond)} :
        /\ IF missing \subseteq Unwritten THEN NoFault ELSE Fault("fetch")
        /\ local' = [local EXCEPT ![cond] =
                        [f \in AllFiles |-> IF f \in Files(cond) \ missing THEN run ELSE @[f]]]
        /\ corrected' = IF Corrigible(cond) \subseteq missing THEN corrected
                        ELSE [corrected EXCEPT ![cond] = 0]
    /\ UNCHANGED <<batchVars, condVars, exc, running, shaping, accepted, rejected>>

(* stop_and_fetch_samplers, in the try (then the list is emptied once all   *)
(* are stopped) or in the finally clause (where it runs again).             *)
StopSampler ==
    /\ pc \in {"stopSamplers", "finSamplers"} /\ step <= Len(samplers)
    /\ \/ Stopped(samplers[step]) /\ step' = step + 1 /\ UNCHANGED <<pc, exc>>
       \/ /\ StopTimesOut /\ exc' = TRUE /\ step' = 1
          /\ pc' = IF pc = "stopSamplers" THEN "finSamplers" ELSE "outcome"
    /\ UNCHANGED <<batchVars, cond, phase, labels, begun, samplers, netState, kept, shaping, fileVars>>

SamplersStopped ==
    /\ pc = "stopSamplers" /\ step > Len(samplers)
    /\ samplers' = <<>> /\ phase' = "post"
    /\ pc' = IF cond.kind = "control" THEN "finSamplers" ELSE "clock"
    /\ UNCHANGED <<batchVars, cond, step, labels, begun, netState, kept, exc, running, shaping,
                   fileVars, faultVars>>

(* apply_ros_clock_correction, apply_webrtc_clock_correction.               *)
Correct ==
    /\ pc = "correct"
    /\ IF \A f \in Corrigible(cond) : local[cond][f] # 0
       THEN /\ corrected' = [corrected EXCEPT ![cond] = run]
            /\ pc' = "finSamplers" /\ UNCHANGED exc
       ELSE Raise /\ UNCHANGED corrected
    /\ UNCHANGED <<batchVars, condVars, running, shaping, local, accepted, rejected, faultVars>>

-----------------------------------------------------------------------------
(* The finally clause of a pair function.                                   *)

FinallySamplers ==
    /\ pc = "finSamplers" /\ step > Len(samplers)
    /\ pc' = "finLabels" /\ step' = 1
    /\ UNCHANGED <<batchVars, cond, phase, labels, begun, samplers, netState, kept, exc, running,
                   shaping, fileVars, faultVars>>

(* The labels in reverse.  A stop that times out ends the clause here: the  *)
(* labels left and the network stay as they are.                            *)
StopLabel ==
    /\ pc = "finLabels" /\ labels # <<>>
    /\ \/ /\ Stopped(labels[Len(labels)])
          /\ labels' = SubSeq(labels, 1, Len(labels) - 1) /\ UNCHANGED <<pc, exc>>
       \/ StopTimesOut /\ exc' = TRUE /\ pc' = "outcome" /\ UNCHANGED labels
    /\ UNCHANGED <<batchVars, cond, step, phase, begun, samplers, netState, kept, shaping, fileVars>>

LabelsStopped ==
    /\ pc = "finLabels" /\ labels = <<>> /\ pc' = "finNetwork"
    /\ UNCHANGED <<batchVars, condVars, exc, running, shaping, fileVars, faultVars>>

(* clear_network_profile, when apply_network_profile got to its end: its    *)
(* failure goes unseen, its timeout is an exception.                        *)
FinallyNetwork ==
    /\ pc = "finNetwork" /\ pc' = "outcome"
    /\ \/ ~netState /\ NoFault /\ UNCHANGED <<shaping, exc>>
       \/ netState /\ NoFault /\ shaping' = "unconstrained" /\ UNCHANGED exc
       \/ netState /\ Fault("delete") /\ UNCHANGED <<shaping, exc>>
       \/ /\ netState /\ Fault("shape") /\ exc' = TRUE
          /\ shaping' \in {shaping, "unconstrained"}
    /\ UNCHANGED <<batchVars, condVars, running, fileVars>>

(* Back in main: write_failure, and go on or give up.                       *)
Outcome ==
    /\ pc = "outcome"
    /\ accepted' = [accepted EXCEPT ![cond] = IF exc THEN 0 ELSE run]
    /\ pc' = IF exc /\ ~ContinueOnFailure THEN "stopAll" ELSE "next"
    /\ UNCHANGED <<batchVars, condVars, exc, running, shaping, local, corrected, rejected,
                   faultVars>>

-----------------------------------------------------------------------------
(* The runner is killed; what it started runs on.                           *)
Killed ==
    /\ pc \notin {"exit", "dead"}
    /\ Fault("killed") /\ pc' = "dead"
    /\ UNCHANGED <<batchVars, condVars, exc, running, shaping, fileVars>>

RunAgain ==
    /\ pc \in {"exit", "dead"} /\ run < MaxRuns
    /\ run' = run + 1 /\ resume' \in BOOLEAN
    /\ pc' = "begin" /\ seen' = {}
    /\ UNCHANGED <<todo, condVars, exc, running, shaping, fileVars, faults>>

Batch == Begin \/ Setup \/ Skip \/ NextCondition \/ BatchDone \/ Finish \/ Outcome
Try == \/ ApplyNetworkProfile \/ ClockStart \/ ClockProbe \/ ClockStop \/ ClockStopFails
       \/ StartProcess \/ CheckTransport \/ StartSampler
       \/ SamplersStarted \/ Measure \/ Fetch \/ StopSampler \/ SamplersStopped \/ Correct
Finally == FinallySamplers \/ StopLabel \/ LabelsStopped \/ FinallyNetwork

Next == Batch \/ Try \/ Finally \/ Ends \/ Killed \/ RunAgain

Spec == Init /\ [][Next]_vars

-----------------------------------------------------------------------------
(* Properties.                                                              *)

(* A measurement is taken under the condition's network profile, whatever   *)
(* earlier conditions, failures or killed executions left on the interface; *)
(* only one without a profile, which checks nothing, is also taken under    *)
(* what is left when its own deletion of that failed unseen.                *)
ShapingMatches ==
    pc = "measure" => \/ shaping = cond.profile
                      \/ cond.profile = "unconstrained" /\ kept

(* What a failed condition can leave running although every stop worked and *)
(* no start was lost: the receiver's bridge of a cloud condition, recorded  *)
(* only with the sender's, and samplers whose list never reached the caller.*)
Leftover(p) == /\ accepted[p.of] = 0
               /\ (p.role = "rx_bridge" /\ p.of.cloud) \/ p.role = "resources"

(* When a measurement begins, its processes and a sampler on every node     *)
(* they run on are there, but for what has ended by itself; and no other    *)
(* process of the benchmark competes with it but such leftovers, unless a   *)
(* stop of this execution failed or a start was lost.                       *)
MeasuresAlone ==
    pc = "measure" =>
        /\ "ended" \notin seen => Own(cond) \subseteq running
        /\ seen \cap {"lost", "stop"} = {} =>
               \A p \in running \ Own(cond) : Leftover(p)

(* The program leaves no process behind when its last stop_all reaches the  *)
(* nodes; and its first execution leaves no shaping, unless a command that  *)
(* installs or deletes it failed or a stop timed out in between.            *)
ExitsClean ==
    pc = "exit" =>
        /\ "stop" \notin seen => running = {}
        /\ seen \cap {"stop", "shape", "delete"} = {} /\ run = 1 => shaping = "unconstrained"

(* A camera condition that ends without a failure has latencies corrected   *)
(* by this execution's two clock probes, whose drift was not refused.       *)
AcceptedIsCorrected ==
    \A c \in Conditions :
        accepted[c] # 0 /\ c.kind # "control" =>
            corrected[c] = accepted[c] /\ c \notin rejected
================================================================================
