---------------------------- MODULE MediaSession ----------------------------
(***************************************************************************)
(* The WebRTC media session of one room: the robot's sender                *)
(* (scripts/gst_webrtc_h264_robot.py, in relay mode), the machine's        *)
(* receiver (scripts/gst_webrtc_h264_machine.py), and between them the     *)
(* relay (scripts/webrtc_signal_relay.py) and the endpoints' connections   *)
(* to it, reduced to what the negotiation can see of them.  SignalRelay    *)
(* and JsonSignaling model those two in detail.                            *)
(*                                                                         *)
(* Each endpoint handles messages one at a time, on its GLib main loop.    *)
(* webrtcbin asks for a negotiation, creates offers and answers on a       *)
(* thread of its own, and a pipeline reaches PLAYING some time after it    *)
(* was started.  Candidates are left out: they follow the descriptions and *)
(* change no state here.                                                   *)
(***************************************************************************)
EXTENDS Naturals, Sequences, SignalQueue

CONSTANTS
    None,
    Faults,      \* the faults of this instance, out of FaultKinds
    MaxFaults    \* bound on the number of faults

Roles == {"robot", "machine"}

(* "restart": an endpoint's process dies and is started again; "drop": an   *)
(* endpoint loses its connection to the relay; "error": GStreamer reports   *)
(* an error and the endpoint recovers its pipeline.                         *)
FaultKinds == [role : Roles, kind : {"restart", "drop", "error"}]

Offers == [pipeline : Nat, n : Nat]

ASSUME MediaAssumption ==
    /\ Faults \subseteq FaultKinds
    /\ MaxFaults \in Nat
    /\ None \notin Offers

VARIABLES
    robot,       \* the sender
    machine,     \* the receiver
    connected,   \* endpoints whose connection to the relay is up
    registered,  \* [role] the process the relay holds a connection of, or 0
    process,     \* [role] incarnation of the endpoint's process (session_id)
    uplink,      \* [role] signals on their way to the relay
    inbox,       \* [role] messages on their way to the endpoint's main loop
    pending,     \* [role] signals the relay queues for an absent role
    faults,      \* faults so far
    settled      \* auxiliary: every fault met an established session, and none
                 \* was an error of the machine's pipeline

relay == <<registered, uplink, pending>>
faultVars == <<faults, settled>>
vars == <<robot, machine, connected, relay, process, inbox, faultVars>>

target_role(r) == IF r = "robot" THEN "machine" ELSE "robot"

-----------------------------------------------------------------------------
(* Values. *)

Answers == [offer : Offers, receiver : Nat]

Signals ==
    [type : {"offer"}, offer : Offers, from : Nat]
        \cup [type : {"answer"}, answer : Answers, from : Nat]

Messages ==
    Signals \cup [type : {"registered"}, peer_ready : BOOLEAN]
        \cup [type : {"connected", "peer-ready", "peer-left"}]

(* The sender.  Pipelines are numbered across restarts; 0 is no pipeline.   *)
(* asking is what webrtcbin's thread has found in _on_negotiation_needed,   *)
(* before it acts on it; creating counts the offers being created;          *)
(* local_offer and remote are the descriptions webrtcbin holds.             *)
Robots ==
    [pipeline : Nat, built : Nat, offers : Nat,
     pipeline_ready : BOOLEAN, negotiation_needed : BOOLEAN,
     negotiation_in_progress : BOOLEAN, offer_pending : BOOLEAN,
     asking : {None, "offer", "wait"}, creating : Nat, peer_ready : BOOLEAN,
     local_offer : Offers \cup {None}, remote : Answers \cup {None},
     last_remote_answer_sdp : Answers \cup {None}]

(* The receiver: receiver numbers its webrtcbins, answering holds the       *)
(* offers that answers are being created to, in order.                      *)
Machines ==
    [receiver : Nat, last_remote_offer_sdp : Offers \cup {None},
     answering : Seq(Offers)]

TypeOK ==
    /\ robot \in Robots
    /\ machine \in Machines
    /\ connected \subseteq Roles
    /\ registered \in [Roles -> Nat]
    /\ process \in [Roles -> Nat]
    /\ uplink \in [Roles -> Seq(Signals)]
    /\ inbox \in [Roles -> Seq(Messages)]
    /\ pending \in [Roles -> Seq(Signals)]
    /\ robot.pipeline \in {0, robot.built}
    /\ machine.answering # <<>> =>
          machine.last_remote_offer_sdp = machine.answering[Len(machine.answering)]
    /\ faults \in 0..MaxFaults
    /\ settled \in BOOLEAN

NewRobot(built, offers) ==
    [pipeline |-> 0, built |-> built, offers |-> offers,
     pipeline_ready |-> FALSE, negotiation_needed |-> FALSE,
     negotiation_in_progress |-> FALSE, offer_pending |-> FALSE,
     asking |-> None, creating |-> 0, peer_ready |-> FALSE,
     local_offer |-> None, remote |-> None, last_remote_answer_sdp |-> None]

NewMachine(receiver) ==
    [receiver |-> receiver, last_remote_offer_sdp |-> None, answering |-> <<>>]

Init ==
    /\ robot = NewRobot(0, 0)
    /\ machine = NewMachine(1)
    /\ connected = {}
    /\ registered = [r \in Roles |-> 0]
    /\ process = [r \in Roles |-> 1]
    /\ uplink = [r \in Roles |-> <<>>]
    /\ inbox = [r \in Roles |-> <<>>]
    /\ pending = [r \in Roles |-> <<>>]
    /\ faults = 0
    /\ settled = TRUE

-----------------------------------------------------------------------------
(* The connections to the relay. *)

Tell(boxes, r, message) == [boxes EXCEPT ![r] = Append(@, message)]

Present(r) == registered[r] # 0

(* Processes are numbered from 1, so that this says that there is one.      *)
IsCurrent(signal, r) == signal.from = registered[target_role(r)]

(* Mutant: the counterpart is not told. *)
MutantConnect(r) ==
    /\ r \notin connected
    /\ connected' = connected \cup {r}
    /\ registered' = [registered EXCEPT ![r] = process[r]]
    /\ inbox' = [inbox EXCEPT ![r] =
          @ \o <<[type |-> "registered", peer_ready |-> Present(target_role(r))],
                [type |-> "connected"]>>]
    /\ pending' = [pending EXCEPT ![r] = <<>>]
    /\ UNCHANGED <<robot, machine, process, uplink, faultVars>>

(* An endpoint connects and registers, replacing a connection of its own    *)
(* that the relay may still hold.  The one-second timer announces the       *)
(* connection to the endpoint if the relay's reply takes longer than that.  *)
Connect(r) ==
    /\ r \notin connected
    /\ connected' = connected \cup {r}
    /\ registered' = [registered EXCEPT ![r] = process[r]]
    /\ \E reply \in {<<1, 2>>, <<2, 1>>} :
          LET notices == <<[type |-> "registered", peer_ready |-> Present(target_role(r))],
                           [type |-> "connected"]>>
              queued == Kept(pending[r], {m \in Signals : IsCurrent(m, r)})
              mine == [inbox EXCEPT ![r] =
                          @ \o <<notices[reply[1]], notices[reply[2]]>> \o queued]
          IN  inbox' = IF target_role(r) \in connected
                       THEN Tell(mine, target_role(r), [type |-> "peer-ready"])
                       ELSE mine
    /\ pending' = [pending EXCEPT ![r] = <<>>]
    /\ UNCHANGED <<robot, machine, process, uplink, faultVars>>

(* The relay finds that a connection has ended, having read what it sent.   *)
Unregister(r) ==
    /\ Present(r) /\ r \notin connected
    /\ uplink[r] = <<>>
    /\ registered' = [registered EXCEPT ![r] = 0]
    /\ inbox' = IF target_role(r) \in connected
                THEN Tell(inbox, target_role(r), [type |-> "peer-left"])
                ELSE inbox
    /\ UNCHANGED <<robot, machine, connected, process, uplink, pending, faultVars>>

(* A description supersedes what its session queued before. *)
Queued(queue, signal) ==
    Append(Kept(queue, {m \in Signals : m.from # signal.from}), signal)

Forward(r) ==
    LET t == target_role(r)
        signal == Head(uplink[r])
    IN  /\ uplink[r] # <<>>
        /\ Present(t) => t \in connected
        /\ uplink' = [uplink EXCEPT ![r] = Tail(@)]
        /\ IF Present(t)
           THEN inbox' = Tell(inbox, t, signal) /\ UNCHANGED pending
           ELSE pending' = [pending EXCEPT ![t] = Queued(@, signal)] /\ UNCHANGED inbox
        /\ UNCHANGED <<robot, machine, connected, registered, process, faultVars>>

(* The counterpart's connection has ended and the relay does not know: the  *)
(* signal is lost, and the sender's connection with it if the relay's       *)
(* websocket is closed by then.                                             *)
ForwardFails(r) ==
    /\ uplink[r] # <<>>
    /\ Present(target_role(r)) /\ target_role(r) \notin connected
    /\ \/ uplink' = [uplink EXCEPT ![r] = Tail(@)] /\ UNCHANGED connected
       \/ uplink' = [uplink EXCEPT ![r] = <<>>] /\ connected' = connected \ {r}
    /\ UNCHANGED <<robot, machine, registered, process, inbox, pending, faultVars>>

(* Some of what is in flight on a connection that breaks is lost.           *)
Prefixes(s) == {SubSeq(s, 1, n) : n \in 0..Len(s)}

-----------------------------------------------------------------------------
(* The robot. *)

(* _on_negotiation_needed: without a playing pipeline, a connection, or     *)
(* while an offer is unanswered, the offer stays pending.                   *)
MayOffer(b) ==
    /\ b.pipeline # 0 /\ b.pipeline_ready
    /\ "robot" \in connected
    /\ ~b.negotiation_in_progress

CreateOffer(b) ==
    [b EXCEPT !.offer_pending = FALSE, !.negotiation_in_progress = TRUE, !.creating = @ + 1]

OfferLater(b) == [b EXCEPT !.offer_pending = TRUE]

(* _request_offer, on the main loop. *)
RequestOffer(b) == IF MayOffer(b) THEN CreateOffer(b) ELSE OfferLater(b)

(* _stop_media_pipeline; its pipeline's number is never used again. *)
StopMediaPipeline(b) ==
    [NewRobot(b.built, b.offers) EXCEPT !.peer_ready = b.peer_ready]

StartPipeline(b) ==
    [b EXCEPT !.pipeline = b.built + 1, !.built = b.built + 1,
              !.pipeline_ready = FALSE, !.negotiation_needed = TRUE]

(* _start_relay_media_session *)
StartRelayMediaSession(b, force_rebuild) ==
    LET stopped == IF force_rebuild THEN StopMediaPipeline(b) ELSE b
        started == IF stopped.pipeline = 0 THEN StartPipeline(stopped) ELSE stopped
    IN  IF b.peer_ready /\ "robot" \in connected
        THEN RequestOffer([started EXCEPT !.offer_pending = TRUE])
        ELSE b

(* Mutant: only the answer to the latest offer clears the flags. *)
MutantAnswerArrives(b, answer) ==
    IF answer = b.last_remote_answer_sdp \/ b.pipeline = 0 THEN b
    ELSE IF answer.offer = b.local_offer
    THEN [b EXCEPT !.last_remote_answer_sdp = answer, !.local_offer = None, !.remote = answer,
                   !.negotiation_in_progress = FALSE, !.offer_pending = FALSE]
    ELSE [b EXCEPT !.last_remote_answer_sdp = answer, !.local_offer = None, !.remote = answer]

(* An answer reaches webrtcbin if there is one, which takes it if it has an *)
(* offer out; the flags are cleared in either case.                         *)
AnswerArrives(b, answer) ==
    LET seen == [b EXCEPT !.last_remote_answer_sdp = answer]
        cleared == [seen EXCEPT !.negotiation_in_progress = FALSE, !.offer_pending = FALSE]
    IN  CASE answer = b.last_remote_answer_sdp -> b
          [] answer # b.last_remote_answer_sdp /\ b.pipeline = 0 -> seen
          [] OTHER -> IF b.local_offer # None
                      THEN [cleared EXCEPT !.local_offer = None, !.remote = answer]
                      ELSE cleared

Takes(r) ==
    /\ inbox[r] # <<>>
    /\ inbox' = [inbox EXCEPT ![r] = Tail(@)]
    /\ UNCHANGED <<connected, relay, process, faultVars>>

(* _handle_signaling_message_in_loop and _on_signaling_connected *)
RobotHandles ==
    LET message == Head(inbox["robot"])
        told(ready) == [robot EXCEPT !.peer_ready = ready]
    IN  /\ Takes("robot")
        /\ robot' = CASE message.type = "registered" ->
                             StartRelayMediaSession(told(message.peer_ready), FALSE)
                      [] message.type = "connected" -> StartRelayMediaSession(robot, FALSE)
                      [] message.type = "peer-ready" -> StartRelayMediaSession(told(TRUE), TRUE)
                      [] message.type = "peer-left" -> StopMediaPipeline(told(FALSE))
                      [] message.type = "answer" -> AnswerArrives(robot, message.answer)
        /\ UNCHANGED machine

RobotStep ==
    UNCHANGED <<machine, connected, registered, process, inbox, pending, faultVars>>

(* Mutant: the offer that waits for the pipeline is forgotten. *)
MutantPipelinePlaying ==
    /\ robot.pipeline # 0
    /\ ~robot.pipeline_ready
    /\ robot' = [robot EXCEPT !.pipeline_ready = TRUE]
    /\ RobotStep /\ UNCHANGED uplink

(* The bus reports that the pipeline is PLAYING. *)
PipelinePlaying ==
    /\ robot.pipeline # 0
    /\ ~robot.pipeline_ready
    /\ LET ready == [robot EXCEPT !.pipeline_ready = TRUE]
       IN  robot' = IF "robot" \in connected /\ robot.offer_pending
                    THEN RequestOffer(ready) ELSE ready
    /\ RobotStep /\ UNCHANGED uplink

(* webrtcbin asks for the first negotiation, on its thread: what it tests   *)
(* may have changed on the main loop when it acts, unless the pipeline is   *)
(* stopped, which waits for the thread.                                     *)
NegotiationNeeded ==
    /\ robot.negotiation_needed
    /\ robot' = [robot EXCEPT !.negotiation_needed = FALSE,
                              !.asking = IF MayOffer(robot) THEN "offer" ELSE "wait"]
    /\ RobotStep /\ UNCHANGED uplink

NegotiationAsks ==
    /\ robot.asking # None
    /\ LET asked == [robot EXCEPT !.asking = None]
       IN  robot' = IF robot.asking = "offer" THEN CreateOffer(asked) ELSE OfferLater(asked)
    /\ RobotStep /\ UNCHANGED uplink

(* _on_offer_created; the send waits for a connection.  An offer that is    *)
(* being created when its pipeline is stopped comes to nothing.             *)
OfferCreated ==
    /\ robot.creating > 0
    /\ "robot" \in connected
    /\ LET offer == [pipeline |-> robot.pipeline, n |-> robot.offers + 1]
       IN  /\ robot' = [robot EXCEPT !.creating = @ - 1, !.offers = @ + 1, !.local_offer = offer]
           /\ uplink' = Tell(uplink, "robot",
                             [type |-> "offer", offer |-> offer, from |-> process["robot"]])
    /\ RobotStep

-----------------------------------------------------------------------------
(* The machine. *)

(* Mutant: the answer under way is still sent. *)
MutantRecoverPipeline(m) == [NewMachine(m.receiver + 1) EXCEPT !.answering = m.answering]

(* _recover_pipeline; the answers under way come to nothing. *)
RecoverPipeline(m) == NewMachine(m.receiver + 1)

(* _handle_signaling_message_in_loop: the receiver is rebuilt when the      *)
(* robot comes or goes, if it has had an offer.                             *)
MachineHandles ==
    LET message == Head(inbox["machine"])
    IN  /\ Takes("machine")
        /\ machine' =
             CASE message.type \in {"registered", "connected"} -> machine
               [] message.type \in {"peer-ready", "peer-left"} ->
                    IF machine.last_remote_offer_sdp # None THEN RecoverPipeline(machine) ELSE machine
               [] message.type = "offer" ->
                    IF message.offer = machine.last_remote_offer_sdp THEN machine
                    ELSE [machine EXCEPT !.last_remote_offer_sdp = message.offer,
                                         !.answering = Append(@, message.offer)]
        /\ UNCHANGED robot

(* _on_answer_created, once for each offer. *)
AnswerCreated ==
    /\ machine.answering # <<>>
    /\ "machine" \in connected
    /\ machine' = [machine EXCEPT !.answering = Tail(@)]
    /\ uplink' = Tell(uplink, "machine",
           [type |-> "answer", from |-> process["machine"],
            answer |-> [offer |-> Head(machine.answering), receiver |-> machine.receiver]])
    /\ UNCHANGED <<robot, connected, registered, process, inbox, pending, faultVars>>

-----------------------------------------------------------------------------
(* Faults. *)

(* The endpoints' webrtcbins hold each other's descriptions.  The offers of *)
(* one pipeline have the same credentials, which webrtcbin keeps from one   *)
(* to the next, so that the answer to either of two is as good.             *)
MediaConnected ==
    /\ robot.remote # None
    /\ robot.remote.offer.pipeline = robot.pipeline
    /\ machine.last_remote_offer_sdp # None
    /\ machine.last_remote_offer_sdp.pipeline = robot.pipeline
    /\ robot.remote.receiver = machine.receiver

(* Nothing is under way, and nothing prevents the next negotiation. *)
Established ==
    /\ MediaConnected
    /\ connected = Roles
    /\ \A r \in Roles : uplink[r] = <<>> /\ inbox[r] = <<>>
    /\ ~robot.negotiation_needed /\ robot.asking = None /\ robot.creating = 0
    /\ machine.answering = <<>>

PipelineError == [role |-> "machine", kind |-> "error"]

Fault(r, kind) ==
    /\ [role |-> r, kind |-> kind] \in Faults
    /\ faults < MaxFaults
    /\ faults' = faults + 1
    /\ settled' = (settled /\ Established /\ [role |-> r, kind |-> kind] # PipelineError)

Loses(r) ==
    /\ connected' = connected \ {r}
    /\ \E s \in Prefixes(uplink[r]) : uplink' = [uplink EXCEPT ![r] = s]
    /\ UNCHANGED <<registered, pending>>

Drop(r) ==
    /\ Fault(r, "drop")
    /\ r \in connected
    /\ Loses(r)
    /\ \E s \in Prefixes(inbox[r]) : inbox' = [inbox EXCEPT ![r] = s]
    /\ UNCHANGED <<robot, machine, process>>

Restart(r) ==
    /\ Fault(r, "restart")
    /\ Loses(r)
    /\ inbox' = [inbox EXCEPT ![r] = <<>>]
    /\ process' = [process EXCEPT ![r] = @ + 1]
    /\ IF r = "robot"
       THEN robot' = NewRobot(robot.built, robot.offers) /\ UNCHANGED machine
       ELSE machine' = NewMachine(machine.receiver + 1) /\ UNCHANGED robot

(* A GStreamer error, and the recovery it schedules. *)
RobotRecovers ==
    /\ Fault("robot", "error")
    /\ robot.pipeline # 0
    /\ LET stopped == StopMediaPipeline(robot)
       IN  robot' = IF robot.peer_ready
                    THEN [StartPipeline(stopped) EXCEPT !.offer_pending = TRUE]
                    ELSE stopped
    /\ UNCHANGED <<machine, connected, relay, process, inbox>>

MachineRecovers ==
    /\ Fault("machine", "error")
    /\ machine' = RecoverPipeline(machine)
    /\ UNCHANGED <<robot, connected, relay, process, inbox>>

-----------------------------------------------------------------------------
Signalling(r) == Connect(r) \/ Unregister(r) \/ Forward(r) \/ ForwardFails(r)

Endpoints ==
    \/ RobotHandles
    \/ PipelinePlaying
    \/ NegotiationNeeded
    \/ NegotiationAsks
    \/ OfferCreated
    \/ MachineHandles
    \/ AnswerCreated

Next ==
    \/ \E r \in Roles : Signalling(r) \/ Drop(r) \/ Restart(r)
    \/ Endpoints
    \/ RobotRecovers
    \/ MachineRecovers

Spec == Init /\ [][Next]_vars

FairSpec ==
    /\ Spec
    /\ \A r \in Roles : WF_vars(Connect(r)) /\ WF_vars(Unregister(r))
                            /\ WF_vars(Forward(r) \/ ForwardFails(r))
    /\ WF_vars(RobotHandles) /\ WF_vars(MachineHandles)
    /\ WF_vars(PipelinePlaying)
    /\ WF_vars(NegotiationNeeded) /\ WF_vars(NegotiationAsks)
    /\ WF_vars(OfferCreated) /\ WF_vars(AnswerCreated)

-----------------------------------------------------------------------------
(***************************************************************************)
(* Properties.                                                             *)
(***************************************************************************)

(* The robot holds back its offers only while one is out or being created,  *)
(* whatever was torn down, rebuilt or answered late: the flag that delays   *)
(* negotiation is never left over from a webrtcbin that is gone.            *)
NegotiationOutstanding ==
    robot.negotiation_in_progress => robot.creating > 0 \/ robot.local_offer # None

(* When the faults end, so does the signalling: both endpoints are          *)
(* connected, the robot knows of its machine, and no message is left, in a  *)
(* queue or on a connection that kicks its sender, to start another round.  *)
SignallingSettles ==
    <>[](/\ connected = Roles
         /\ robot.peer_ready
         /\ \A r \in Roles : uplink[r] = <<>> /\ inbox[r] = <<>> /\ pending[r] = <<>>)

(* From whatever order the endpoints come up in, and after every fault that *)
(* meets an established session (a process that is started again, a         *)
(* connection that is lost, an error of the robot's pipeline), the          *)
(* endpoints negotiate a session and keep it.                               *)
SettledFaultsRecover == <>[](settled => MediaConnected)

(* Whatever the machine does, the robot need not be restarted: the smoke    *)
(* test has it of a machine that is started again.                          *)
MachineReconnects == <>[]MediaConnected

=============================================================================
