---------------------------- MODULE RobotControl ----------------------------
(***************************************************************************)
(* The velocity-command path of the robot endpoint                         *)
(* (scripts/gst_webrtc_h264_robot.py, scripts/webrtc_control.py).          *)
(*                                                                         *)
(* Two threads of the robot process publish to the ROS velocity topic:     *)
(*                                                                         *)
(*   - the GLib main loop: the 100 ms watchdog timer, the handlers of      *)
(*     signalling messages, the bus errors, the recovery timer and stop;   *)
(*   - the webrtcbin thread, on which the callbacks of the data channel    *)
(*     "cmd-vel" run.                                                      *)
(*                                                                         *)
(* They share last_control_message_time, watchdog_tripped and the ROS      *)
(* publisher without a lock, so the model splits a callback of either      *)
(* thread wherever the other thread can run between two of its accesses.   *)
(* The data channel is created with ordered=False, max_retransmits=0: it   *)
(* loses and reorders commands (it never duplicates one).                  *)
(*                                                                         *)
(* Time is abstracted to what the code compares it with: the age of the    *)
(* last accepted velocity command against cmd_watchdog_timeout, and        *)
(* whether the rate limiter's window since it has elapsed.  A velocity is  *)
(* "zero" or "move".                                                       *)
(***************************************************************************)
EXTENDS Naturals, FiniteSets

CONSTANTS Sessions,  \* control sessions: one per machine process (control_session_id)
          MaxSeq     \* bound on the commands one session sends

ASSUME ControlAssumption == Sessions # {} /\ MaxSeq \in Nat

VARIABLES
    channel,          \* commands in flight on the "cmd-vel" data channel
    sent,             \* [s] how many commands session s has sent
    last_seq,         \* CommandGate.last_seq_by_session: 0 when it has no entry
    estop_latched,
    age,              \* of last_control_message_time: "never", "fresh" or "expired"
    rate_open,        \* has 1/cmd_rate_limit_hz passed since last_control_publish_time?
    watchdog_tripped,
    outgoing,         \* what the webrtcbin thread is about to publish
    channel_open,
    peer_ready,
    pipeline,         \* is there a media pipeline?
    recovering,
    main,             \* what the main loop is in the middle of
    velocity,         \* the velocity published last
    overlap,          \* auxiliary: did the last admitted command meet a watchdog check?
    stop_seq          \* auxiliary: [s] the number of the last estop of s that latched

commandVars == <<channel, sent>>
gateVars    == <<last_seq, estop_latched>>
timerVars   == <<age, rate_open>>
mediaVars   == <<channel_open, peer_ready, pipeline, recovering>>
vars == <<commandVars, gateVars, timerVars, watchdog_tripped, outgoing, mediaVars,
          main, velocity, overlap, stop_seq>>

Kinds == {"cmd_vel", "estop", "estop_clear"}
Velocities == {"zero", "move"}

Command == [kind : Kinds, session : Sessions, seq : 1..MaxSeq, speed : Velocities]

(***************************************************************************)
(* "watchdogZero" and "watchdogTrip" are the two points inside             *)
(* _watchdog_check after it has decided to trip; "teardown" and            *)
(* "stopTeardown" lie between publishing zero and the pipeline reaching    *)
(* NULL in the peer-left handler and in stop; "stopped" ends the process.  *)
(***************************************************************************)
MainSteps == {"idle", "watchdogZero", "watchdogTrip", "teardown", "stopTeardown", "stopped"}

TypeOK ==
    /\ channel \subseteq Command
    /\ sent \in [Sessions -> 0..MaxSeq]
    /\ last_seq \in [Sessions -> 0..MaxSeq]
    /\ estop_latched \in BOOLEAN
    /\ age \in {"never", "fresh", "expired"}
    /\ rate_open \in BOOLEAN
    /\ watchdog_tripped \in BOOLEAN
    /\ outgoing \in Velocities \cup {"none"}
    /\ channel_open \in BOOLEAN
    /\ peer_ready \in BOOLEAN
    /\ pipeline \in BOOLEAN
    /\ recovering \in BOOLEAN
    /\ main \in MainSteps
    /\ velocity \in Velocities
    /\ overlap \in BOOLEAN
    /\ stop_seq \in [Sessions -> 0..MaxSeq]

(* __init__ publishes zero before anything else can run. *)
Init ==
    /\ channel = {}
    /\ sent = [s \in Sessions |-> 0]
    /\ last_seq = [s \in Sessions |-> 0]
    /\ estop_latched = FALSE
    /\ age = "never"
    /\ rate_open = TRUE
    /\ watchdog_tripped = FALSE
    /\ outgoing = "none"
    /\ channel_open = FALSE
    /\ peer_ready = FALSE
    /\ pipeline = FALSE
    /\ recovering = FALSE
    /\ main = "idle"
    /\ velocity = "zero"
    /\ overlap = FALSE
    /\ stop_seq = [s \in Sessions |-> 0]

-----------------------------------------------------------------------------
(* The operator's side and the network: not this process. *)

(* _send_cmd_vel numbers the commands of its session; an operator           *)
(* application sends the emergency-stop commands on the same channel.       *)
Send(s, kind, speed) ==
    /\ channel_open
    /\ sent[s] < MaxSeq
    /\ kind # "cmd_vel" => speed = "zero"
    /\ sent' = [sent EXCEPT ![s] = @ + 1]
    /\ channel' = channel \cup
         {[kind |-> kind, session |-> s, seq |-> sent[s] + 1, speed |-> speed]}
    /\ UNCHANGED <<gateVars, timerVars, watchdog_tripped, outgoing, mediaVars, main,
                   velocity, overlap, stop_seq>>

(* A command that is lost, or that the robot drops without touching its     *)
(* state: not JSON, unauthorised, too old, too far in the future, or with   *)
(* a component that is not a finite number.                                 *)
Drop(m) ==
    /\ m \in channel
    /\ channel' = channel \ {m}
    /\ UNCHANGED <<sent, gateVars, timerVars, watchdog_tripped, outgoing, mediaVars, main,
                   velocity, overlap, stop_seq>>

-----------------------------------------------------------------------------
(* _on_control_message, on the webrtcbin thread. *)

(* The webrtcbin thread takes the next command from the channel. *)
Receives(m) ==
    /\ channel_open
    /\ outgoing = "none"
    /\ m \in channel
    /\ channel' = channel \ {m}

(* Mutant: only an exact repeat is refused. *)
MutantInOrder(m) == m.seq # last_seq[m.session]

(* CommandGate.validate for a command that is timely and well formed. *)
InOrder(m) == m.seq > last_seq[m.session]

RejectOutOfOrder(m) ==
    /\ Receives(m)
    /\ ~InOrder(m)
    /\ UNCHANGED <<sent, gateVars, timerVars, watchdog_tripped, outgoing, mediaVars, main,
                   velocity, overlap, stop_seq>>

(* The gate records the sequence number of every command it accepts, also   *)
(* of one that the latch or the rate limiter then discards.                 *)
GateAccepts(m) ==
    /\ Receives(m)
    /\ InOrder(m)
    /\ last_seq' = [last_seq EXCEPT ![m.session] = m.seq]

Estop(m) ==
    /\ m.kind = "estop"
    /\ GateAccepts(m)
    /\ estop_latched' = TRUE
    /\ outgoing' = "zero"
    /\ stop_seq' = [stop_seq EXCEPT ![m.session] = m.seq]
    /\ UNCHANGED <<sent, timerVars, watchdog_tripped, mediaVars, main, velocity, overlap>>

EstopClear(m) ==
    /\ m.kind = "estop_clear"
    /\ GateAccepts(m)
    /\ estop_latched' = FALSE
    /\ outgoing' = "zero"
    /\ UNCHANGED <<sent, timerVars, watchdog_tripped, mediaVars, main, velocity, overlap, stop_seq>>

(* Mutant: the latch is not consulted. *)
MutantBlocked == ~rate_open

(* A velocity command goes no further while the stop is latched, or inside   *)
(* the rate limiter's window.                                                *)
Blocked == estop_latched \/ ~rate_open

(* A blocked command does not refresh last_control_message_time.             *)
Discard(m) ==
    /\ m.kind = "cmd_vel"
    /\ Blocked
    /\ GateAccepts(m)
    /\ UNCHANGED <<sent, estop_latched, timerVars, watchdog_tripped, outgoing, mediaVars, main,
                   velocity, overlap, stop_seq>>

(* Mutant: an admitted command leaves the watchdog tripped. *)
MutantRearm == UNCHANGED watchdog_tripped

Rearm == watchdog_tripped' = FALSE

(* Admitted: the timers restart and the watchdog is re-armed, then the      *)
(* command is published (Publish).                                          *)
Admit(m) ==
    /\ m.kind = "cmd_vel"
    /\ ~Blocked
    /\ GateAccepts(m)
    /\ age' = "fresh"
    /\ rate_open' = FALSE
    /\ Rearm
    /\ outgoing' = m.speed
    /\ overlap' = (main \in {"watchdogZero", "watchdogTrip"})
    /\ UNCHANGED <<sent, estop_latched, mediaVars, main, velocity, stop_seq>>

(* RosCmdPublisher.publish by the webrtcbin thread. *)
Publish ==
    /\ outgoing # "none"
    /\ velocity' = outgoing
    /\ outgoing' = "none"
    /\ UNCHANGED <<commandVars, gateVars, timerVars, watchdog_tripped, mediaVars, main, overlap, stop_seq>>

(* The channel opens, closes or fails while its pipeline lives: each of the  *)
(* three callbacks publishes zero.  A closed channel delivers nothing more.  *)
ChannelOpen ==
    /\ pipeline
    /\ ~channel_open
    /\ outgoing = "none"
    /\ channel_open' = TRUE
    /\ outgoing' = "zero"
    /\ UNCHANGED <<commandVars, gateVars, timerVars, watchdog_tripped, peer_ready, pipeline,
                   recovering, main, velocity, overlap, stop_seq>>

ChannelClose ==
    /\ channel_open
    /\ outgoing = "none"
    /\ channel_open' = FALSE
    /\ channel' = {}
    /\ outgoing' = "zero"
    /\ UNCHANGED <<sent, gateVars, timerVars, watchdog_tripped, peer_ready, pipeline,
                   recovering, main, velocity, overlap, stop_seq>>

ChannelError ==
    /\ channel_open
    /\ outgoing = "none"
    /\ outgoing' = "zero"
    /\ UNCHANGED <<commandVars, gateVars, timerVars, watchdog_tripped, mediaVars, main,
                   velocity, overlap, stop_seq>>

-----------------------------------------------------------------------------
(* Time passes. *)

CommandExpires ==
    /\ age = "fresh"
    /\ age' = "expired"
    /\ UNCHANGED <<commandVars, gateVars, rate_open, watchdog_tripped, outgoing, mediaVars, main,
                   velocity, overlap, stop_seq>>

RateWindowElapses ==
    /\ ~rate_open
    /\ rate_open' = TRUE
    /\ UNCHANGED <<commandVars, gateVars, age, watchdog_tripped, outgoing, mediaVars, main,
                   velocity, overlap, stop_seq>>

-----------------------------------------------------------------------------
(* The GLib main loop. *)

(* The three steps of a _watchdog_check that trips: the decision, the zero   *)
(* command, the flag.  A check that does not trip changes nothing.           *)
WatchdogDecides ==
    /\ main = "idle"
    /\ age = "expired"
    /\ ~watchdog_tripped
    /\ main' = "watchdogZero"
    /\ overlap' = (overlap \/ outgoing = "move")
    /\ UNCHANGED <<commandVars, gateVars, timerVars, watchdog_tripped, outgoing, mediaVars,
                   velocity, stop_seq>>

(* Mutant: the check trips without publishing. *)
MutantWatchdogZero ==
    /\ main = "watchdogZero"
    /\ main' = "watchdogTrip"
    /\ UNCHANGED <<commandVars, gateVars, timerVars, watchdog_tripped, outgoing, mediaVars,
                   velocity, overlap, stop_seq>>

WatchdogZero ==
    /\ main = "watchdogZero"
    /\ velocity' = "zero"
    /\ main' = "watchdogTrip"
    /\ UNCHANGED <<commandVars, gateVars, timerVars, watchdog_tripped, outgoing, mediaVars, overlap, stop_seq>>

WatchdogTrips ==
    /\ main = "watchdogTrip"
    /\ watchdog_tripped' = TRUE
    /\ main' = "idle"
    /\ UNCHANGED <<commandVars, gateVars, timerVars, outgoing, mediaVars, velocity, overlap, stop_seq>>

(* Setting the pipeline to NULL joins the webrtcbin thread, so it waits for  *)
(* that thread's callback to end, and no callback follows it.                *)
PipelineGone ==
    /\ outgoing = "none"
    /\ channel_open' = FALSE
    /\ channel' = {}

(* _start_relay_media_session keeps a live pipeline; without one it starts   *)
(* one for a machine that is present, unless the signalling is down by now.  *)
StartRelayMediaSession == pipeline' \in {pipeline, pipeline \/ peer_ready'}

(* The relay's reply to a registration says whether the machine is present.  *)
(* It does not stop the pipeline when the machine is not.                    *)
Registered ==
    /\ main = "idle"
    /\ peer_ready' \in BOOLEAN
    /\ StartRelayMediaSession
    /\ UNCHANGED <<commandVars, gateVars, timerVars, watchdog_tripped, outgoing, channel_open,
                   recovering, main, velocity, overlap, stop_seq>>

(* _on_signaling_connected.                                                  *)
SignalingConnected ==
    /\ main = "idle"
    /\ peer_ready
    /\ UNCHANGED peer_ready
    /\ StartRelayMediaSession
    /\ UNCHANGED <<commandVars, gateVars, timerVars, watchdog_tripped, outgoing, channel_open,
                   recovering, main, velocity, overlap, stop_seq>>

(* A peer-ready message rebuilds a live pipeline, unless the signalling is   *)
(* down by now.  Unlike the other teardowns this one publishes no zero.      *)
PeerReady ==
    /\ main = "idle"
    /\ peer_ready' = TRUE
    /\ \/ UNCHANGED <<channel, channel_open, pipeline>>
       \/ /\ IF pipeline THEN PipelineGone ELSE UNCHANGED <<channel, channel_open>>
          /\ pipeline' = TRUE
    /\ UNCHANGED <<sent, gateVars, timerVars, watchdog_tripped, outgoing, recovering, main,
                   velocity, overlap, stop_seq>>

PeerLeft ==
    /\ main = "idle"
    /\ peer_ready' = FALSE
    /\ velocity' = "zero"
    /\ main' = "teardown"
    /\ UNCHANGED <<commandVars, gateVars, timerVars, watchdog_tripped, outgoing, channel_open,
                   pipeline, recovering, overlap, stop_seq>>

Teardown ==
    /\ main = "teardown"
    /\ PipelineGone
    /\ pipeline' = FALSE
    /\ main' = "idle"
    /\ UNCHANGED <<sent, gateVars, timerVars, watchdog_tripped, outgoing, peer_ready, recovering,
                   velocity, overlap, stop_seq>>

(* A GStreamer error publishes zero and schedules one recovery.  The channel *)
(* stays up until the recovery timer fires.                                  *)
BusError ==
    /\ main = "idle"
    /\ pipeline
    /\ velocity' = "zero"
    /\ recovering' = TRUE
    /\ UNCHANGED <<commandVars, gateVars, timerVars, watchdog_tripped, outgoing, channel_open,
                   peer_ready, pipeline, main, overlap, stop_seq>>

(* A recovery that fails, with the new pipeline built or not, tries again.   *)
RecoverPipeline ==
    /\ main = "idle"
    /\ recovering
    /\ IF pipeline THEN PipelineGone ELSE UNCHANGED <<channel, channel_open>>
    /\ \/ pipeline' = peer_ready /\ recovering' = FALSE
       \/ peer_ready /\ pipeline' \in BOOLEAN /\ recovering' = TRUE
    /\ UNCHANGED <<sent, gateVars, timerVars, watchdog_tripped, outgoing, peer_ready, main,
                   velocity, overlap, stop_seq>>

(* stop: zero, the pipeline to NULL, then control.close and the loop quits. *)
Stop ==
    /\ main = "idle"
    /\ velocity' = "zero"
    /\ main' = "stopTeardown"
    /\ UNCHANGED <<commandVars, gateVars, timerVars, watchdog_tripped, outgoing, mediaVars, overlap, stop_seq>>

StopTeardown ==
    /\ main = "stopTeardown"
    /\ PipelineGone
    /\ pipeline' = FALSE
    /\ main' = "stopped"
    /\ UNCHANGED <<sent, gateVars, timerVars, watchdog_tripped, outgoing, peer_ready, recovering,
                   velocity, overlap, stop_seq>>

-----------------------------------------------------------------------------
Watchdog == WatchdogDecides \/ WatchdogZero \/ WatchdogTrips

ControlMessage(m) ==
    \/ RejectOutOfOrder(m)
    \/ Estop(m)
    \/ EstopClear(m)
    \/ Discard(m)
    \/ Admit(m)

Next ==
    \/ \E s \in Sessions, kind \in Kinds, speed \in Velocities : Send(s, kind, speed)
    \/ \E m \in channel : Drop(m)
    \/ \E m \in channel : ControlMessage(m)
    \/ Publish
    \/ ChannelOpen
    \/ ChannelClose
    \/ ChannelError
    \/ CommandExpires
    \/ RateWindowElapses
    \/ Watchdog
    \/ Registered
    \/ SignalingConnected
    \/ PeerReady
    \/ PeerLeft
    \/ Teardown
    \/ BusError
    \/ RecoverPipeline
    \/ Stop
    \/ StopTeardown

Spec == Init /\ [][Next]_vars

(***************************************************************************)
(* Fairness: the timer keeps firing and the main loop keeps running its    *)
(* callbacks to the end, and a callback the webrtcbin thread has begun     *)
(* ends.  Nothing is assumed of the operator, the network, the peer or the *)
(* media.                                                                  *)
(***************************************************************************)
Fairness ==
    /\ WF_vars(Watchdog)
    /\ WF_vars(Publish)
    /\ WF_vars(Teardown)
    /\ WF_vars(StopTeardown)

FairSpec == Spec /\ Fairness

-----------------------------------------------------------------------------
(***************************************************************************)
(* Properties.                                                             *)
(***************************************************************************)

(* An emergency stop holds: once the robot has handled an estop, and until  *)
(* it handles an estop_clear, the last velocity published is zero, whatever *)
(* the velocity commands, the watchdog and the media session do meanwhile.  *)
EstopHolds == estop_latched /\ outgoing = "none" => velocity = "zero"

(* A tripped watchdog means a stopped robot: it trips once per silence and  *)
(* publishes nothing more until a command re-arms it, so a robot that moves *)
(* with the watchdog tripped is never stopped by it.  This holds for every  *)
(* command whose callback did not overlap a check (see WatchdogStopsRobot). *)
TrippedMeansStopped ==
    watchdog_tripped /\ ~overlap /\ outgoing = "none" => velocity = "zero"

(* No velocity command that was sent before an emergency stop moves the     *)
(* robot once that stop has been handled, not even after the stop has been  *)
(* cleared, although the channel may deliver such a command last.           *)
EstopIsFinal == [][\A m \in channel : Admit(m) => m.seq > stop_seq[m.session]]_vars

(* A robot that moves will stop when the operator goes silent, by a         *)
(* watchdog that needs no help from the channel, provided the last command  *)
(* did not overlap a check.                                                 *)
SilenceStopsRobot ==
    (age = "expired" /\ ~overlap)
      ~> (velocity = "zero" \/ age = "fresh" \/ main \in {"stopTeardown", "stopped"})

(* What docs/configuration.md promises of WEBRTC_CMD_WATCHDOG_TIMEOUT, with *)
(* no proviso: a command that times out is followed by zero velocity.       *)
WatchdogStopsRobot ==
    age = "expired"
      ~> (velocity = "zero" \/ age = "fresh" \/ main \in {"stopTeardown", "stopped"})

=============================================================================
