# horus_connector in TLA+

`horus_connector` carries a robot's cameras to an operator's machine over WebRTC, the operator's
velocity commands back over a WebRTC data channel, and live voice between an operator's and a field
teammate's headset. A small relay in the cloud matches the parties; ROS 2 topics travel beside it
over Zenoh. This directory specifies the parts of it that hold protocol state, checks them with TLC
and proves the central theorems with TLAPS.

    tlc -workers 2 -config RobotControl.cfg RobotControl      # any run: its cfg and module are below
    tlapm RobotControlProofs.tla                              # any *Proofs module

Paths below are relative to the repository (`src/`).

## 1. Inventory

### Components that hold protocol state

**Signalling relay**, `scripts/webrtc_signal_relay.py`. An asyncio server, one handler task per
websocket. *State*: `peers` (room and role to connection), `peer_meta` (session id per connection),
`pending` (bounded queues for absent roles). *Operations*: register (replacing an older connection of
the role, delivering the queue, notifying the counterpart, optionally resetting the robot), forward
or queue a signal, unregister when a handler ends. *Talks to* both camera endpoints and both headsets.
*Hard*: `register` awaits the close of the replaced connection with the new one already in the
room; a handler of a replaced connection ends later; a forward to a dead connection raises in the
sender's handler. *Correct when* an open registered connection is the one in the room, queues exist
only for absent roles and hold one negotiation, nothing waits over the close of a replaced connection,
notices agree with the room, and a closed connection leaves it.

**Voice call registry**, `scripts/horus_voice_session.py`, called by the relay for every signal of a
voice role. *State*: per room, call id, the two sessions, call state, time of the last accepted
signal. *Operations*: validate and apply each of eleven kinds of signal; lazy expiry. *Hard*: signals
of several sessions and reused ids in any order; the registry is never told of disconnections.
*Correct when* a room has one call at a time between two fixed parties, nobody else acts on it or prolongs
it, a party that stays there is told what becomes of it, and an abandoned call frees the room.

**Endpoint signalling connection**, `scripts/gst_webrtc_common.py` (`JsonSignaling`,
`ClientSignaling`, `ServerSignaling`), used by robot and machine. *State*: `ws`, `connected`, `ready`,
generation, pending queue. *Threads*: the reading thread of each connection, a one-second timer per
client connection, the media threads that send. *Correct when* readiness never outlives the
connection, only the current connection is announced, and every lasting connection is.

**Robot endpoint: control path**, `scripts/gst_webrtc_h264_robot.py`, `scripts/webrtc_control.py`.
*State*: the gate's sequence numbers, the emergency-stop latch, command times, `watchdog_tripped`, the
media pipeline, and the velocity last published. *Threads*: the GLib main loop (watchdog, signalling
messages, bus, recovery, stop) and the webrtcbin thread (data-channel callbacks), with no lock between
them. *Correct when* a latched stop keeps the robot stopped, an old command never moves it, and
silence always stops it.

**Robot and machine endpoints: media session**, `scripts/gst_webrtc_h264_robot.py`,
`scripts/gst_webrtc_h264_machine.py`. *State*: pipeline, webrtcbin descriptions,
`negotiation_in_progress`, `offer_pending`, `peer_ready`, `last_remote_*_sdp`. *Operations*: messages
from the relay, offer and answer creation, pipeline start, stop and recovery. *Hard*: both ends
restart, lose connections and rebuild independently, and the notices of it cross the descriptions.
*Correct when* the two ends agree on a session from any start order and after faults.

**Adaptive bitrate and statistics**, `scripts/webrtc_stats.py` and the robot's `_adaptive_*`. *State*: the
controller's rate and run of good samples, one encoder per track, the request in flight, the last NACK
and PLI counts. *Threads*: the main loop asks, a webrtcbin thread answers and posts the sample back. *Hard*:
answers outlive the pipeline they were asked of, counters start anew with it, a request may never be
answered. *Correct when* encoders follow the session's rate within every bound, the rate rises only on
evidence, and congestion brings it down.

**HoloLens field-teammate relay**, `scripts/field_teammate_hololens_relay.py`. *State*: a bounded command queue,
the command that waits for its answer, the sockets to close, the history of poses. *Threads*: control,
pose and video, each dialling a port of the headset for ever, and the ROS executor. *Hard*: a full queue is
filled by one thread and drained and refilled by another; an answer may come after its timeout; `stop` meets
threads anywhere; video is matched to poses that another thread receives. *Correct when* answers belong
to their commands, guidance is sent in its order, stop ends all threads and lets none do more than it was
about to, and what is published of head, hands and camera agrees.

**Launcher**, `horus` (bash), **stream configuration**, `scripts/webrtc_streams.py`, and **monitor**,
`scripts/horus_monitor.py`. *State*: pid files, the stream document, logs. The launcher starts and stops the
services of a role; the monitor derives their names again and judges them. *Hard*: the two share no
code, documents change under running services, pid files outlive processes. *Correct when* they agree.
The machine's choice of the stream each video track feeds depends on the same names.

**Distributed benchmark**, `scripts/run_distributed_benchmark.py`, with `clock_offset_probe.py`: shapes a
network, starts processes on three nodes over ssh, measures, corrects by the clock offset, cleans up and
resumes. *Hard*: every remote command may fail, happen and be reported as failed, or fail unseen; what was
started may end by itself, and only bridges are looked at; a restart trusts the files it finds. *Correct
when* a measurement runs alone under the network it names, nothing is left behind, and what counts as a
result was corrected.

**Native voice peer**, `native/horus_voice/src/horus_voice_native.cpp`: one libdatachannel peer per call behind
a C interface, with Opus and a codec mutex. *Correct when* no callback outlives its peer. Not modelled: what
may go wrong is the lifetime of an object under the callbacks of a library that is not in this repository.

### Components without protocol state

Setup, bootstrap and configuration rendering; credential issuing (pure functions of a file and the clock);
the fleet view, the metric writers and the monitor's screens; the superseded JPEG camera path; probes and
test fixtures. They are not modelled, for lack of behaviour over time. Zenoh, GStreamer, the websocket
libraries and ROS are external; what the code relies on of them is in the models where it matters
(marked external in `PROJECT.json`).

### How they interact

    headset (operator)  --\                        /--  headset (field teammate)
                           relay + voice registry
    robot endpoint      --/                        \--  machine endpoint
      control path <=========== data channel "cmd-vel" =========> operator commands
      media session <========== RTP, negotiated via the relay ==> ROS images
      adaptive bitrate

    HoloLens <-- TCP: control, pose, video --> field-teammate relay --> ROS: /tf, images, guidance
    operator --> launcher --> services of a host <-- monitor (pid files, logs)

Endpoints reach the relay through `JsonSignaling`; its callbacks run on a reading thread and hand each
message to the GLib loop with `idle_add`, so an endpoint acts on messages one at a time, in order.

### Hazards

`PROJECT.json` lists the hazards of this code, each at its line, with the properties that cover it or
a note that says why none does yet.

## 2. Modules

| Module | Models | Composed with |
|---|---|---|
| `RobotControl` | the robot's velocity-command path | |
| `SignalRelay` (`MCSignalRelay`) | one camera room of the relay | |
| `VoiceCall` | the voice registry and the relay's forwarding for it | implements `VoiceCallContract` |
| `JsonSignaling` | the endpoint's connection object, client and server use | |
| `MediaSession` (`MCMediaSession`) | robot, relay, connections and machine negotiating together | abstracts `SignalRelay` and `JsonSignaling` |
| `AdaptiveBitrate` (`MCAdaptiveBitrate`) | statistics requests, controller and encoders of a session | |
| `HoloLensRelay` | the threads of the HoloLens relay, its control queue, `stop` | |
| `TeammateFrames` (`MCTeammateFrames`) | the frames of a pose and the pose of a video frame | |
| `StreamServices` (`MCStreamServices`) | launcher, stream documents, monitor; tracks of a bundled session | |
| `BenchmarkRunner` (`MCBenchmarkRunner`) | a batch of benchmark conditions with faults and a restart | |
| `SignalQueue` | what the relay keeps of the signals queued for an absent role | used by `SignalRelay`, `MediaSession` |
| `RobotControlProofs`, `SignalRelayProofs`, `VoiceCallProofs`, `JsonSignalingProofs`, `AdaptiveBitrateProofs`, `BenchmarkRunnerProofs` | theorems | |
| `MediaSessionProofs` | theorems about `MediaSession` and about `StreamServices` | |
| `HoloLensRelayProofs` | theorems about `HoloLensRelay` and about `TeammateFrames` | |

Variables and actions bear the names of the code's attributes and methods; a `Mutant...` operator is a
plausible bug, used to see that a property notices it, and is not part of any specification. Variables
marked *auxiliary* are written and never read by the actions.

**RobotControl.** `Receives`, `InOrder`, `GateAccepts`, `Estop`, `EstopClear`, `Discard` and `Admit`
are `_on_control_message` and the gate; `Publish` is the moment its publication happens, so that every
main-loop step can fall between decision and publication. `WatchdogDecides`, `WatchdogZero` and
`WatchdogTrips` are the three steps of a `_watchdog_check` that trips. `Registered`,
`SignalingConnected`, `PeerReady`, `PeerLeft`/`Teardown`, `BusError`, `RecoverPipeline` and
`Stop`/`StopTeardown` are what the main loop does to the pipeline; where it publishes zero first, the
two are separate steps. Stopping a pipeline waits for the webrtcbin callback that is running
(`PipelineGone`: GStreamer joins its threads on NULL). Time is what the code compares it with: the
command's age against the timeout, the rate window. The channel loses and reorders commands
(`ordered=False, max_retransmits=0`). The gate's checks of age, origin and finiteness are a command's
possible `Drop`. The pipeline stop that a failed offer creation runs on a GStreamer thread has the
effects of `Stop` and is not a separate action.

**SignalRelay.** A handler gives way only where it awaits something that can suspend it, so `Register`
is one step without an old connection, and `RegisterReplacing`, `ReplacedClosed`, `Deliver`,
`ResetDone` are the pieces around its awaits. A connection may register again, with the same role and
session, and then replaces nobody; no client of the repository does that, and a change of role on one socket
is left out. `NoSession` is an endpoint or message that names no session, which `IsCurrent` lets pass. A
`DeliveryFails`, `ForwardFails` or `Eject` ends in
`Unregister`, the `finally` clause. Connections may close (`ConnectionLost`) at any time and be closed
by the relay (`CloseCompletes` ends the handshake or its timeout). Signals are descriptions or
candidates of a session; queue bounds by count, age (`Suffixes`) and coalescing are modelled, the byte
bound acts like an earlier count bound. The sends of queued signals suspend only behind a full write buffer,
where a newer signal, forwarded directly, may overtake them: the model delivers them in one step.

**VoiceCall.** One action per accepted kind of signal; each sets `updated_at` (`age` is the time since) and is
forwarded to whoever holds the other role, or throws its sender out when that connection is lost. `Reject` is
every other signal, also of another room: it deletes a call past its TTL and changes nothing else, and tells
nobody. `told` is what a session last heard of the state of the call. The payload rules are formats and left
out. `VoiceCallContract` is the promise: idle, ringing, answered; one operator; one teammate from its first
reaction on.

**JsonSignaling.** One object, `server_mode` chosen initially; the reading loop of each connection is
cut at the lock boundaries of `_begin_connection`, `_flush_pending`, `_notify_ready`, the loop and its
`finally` clause; a timer's thread and the senders interleave with it. `on_connected` is called after
`ready_lock` is released (`calling`). A thread of a server reads `self.ws`, which may by then be another
connection (`StartReading`, `reads`); a flush that fails ends the thread before its `finally` clause.

**AdaptiveBitrate.** `CheckHealth` is the timer, with everything it does on an unhealthy report or a dead
bus; `Ask`, `StatsReady`/`StatsUnavailable` (the answer, on a webrtcbin thread) and `ApplyNetworkSample`
are separate, with a new pipeline possible between any two. Loss and round-trip time are what the
controller compares them with; NACKs and PLIs count per pipeline. A request of a pipeline that is gone
may expire without an answer. The run is of `adaptive_bitrate=1`.

**HoloLensRelay.** Each thread is where its loop blocks: connecting, waiting for the greeting, for a command
or for its answer, reading, publishing, sleeping. `_enqueue_control` is cut between its queue calls
(`Enqueue`, `EvictOldest`, `PutAgain`), as the ROS and the control thread meet there; the control loop between
its look at the stop event and the end of its wait for a command (`ControlTestsStop`, `Send`). A control stream
that ends in place of its greeting still gets a voice configuration, and may take a command. The headset may
add a line of its own (`StrayLine`), which `_read_control_ack` takes for the answer. `stop` is cut at its
snapshot of the sockets, each close and each join; a join may give up wherever its thread is, and a
publication on the destroyed node raises (`PublishFails`).

**TeammateFrames.** `RememberPose` is `_publish_pose` up to the append to the history, `BroadcastPose` the rest,
unless the hands cannot be read (`BroadcastFails`: `_hands_from_pose` raises, the pose stays in the history);
a head pose that cannot be read drops the payload before anything happens and is left out. `CopyHistory` and
`PublishFrame` are the two ends of `_publish_frame_camera_pose`. The quaternion formulas of the code are kept,
branches, signs and all; directions are along the axes and positions integers, so that a quaternion is
four integers up to a positive factor, which normalizing divides out, and rotating divides exactly. Its
consumers, who read quaternions as matrices, are external (`MatrixOf`). Half-turns alone reach the second and
third branch of `_matrix_to_quaternion` along the axes, where w is 0: the sign of w is checked in the other
two. The heading of a teammate that looks straight up or down is 0, up to the sign of a zero. Calibration and
image conversion are left out.

**StreamServices.** An id is a sequence of words and a service, topic or msid another, so that the naming
rules of launcher, monitor and tracks can be compared. A process is known by its pid file, and a killed
one ends. `StartBg` leaves what runs as it is. A row of the monitor has the levels its logs and ports
can give it. `PadAdded` and `RecoverReceiver` (`_recover_pipeline`) are the machine's routing of a bundled session; pads are
numbered as the tracks of the offer, one offer per pipeline.

**BenchmarkRunner.** `pc` follows `main` and the pair functions, which are data (`Plan`: what to start and
which labels to stop). A profile is named: a rate is a class of an htb queue, a loss a netem queue; applying one
deletes what is there and installs it in one or two commands (`pc` "install", "limit"), and a bare queue may be
left between the two. A remote command is refused, lost (it happened, and timed out), or, for a stop, a copy
or the deletion of a profile, whose exit status the code ignores, silently does not happen (`kept` remembers
such a deletion). A process may end by itself (`Ends`), and only bridges are ever looked at (`Check`).
Samplers start in the order of their nodes' names. Resumption reads the files a condition left.

**MediaSession.** Robot and machine handle one message at a time; the offer, the answer and PLAYING
come later, from GStreamer. `_on_negotiation_needed`, on webrtcbin's thread, tests in one step
(`NegotiationNeeded`) and acts in another (`NegotiationAsks`), since the main loop tests and sets the same flag
without a lock: two offers of one pipeline may be created, and the machine answers each (`answering`).
Descriptions carry what identifies them (pipeline, number, receiver) and
the code sees of that only equality; offers of one pipeline have the same credentials, so that media flows
when the two ends hold descriptions of one pipeline and one receiver (`MediaConnected`). Each connection is
a queue up and a box down; `Connect` registers
and delivers what the relay queued, and the endpoint's one-second timer may announce the connection
before the relay's reply does. The faults are process restarts, lost connections (some suffix of what
is in flight is lost) and pipeline errors; a forward to a lost counterpart may throw out its sender. Left out:
candidates, direct mode (no relay), a recovery that fails and retries, the two-second delay of a
recovery and its `recovering` flag. An offer or answer that is being created while its pipeline is
stopped comes to nothing, and a webrtcbin that is offered a session by a new remote takes it; both are
GStreamer's doing and outside this repository.

## 3. What the runs check

Sizes are distinct states.

| Run | Expect | Bounds | Shows |
|---|---|---|---|
| `robot_control` | pass, 670,758 | 2 sessions of 2 commands | `EstopHolds`, `TrippedMeansStopped`, `EstopIsFinal`, `SilenceStopsRobot` |
| `robot_watchdog` | violation | 1 session | `WatchdogStopsRobot` fails |
| `signal_relay` | pass, 860,405 | 2 robot connections (of two processes), 1 legacy machine connection, 1 or 2 signals or registrations each, queue of 2 | `OpenMeansPeer`, `PendingForAbsent`, `LatestNegotiationOnly`, `NothingHeldOverClose`, `PresenceAgrees`, `ClosedConnectionsLeave` |
| `voice_call` | pass, 1,063,073 | 2 operator, 2 teammate sessions, 2 call ids, TTL of 1 | `KeepsContract` (refinement), `ParticipantsOnly`, `PartiesKnow`, `AbandonedCallEnds` |
| `json_signaling` | pass, 74,200 | 2 connections, 2 messages, queue of 1, client and server | `ReadyIsConnected`, `OnlyCurrentAnnounced`, `ClientConnectionAnnounced` |
| `media_session` | pass, 45,369 | any one fault of six | `NegotiationOutstanding`, `SettledFaultsRecover`, `SignallingSettles` |
| `media_session_reconnect` | violation | one machine restart | `MachineReconnects` fails |
| `adaptive_bitrate` | pass, 193,878 | 2 tracks of unequal bounds, 1 NACK or PLI per pipeline, 2 faults | `SharesFollowSession`, `RaiseIsEarned`, `CongestionReachesMinimum` |
| `hololens_relay` | pass, 796,122 | the control and one reading thread, queue of 1, 2 guidance messages, 2 connections, a stray line on each | `AckAnswersCommand`, `GuidanceInOrder`, `OneItemAfterStop`, `LastingLinkDrains`, `StopEndsThreads` |
| `teammate_frames` | pass, 371,620 | every axis direction; 3 timed poses, history of 2, 3 ticks | `FramesCompose`, `FramePosed` |
| `stream_services` | pass, 407,548 | 11 documents, 6 robot documents, 13 hosts | `MonitorExact`, `TracksRouted` |
| `benchmark_runner` | pass, 4,123,092 | 3 conditions (a rate, a loss, no profile), 2 faults, 2 runs | `ShapingMatches`, `MeasuresAlone`, `ExitsClean` |

*Why the bounds are enough.* Two sessions of two commands give a stop, a command before and after it,
a reordering, and an operator whose numbers say nothing of the other's; the proofs remove this bound.
Two connections of one role are what a replacement needs, and the third role's connection is the
counterpart whose notices race it; two signals and a queue of two overflow and coalesce. Two sessions
per role and two call ids make a stranger of each kind and a reused id. Two connections of an endpoint
have an old thread ending under a new one; three connections without messages (211,724 states) were
also checked and pass. One fault in `MediaSession` meets every point of every negotiation; two faults are too
many for a routine run. A time to live of one tick lets a call age, be renewed and expire. Two guidance
messages, the voice configurations and a queue of one make the ROS and the control thread overflow it
together; the order within a longer queue is what `GuidanceKeepsOrder` proves, and a control thread
alone with a queue of two and three messages was also checked. A second connection has the answers of
the first behind it. The pose and the video thread are alike, and stop() does the same for each: one
stands for both. Two tracks of unequal bounds clamp one before the other.
Three poses overflow a history of two, in any order of their timestamps. Two benchmark faults make a failure
while cleaning up after one, and a second run finds what the first left. Three constraints keep apart what
does not meet: `Calm` lets launcher and monitor stand still while tracks come in (a running endpoint reads
neither document nor pid files) and gives documents to machines only, `Brief` sends poses with hands alone.

*Fairness.* `RobotControl`: the 100 ms timer fires and callbacks end; nothing of operator, network or
media. `SignalRelay`: the event loop runs every handler that can run, and websockets bounds a close by
`close_timeout`. `VoiceCall`: time passes, and nothing else is fair: signals of others may come for ever, and
nobody need leave. `JsonSignaling`: threads run; a timer thread gets its lock in the end (strong fairness, since
others may hold the lock again and again). `MediaSession`: endpoints reconnect (their `start` loop
retries for ever), the relay reads and notices ended connections (keepalive), the GLib loops run,
GStreamer finishes what it was asked; no fault is fair. `AdaptiveBitrate`: the timer fires, webrtcbin answers
the requests it has, the main loop takes what was posted to it. `HoloLensRelay`: the threads run, and a
headset that is there obeys in time; a pose or video stream is
greeted or ends (the code reads those greetings without a timeout, and would wait for ever for a headset that
accepts and says nothing); connections may fail for ever. The other modules have no liveness.

*Deadlock* is not checked where the system may rightly stop: a stopped robot process, all connections
used up, a media session at rest, a HoloLens relay or a benchmark that has ended. The other runs check it.

### Disagreements found

Two are runs of their own.

1. **A watchdog that stays tripped** (`robot_watchdog`). `_watchdog_check` tests the flag, publishes
   zero and then sets the flag; a command admitted in between clears the flag, is published, and the
   flag is set over it. The robot moves, and the silence that follows is never answered by a zero, in
   spite of `docs/configuration.md:238`. `TrippedMeansStopped` and `SilenceStopsRobot` show that this overlap
   is the only way.
2. **A late answer accepted** (`media_session_reconnect`). An answer names no offer. A robot told twice of
   a restarted machine rebuilds its pipeline, and takes the answer to the old offer for the new one's.

The others were met while checking, and the properties are stated around them.

- *A lost offer or answer* is not sent again: `negotiation_in_progress` stays set, and the robot makes no offer
  until a peer event rebuilds its pipeline.
- *Expiry tells nobody.* A call past its TTL is deleted by the next signal of any room, whose answer, if any,
  is "voice call has not been invited"; its parties may think that it goes on (`PartiesKnow` names this).
- *Negotiation to a stranger.* The registry binds a call to two sessions, the relay delivers by role: a
  second session that registers for a role gets the rest of the call's negotiation although its own
  signals are rejected.
- *A replacement never announced*, in server use of `JsonSignaling`: the new connection finds `ready_notified`
  set by the old one, whose thread, no longer current, does not clear it.
- *A recovery nobody hears of.* The machine rebuilds its receiver after an error; the robot is not told
  and never offers again.
- A robot whose connection was thrown out by a failed forward misses the `peer-left` of that machine:
  registration tells it there is no peer, but stops nothing, and it streams to nobody until the next
  `peer-ready`.
- *The newest guidance dropped though answered "queued"*: when the ROS and the control thread meet at a full
  queue, the second put of `_enqueue_control` may find it full again. The video profile is sent once in the
  life of the process: a command that times out is not repeated, and a reconnection sends it no more; but the
  headset may still obey it, on the old connection, after a newer one.
- *An unasked line is an answer.* `_read_control_ack` returns any line that is no greeting and no JSON, and any
  JSON object: one more line from the headset and every command of that connection is acknowledged by the
  answer to the one before.
- *Monitor and launcher disagree* on a bundled session (the monitor expects a service per stream), on enabled
  streams without a name (numbered differently), and after an edit or with pid files of an earlier document;
  it always calls a cloud host offline that runs no relay, and has no row for the relay of a machine or
  teammate host. `Ordinary` and `Parts` name exactly this.
- *A track fed to the wrong stream* when one id occurs in another, when the session is named after a camera,
  or when robot and machine list streams in another order and webrtcbin shows no msid. `Matchable` names it.
- *The pose of a video frame* falls back to the newest pose also when frame and poses have the same clock and
  none is close, and a pose from before a restart of the headset application may be the nearest. With
  `--pose-origin base` the frame's pose is on the floor, while `/tf` has the camera at its height.
- *A pose the transforms never showed*: a pose with unreadable hands is remembered before it fails, and a video
  frame may be published with it; and a frame may come before the transforms of its own pose.
- *An unconstrained condition under leftover shaping*: `clear_network_profile` ignores the exit status of its
  deletion, and an unconstrained profile checks only that `tc` can list the queues. `ShapingMatches` names it.
- *A benchmark process that is dead at once* counts as started; only the bridges are ever looked at.
- *A resumed benchmark* trusts the files of a condition that an earlier run left before correcting them.
- *A failed benchmark condition* may leave processes that compete with the next one: the receiver's bridge of a
  cloud condition, recorded only with the sender's, and samplers when starting a later one fails (`Leftover`).

`SettledFaultsRecover` states what does hold of a media session: any fault that meets an established one,
other than an error of the machine's pipeline, is recovered from, and so is every order of starting. An
unsettled fault need not be (2), and its auxiliary `settled` says only that.

## 4. What is proved

For every value of the constants (any number of sessions, commands, connections, call ids, documents, poses),
under the assumptions named in the modules and nothing else; those of `TeammateFrames` keep directions on the
axes.

| Module | Theorem | |
|---|---|---|
| `RobotControlProofs` | `TypeCorrect`, `EstopSafety`, `WatchdogSafety`, `EstopFinality` | the three safety properties of the control path and its types |
| `SignalRelayProofs` | `RoomIsConsistent`, `QueuesAreForAbsentRoles` | the room holds the open connection of each role; queues only for absent roles |
| | `TypesHold`, `LateJoinerGetsLatest` | types and queue bound; a late joiner gets the newest description of each session and no candidate of an older one |
| | `NothingWaitsForAClose`, `EndpointsAreInformed` | a registration that awaits the close of the connection it replaces holds no signals meanwhile; an endpoint whose registration is over knows whether its counterpart is there, unless that came or went while its own registration awaited a close |
| `JsonSignalingProofs` | `TypeCorrect`, `ReadinessEnds`, `ClientsAnnounceCurrent` | types and queue bound; readiness does not outlive the latest connection, but for a server past a failed flush; a client announces only its current connection |
| `AdaptiveBitrateProofs` | `TypeCorrect`, `EncodersFollow`, `RaisesAreEarned` | encoders follow the session within all bounds; a raise follows a run of calm samples |
| `HoloLensRelayProofs` | `TypeCorrect`, `AnswersMatch`, `StopIsHeeded` | types and queue bound; an answer is that of the command in progress, without stray lines; no thread does more than one item once the stop event is set |
| | `GuidanceKeepsOrder` | guidance waits and is sent in order and at most once |
| | `FrameHasItsPose` (of `TeammateFrames`) | a video frame gets the pose sent at the remembered moment closest to it, else the one just come, else none |
| | `FramesAreATree` (of `TeammateFrames`) | for directions along the axes, head, hands and joints are found through the broadcast tree where the headset sent them |
| `MediaSessionProofs` | `SessionTypes`, `NegotiationNotStuck` | types; a robot that holds back its offers has one out, or one being made |
| | `TracksFindTheirStream`, `MonitorIsExact` (of `StreamServices`) | a track feeds the stream it was offered for, where it can be told at all; the monitor calls an ordinary host offline exactly when a part of what was launched has no process |
| `BenchmarkRunnerProofs` | `MeasurementIsShaped`, `MeasurementIsAlone`, `RunnerExitsClean`, `AcceptedMeansCorrected` | a condition is measured under its own shaping, with all its processes and nothing of another running but what is known to be left (`Leftover`); a run ends clean; what it accepts is corrected (proved only, in no run). Each names the failures after which it is not so |
| `VoiceCallProofs` | `TypeCorrect`, `Refinement`, `OnlyParticipants`, `PartiesAreTold` | the registry implements the contract; strangers do not act on a call; a party that stays there knows its state |

**RobotControl.** `EstopHolds` is not inductive: nothing in it forbids that the webrtcbin thread is about to
publish a "move" while the latch is set. `EstopInv` adds that it is not (a callback runs to its end, and
`Admit` saw the latch open). `WatchdogInv` follows a check step by step: from its decision on, unless a
command overlapped it, nothing is about to move the robot, and after the zero it stands still. `StopSeqInv`
(a handled stop is never ahead of the gate's number) gives `EstopIsFinal` as an action property.

**SignalRelay.** Of the room, the invariant is its types, `OpenMeansPeer` and `PendingForAbsent` together:
entering the room, and only that, replaces a peer, and it sets the replaced link to closing in the same
step; unregistering removes exactly the handler's own connection. A queue is kept short by `Kept`, the
signals of a set in their order; by induction over the places of the queue, what it returns is a selection
at increasing places, so that what holds of any two signals of a queue (`LatestNegotiationOnly`) holds of
what is kept, and needs to be shown of the appended signal only. `NothingHeldOverClose` follows from
`PendingForAbsent` and that fact: a role that is taken has nothing queued, and nothing is kept of nothing. `PresenceAgrees`
is not inductive: between a change of the room and the notice of it an endpoint believes what is no longer so.
`Told` says when that may be: while its counterpart's handler is on its way to unregister or to notify it
(`Untold`), or a registration overlapped the change.

**VoiceCall.** `CallInv`: a call has an operator, and an answered call a teammate. With it each action maps
to a step of the contract or to a stutter; expiry maps to `Finish` when the time passes, and the deletion by
the next signal to a stutter. For `PartiesKnow`, the sessions that hold a role are connected ones of that role
(`PeersInv`), so that a signal reaches the party there is, and those `present` hold their role on an open
connection and are the parties of the call once it has them (`PresentInv`): a step that changes the state tells
every one of them.

**JsonSignaling.** `ReadyIsConnected` alone is not kept by the steps of an old connection's thread. The
invariant adds that every generation is given to one connection (`GenerationsUsed`), that `connected` is that of
the latest one, in use or left by a thread that failed (`ConnectedIsCurrent`), and for a client that one thread
at most reads (`OneThread`), that it belongs to the current connection until it ends (`ThreadIsCurrent`), and
where a timer may be (`TimersKnowTheirPlace`, `NotifierIsCurrent`). Server use shares one object between threads
and has the first part only, which is why the announcement of a current connection is proved of clients.

**AdaptiveBitrate.** Shares are rounded and clamped per track; that they stay in the track's bounds holds of
any rate (`ShareBounds`), and that the rate stays in the session's of the clamp (`ClampBounds`). For
`RaiseIsEarned` the invariant ties the controller's count to the calm samples that were really seen, over
rebuilt pipelines and restarted counters. That sums of bounds are ordered is an assumption
(`BitrateAssumption`), since a sum over a set is a recursion; TLC evaluates it.

**HoloLensRelay.** `AckAnswersCommand` needs that at most one command of the current connection is unanswered
(`AtMostOne`), that nothing of an old connection can still answer (`OldConnections`), and what is expected
before and after a command is sent (`NoneExpected`, `OneExpected`): a timeout ends the connection and so its
answers; a stray line suspends this until the connection ends (`Paired`). `OneEach` follows each thread through
`stop`: one that has acted since the stop event has yet to look at it before it can act again. `GuidanceInOrder`
is not inductive, for a message may still be on its way into a full queue: `GuidanceInv` adds that nothing
queued or sent is as new as the one the ROS side is putting, and that the control thread puts voice
configurations only. It then holds of every put, eviction and second put.

**TeammateFrames.** The history is the end of what was sent, the last `HistorySize` of it, and so is the copy of
the video thread of what had been sent by then (`HistoryInv`); a position in one is a position in the other, and
the nearest sample of one the nearest of the other. What `/tf` showed for an entry is carried with it
(`ShownInv`). For the frames, a quaternion turns by a rotation when its matrix is the rotation's, times its norm
(`Turns`); `_matrix_to_quaternion` yields such a one in each branch, products of quaternions turn by products
of rotations, and an inverse by the transposed matrix. A rotation along the axes permutes the entries of a
vector and changes signs, so that turning back and turning again is the identity. Each child is then found at
its own transform, since base, camera, hands and joints have different names. `PoseAssumption` keeps directions
on the axes and positions integer; `HandAssumption` is what a headset must send: directions that are
perpendicular, no hand or joint twice. The code checks neither; two transforms of one frame, or a matrix that is
no rotation, would be broadcast.

**MediaSession.** What is under way stays of the kind its reader expects, whichever process sent it (`Routed`);
with that the types are inductive. Carried along are `NegotiationOutstanding` and that the robot's pipeline is
none or the one built last (`InOrder`), and that the last answer the machine has under way is to the offer it took
last (`MachineInOrder`). Offers that are being created are counted, so that a second one in the same pipeline
does not clear the reason of the first.
That the mark of no offer is no offer is assumed (`None`, a model value).

**StreamServices.** For the tracks (`TracksInv`), the streams are numbered and a pad that is routed was
offered, with its msid. For the monitor (`LaunchInv`), what counts as launched is what the document of the
session demands; the rest compares two naming rules, the launcher's and the monitor's, on an ordinary document.

**BenchmarkRunner.** `RunnerInv` joins six parts that need each other: the profile installed is that of the
condition while it is measured, or the condition has none and its deletion failed unseen (`ProfileInstalled`,
`kept`); the shaping is cleared where the program says so or reported (`ShapingCleared`); what may run at each
point of `main` (`NothingRuns`, `PlanFollowed`: what was started runs, unless something ended by itself); what
may be left of earlier conditions (`Strays`); and that a result is corrected before it counts (`Corrected`). A
remote command that fails, or is reported as failed, moves `pc` to the clean-up of the same condition, and so
the parts are kept; each kind of failure that breaks a part is remembered in `seen`, and the part says so.

*Only model-checked*: every liveness property, since the prover has none under fairness. Every safety
invariant and action property of the runs that hold is a theorem. `TypeOK` of
`RobotControl` and `AdaptiveBitrate` and `AcceptedIsCorrected` of `BenchmarkRunner` are proved and not run.

## 5. Not modelled

The native voice peer (above). Setup, bootstrap and rendering, which write files from answers. The fleet view
and metrics, which poll and print. The legacy JPEG path, which the H.264 path supersedes. Credentials are a
guard in the relay's and the gate's decisions; how they are issued and hashed is not. Of the monitor, its
reconstruction of Zenoh and relay members from logs; of the launcher, Docker and the commands that only
inspect; of the benchmark, the statistics of its tables; of media, decoding, drawing and latency samples.

## 6. Plan

1. *Deepen what exists.* `MediaSession`: the `recovering` flag and its delayed timer; direct mode over
   `JsonSignaling`'s server use. `SignalRelay`: the
   state file and log its monitor reads, where a late "registered" line can outlive its connection.
2. *New modules*: the latency probe (`frame-clock` messages of the robot against the frames of the machine),
   the native peer against a model of its library.
3. *Abstract specifications*: a register of one connection per role for `SignalRelay`, a loss-tolerant ordered channel
   for the guidance of `HoloLensRelay`, each refined by its module.
4. *Proofs*, next: these refinements, step by step; what a registration promises as an action property of
   `SignalRelay`; `BitrateAssumption` as a lemma, with the sums of bounds as folds.
