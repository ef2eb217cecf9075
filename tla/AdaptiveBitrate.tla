---------------------------- MODULE AdaptiveBitrate ----------------------------
(***************************************************************************)
(* Bitrate adaptation of the robot endpoint: the statistics requests and   *)
(* encoder updates of scripts/gst_webrtc_h264_robot.py and the controller  *)
(* of scripts/webrtc_stats.py.                                             *)
(*                                                                         *)
(* Everything but the answer to a statistics request runs on the GLib main *)
(* loop.  The answer comes on a thread of webrtcbin, which reads the       *)
(* report and posts the sample to the main loop; a sample can therefore    *)
(* outlive the pipeline it was taken from.                                 *)
(*                                                                         *)
(* Loss and round-trip time are abstracted to how they compare with the    *)
(* thresholds of the controller: 0 is at most the good one, 1 between the  *)
(* two, 2 at least the bad one.                                            *)
(***************************************************************************)
EXTENDS Integers, Sequences, FiniteSets, Functions

CONSTANTS
    Tracks,               \* the H.264 tracks of the session, one encoder each
    bitrate_kbit,         \* [t] configured rate and bounds of track t
    min_bitrate_kbit,
    max_bitrate_kbit,
    Step,                 \* bitrate_step_kbit
    GoodSamplesRequired,
    NackBurst,            \* new NACKs in one sample that mean congestion (10 in the code)
    Reports,              \* what a report can say: [Tracks -> [loss, rtt]]
    NoSample,             \* None: the report could not be read
    MaxEvents,            \* bound on the NACKs and PLIs of one pipeline
    MaxFaults             \* bound on warnings, errors, disconnections and departures

Kbit == Nat \ {0}
Unknown == -1
Levels == {Unknown, 0, 1, 2}

(* __init__: the session's rate and bounds are the sums over its tracks, and *)
(* its maximum is never below its minimum.                                   *)
StartKbit == SumFunction(bitrate_kbit)
MinKbit == SumFunction(min_bitrate_kbit)
MaxKbit == IF SumFunction(max_bitrate_kbit) < MinKbit THEN MinKbit
                                                      ELSE SumFunction(max_bitrate_kbit)

(* load_streams refuses a track whose rate is not positive or not within its *)
(* bounds.  The last line is the arithmetic of the sums: positive, ordered.  *)
ASSUME BitrateAssumption ==
    /\ Tracks # {}
    /\ Step \in Kbit /\ GoodSamplesRequired \in Kbit /\ NackBurst \in Kbit
    /\ bitrate_kbit \in [Tracks -> Kbit]
    /\ min_bitrate_kbit \in [Tracks -> Kbit]
    /\ max_bitrate_kbit \in [Tracks -> Kbit]
    /\ \A t \in Tracks : min_bitrate_kbit[t] <= bitrate_kbit[t]
                         /\ bitrate_kbit[t] <= max_bitrate_kbit[t]
    /\ MinKbit \in Kbit /\ StartKbit \in Kbit /\ MaxKbit \in Kbit
    /\ MinKbit <= StartKbit /\ StartKbit <= MaxKbit

ASSUME ReportAssumption ==
    /\ Reports # {} /\ Reports \subseteq [Tracks -> [loss : Levels, rtt : Levels]]
    /\ MaxEvents \in Nat /\ MaxFaults \in Nat

Samples == [loss : Levels, rtt : Levels, nack_count : 0..MaxEvents, pli_count : 0..MaxEvents]

ASSUME NoSampleAssumption == NoSample \notin Samples

VARIABLES
    current,         \* current_bitrate_kbit
    good_samples,    \* of the BitrateController
    last_nack_count,
    last_pli_count,
    encoders,        \* [t] the rate encoder t was given, 0 when there is no encoder
    pipeline,        \* is there a media pipeline?
    adaptive_source, \* has the timer been installed (adaptive_source_id)?
    stats_request_in_flight,
    asked,           \* requests webrtcbin has not answered: of this pipeline, of an older one
    samples,         \* posted to the main loop and not applied yet
    health_changed,  \* do the warning and error counters differ from those last seen?
    recovering,
    connected,       \* signaling.connected
    peer_ready,
    network,         \* what a report says now
    nack_count,      \* counted by the present webrtcbin
    pli_count,
    faults,
    calm             \* auxiliary: known, uncongested samples in a row without a raise

controller == <<good_samples, last_nack_count, last_pli_count, calm>>
requests == <<stats_request_in_flight, asked, samples>>
health == <<health_changed, recovering>>
session == <<connected, peer_ready>>
path == <<network, nack_count, pli_count>>
vars == <<current, controller, encoders, pipeline, adaptive_source, requests, health,
          session, path, faults>>

TypeOK ==
    /\ current \in Nat
    /\ good_samples \in Nat /\ calm \in Nat
    /\ last_nack_count \in 0..MaxEvents /\ last_pli_count \in 0..MaxEvents
    /\ encoders \in [Tracks -> Nat]
    /\ pipeline \in BOOLEAN /\ adaptive_source \in BOOLEAN
    /\ stats_request_in_flight \in BOOLEAN
    /\ asked \in [{"now", "before"} -> Nat]
    /\ samples \in Seq(Samples \cup {NoSample})
    /\ health_changed \in BOOLEAN /\ recovering \in BOOLEAN
    /\ connected \in BOOLEAN /\ peer_ready \in BOOLEAN
    /\ network \in Reports
    /\ nack_count \in 0..MaxEvents /\ pli_count \in 0..MaxEvents
    /\ faults \in 0..MaxFaults

NoEncoder == [t \in Tracks |-> 0]

Init ==
    /\ current = StartKbit
    /\ good_samples = 0 /\ last_nack_count = 0 /\ last_pli_count = 0 /\ calm = 0
    /\ encoders = NoEncoder
    /\ pipeline = FALSE /\ adaptive_source = FALSE
    /\ stats_request_in_flight = FALSE
    /\ asked = [when \in {"now", "before"} |-> 0]
    /\ samples = <<>>
    /\ health_changed = FALSE /\ recovering = FALSE
    /\ connected = FALSE /\ peer_ready = FALSE
    /\ network \in Reports
    /\ nack_count = 0 /\ pli_count = 0
    /\ faults = 0

-----------------------------------------------------------------------------
(* webrtc_stats.py: a report and what the controller makes of it. *)

AtLeast(low, n) == IF n < low THEN low ELSE n
AtMost(high, n) == IF n > high THEN high ELSE n

(* extract_network_sample: the worst known value of any track. *)
Worst(values) == CHOOSE n \in values : \A other \in values : other <= n

NetworkSample(report, nacks, plis) ==
    [loss |-> Worst({report[t].loss : t \in Tracks}),
     rtt |-> Worst({report[t].rtt : t \in Tracks}),
     nack_count |-> nacks, pli_count |-> plis]

(* An expired promise has no reply: nothing is known and every count is 0. *)
EmptySample == [loss |-> Unknown, rtt |-> Unknown, nack_count |-> 0, pli_count |-> 0]

Known(sample) == sample.loss # Unknown \/ sample.rtt # Unknown

(* Counters that went backwards, as those of a new webrtcbin do, count as     *)
(* unchanged.                                                                *)
NackDelta(sample) == AtLeast(0, sample.nack_count - last_nack_count)
PliDelta(sample) == AtLeast(0, sample.pli_count - last_pli_count)

Bad(sample) ==
    \/ sample.loss = 2
    \/ sample.rtt = 2
    \/ PliDelta(sample) > 0
    \/ NackDelta(sample) >= NackBurst

MutantGood(sample) ==
    /\ sample.loss <= 0 /\ sample.rtt <= 0
    /\ NackDelta(sample) = 0 /\ PliDelta(sample) = 0

Good(sample) ==
    /\ Known(sample)
    /\ sample.loss <= 0 /\ sample.rtt <= 0
    /\ NackDelta(sample) = 0 /\ PliDelta(sample) = 0

Congested(sample) == Bad(sample)
Healthy(sample) == ~Bad(sample) /\ Good(sample) /\ good_samples + 1 >= GoodSamplesRequired

(* What the properties call a calm sample: something is known, nothing that is *)
(* known is above its good threshold, no counter grew since the last sample. *)
Calm(sample) ==
    /\ sample.loss \in {Unknown, 0} /\ sample.rtt \in {Unknown, 0}
    /\ sample.loss = 0 \/ sample.rtt = 0
    /\ sample.nack_count <= last_nack_count /\ sample.pli_count <= last_pli_count

(* BitrateController.target.  The controller keeps its own bounds: those of  *)
(* the session, at least 1.                                                  *)
Clamped == AtLeast(AtLeast(1, MinKbit), AtMost(MaxKbit, current))

Target(sample) ==
    CASE Congested(sample) -> AtLeast(AtLeast(1, MinKbit), Clamped - Step)
      [] Healthy(sample) -> AtMost(MaxKbit, Clamped + Step)
      [] OTHER -> Clamped

Remember(sample) ==
    /\ last_nack_count' = sample.nack_count
    /\ last_pli_count' = sample.pli_count
    /\ good_samples' = IF Good(sample) /\ ~Bad(sample) /\ ~Healthy(sample)
                       THEN good_samples + 1 ELSE 0

-----------------------------------------------------------------------------
(* The encoders. *)

(* round(): to the nearest, ties to the even number. *)
Rounded(n, d) ==
    LET whole == n \div d  rest == n % d
    IN IF 2 * rest < d THEN whole
       ELSE IF 2 * rest > d THEN whole + 1
       ELSE whole + (whole % 2)

Share(t, kbit) ==
    AtLeast(min_bitrate_kbit[t],
            AtMost(max_bitrate_kbit[t], Rounded(kbit * bitrate_kbit[t], StartKbit)))

Shares(kbit) == [t \in Tracks |-> Share(t, kbit)]

(* _set_encoder_bitrate *)
SetEncoderBitrate(kbit) ==
    LET within == AtLeast(MinKbit, AtMost(MaxKbit, kbit))
    IN /\ current' = within
       /\ encoders' = IF pipeline THEN Shares(within) ELSE encoders

(* _adaptive_downshift; a rate at the minimum stays, and so do the encoders. *)
Downshift ==
    LET next == AtLeast(MinKbit, current - Step)
    IN IF next < current THEN SetEncoderBitrate(next)
                         ELSE UNCHANGED <<current, encoders>>

-----------------------------------------------------------------------------
(* The media pipeline. *)

Fault == faults < MaxFaults /\ faults' = faults + 1

(* _stop_media_pipeline: no request is in flight any more, but one the old    *)
(* webrtcbin has not answered can still be answered.                         *)
MutantForgetRequests ==
    /\ UNCHANGED stats_request_in_flight
    /\ asked' = [asked EXCEPT !["before"] = @ + asked["now"], !["now"] = 0]

ForgetRequests ==
    /\ stats_request_in_flight' = FALSE
    /\ asked' = [asked EXCEPT !["before"] = @ + asked["now"], !["now"] = 0]

StopMediaPipeline ==
    /\ pipeline' = FALSE
    /\ encoders' = NoEncoder
    /\ ForgetRequests
    /\ UNCHANGED <<current, nack_count, pli_count>>

MutantStartPipeline ==
    /\ pipeline' = TRUE
    /\ current' = AtLeast(MinKbit, AtMost(MaxKbit, current))
    /\ encoders' = Shares(StartKbit)
    /\ nack_count' = 0 /\ pli_count' = 0

(* _build_pipeline gives the new encoders the rate the session has reached.  *)
StartPipeline ==
    /\ pipeline' = TRUE
    /\ current' = AtLeast(MinKbit, AtMost(MaxKbit, current))
    /\ encoders' = Shares(AtLeast(MinKbit, AtMost(MaxKbit, current)))
    /\ nack_count' = 0 /\ pli_count' = 0

Keep == UNCHANGED <<pipeline, current, encoders, nack_count, pli_count,
                    stats_request_in_flight, asked>>

(* _start_relay_media_session of a connected robot with a machine. *)
StartRelayMediaSession ==
    /\ adaptive_source' = TRUE
    /\ IF pipeline THEN Keep
       ELSE StartPipeline /\ UNCHANGED <<stats_request_in_flight, asked>>

(* The relay accepts the connection, and says whether the machine is there.   *)
Registered ==
    /\ ~connected
    /\ connected' = TRUE
    /\ peer_ready' \in BOOLEAN
    /\ IF peer_ready' THEN StartRelayMediaSession ELSE Keep /\ UNCHANGED adaptive_source
    /\ UNCHANGED <<controller, samples, health, network, faults>>

(* peer-ready: a session that runs is rebuilt. *)
PeerReady ==
    /\ Fault
    /\ connected
    /\ peer_ready' = TRUE
    /\ adaptive_source' = TRUE
    /\ StartPipeline
    /\ IF pipeline THEN ForgetRequests ELSE UNCHANGED <<stats_request_in_flight, asked>>
    /\ UNCHANGED <<controller, samples, health, connected, network>>

PeerLeft ==
    /\ Fault
    /\ connected
    /\ peer_ready' = FALSE
    /\ StopMediaPipeline
    /\ UNCHANGED <<controller, adaptive_source, samples, health, connected, network>>

(* The media session outlives the signalling connection. *)
Disconnected ==
    /\ Fault
    /\ connected
    /\ connected' = FALSE
    /\ UNCHANGED <<current, controller, encoders, pipeline, adaptive_source, requests, health,
                   peer_ready, path>>

(* _on_bus_message *)
BusWarning ==
    /\ Fault
    /\ pipeline
    /\ health_changed' = TRUE
    /\ Downshift
    /\ UNCHANGED <<controller, pipeline, adaptive_source, requests, recovering, session, path>>

BusError ==
    /\ Fault
    /\ pipeline
    /\ health_changed' = TRUE
    /\ recovering' = TRUE
    /\ Downshift
    /\ UNCHANGED <<controller, pipeline, adaptive_source, requests, session, path>>

(* _recover_pipeline, on its timer.  A machine that left meanwhile leaves the *)
(* robot without a pipeline.                                                 *)
RecoverPipeline ==
    /\ recovering
    /\ recovering' = FALSE
    /\ IF peer_ready THEN StartPipeline /\ ForgetRequests ELSE StopMediaPipeline
    /\ UNCHANGED <<controller, adaptive_source, samples, health_changed, session, network,
                   faults>>

(* The new pipeline cannot be built: another attempt follows in five seconds. *)
RecoveryFails ==
    /\ Fault
    /\ recovering /\ peer_ready
    /\ StopMediaPipeline
    /\ UNCHANGED <<controller, adaptive_source, samples, health, session, network>>

-----------------------------------------------------------------------------
(* Statistics. *)

(* _adaptive_bitrate_check, on its timer: with a warning or an error since    *)
(* the last check, or during a recovery, it reduces the rate again.          *)
CheckHealth ==
    /\ adaptive_source /\ pipeline
    /\ health_changed \/ recovering
    /\ health_changed' = FALSE
    /\ Downshift
    /\ UNCHANGED <<controller, pipeline, adaptive_source, requests, recovering, session,
                   path, faults>>

Ask ==
    /\ adaptive_source /\ pipeline /\ ~health_changed /\ ~recovering
    /\ connected
    /\ ~stats_request_in_flight
    /\ stats_request_in_flight' = TRUE
    /\ asked' = [asked EXCEPT !["now"] = @ + 1]
    /\ UNCHANGED <<current, controller, encoders, pipeline, adaptive_source, samples, health,
                   session, path, faults>>

(* _on_stats_ready, on webrtcbin's thread. *)
Post(sample) ==
    /\ samples' = Append(samples, sample)
    /\ UNCHANGED <<current, controller, encoders, pipeline, adaptive_source,
                   stats_request_in_flight, health, session, path, faults>>

StatsReady ==
    /\ asked["now"] > 0
    /\ asked' = [asked EXCEPT !["now"] = @ - 1]
    /\ Post(NetworkSample(network, nack_count, pli_count))

(* The report cannot be read. *)
StatsUnavailable ==
    /\ asked["now"] > 0
    /\ faults < MaxFaults /\ faults' = faults + 1
    /\ asked' = [asked EXCEPT !["now"] = @ - 1]
    /\ samples' = Append(samples, NoSample)
    /\ UNCHANGED <<current, controller, encoders, pipeline, adaptive_source,
                   stats_request_in_flight, health, session, path>>

(* The request of a pipeline that is gone expires without a reply. *)
StatsExpire ==
    /\ asked["before"] > 0
    /\ asked' = [asked EXCEPT !["before"] = @ - 1]
    /\ Post(EmptySample)

(* _apply_network_sample, on the main loop: whatever pipeline the sample is   *)
(* from, it ends the request in flight and feeds the controller.             *)
ApplyNetworkSample ==
    /\ samples # <<>>
    /\ samples' = Tail(samples)
    /\ stats_request_in_flight' = FALSE
    /\ LET sample == Head(samples)
       IN IF sample = NoSample
          THEN UNCHANGED <<current, encoders, controller>>
          ELSE /\ Remember(sample)
               /\ calm' = IF Calm(sample) /\ Target(sample) <= current
                          THEN AtMost(GoodSamplesRequired, calm + 1) ELSE 0
               /\ IF Target(sample) # current THEN SetEncoderBitrate(Target(sample))
                                              ELSE UNCHANGED <<current, encoders>>
    /\ UNCHANGED <<pipeline, adaptive_source, asked, health, session, path, faults>>

-----------------------------------------------------------------------------
(* The network. *)

NetworkChanges ==
    /\ network' \in Reports
    /\ UNCHANGED <<current, controller, encoders, pipeline, adaptive_source, requests, health,
                   session, nack_count, pli_count, faults>>

Retransmission ==
    /\ pipeline
    /\ nack_count + pli_count < MaxEvents
    /\ \/ nack_count' = nack_count + 1 /\ UNCHANGED pli_count
       \/ pli_count' = pli_count + 1 /\ UNCHANGED nack_count
    /\ UNCHANGED <<current, controller, encoders, pipeline, adaptive_source, requests, health,
                   session, network, faults>>

Media == Registered \/ PeerReady \/ PeerLeft \/ Disconnected \/ BusWarning \/ BusError
             \/ RecoverPipeline \/ RecoveryFails

Statistics == CheckHealth \/ Ask \/ StatsReady \/ StatsUnavailable \/ StatsExpire
                  \/ ApplyNetworkSample

Next == Media \/ Statistics \/ NetworkChanges \/ Retransmission

Spec == Init /\ [][Next]_vars

(* The timer fires, webrtcbin answers the requests it has, and the main loop   *)
(* takes what was posted to it; a recovery may fail for ever, and requests of   *)
(* a pipeline that is gone need not be answered.                               *)
Fairness ==
    /\ WF_vars(CheckHealth \/ Ask)
    /\ WF_vars(StatsReady)
    /\ WF_vars(ApplyNetworkSample)

FairSpec == Spec /\ Fairness

-----------------------------------------------------------------------------
(* Every encoder runs at its track's share of the session's rate, within the  *)
(* bounds of its track and of the session, whatever rebuilt the pipeline or    *)
(* changed the rate.                                                          *)
SharesFollowSession ==
    /\ MinKbit <= current /\ current <= MaxKbit
    /\ IF pipeline
       THEN \A t \in Tracks : /\ encoders[t] = Share(t, current)
                              /\ min_bitrate_kbit[t] <= encoders[t]
                              /\ encoders[t] <= max_bitrate_kbit[t]
       ELSE encoders = NoEncoder

(* "Unknown network health never increases bitrate": a raise is one step, and *)
(* the last of GoodSamplesRequired calm samples in a row with no raise among   *)
(* them; no rebuild, recovery or late sample raises the rate otherwise.        *)
RaiseIsEarned ==
    [][current' > current => /\ current' <= current + Step
                             /\ samples # <<>> /\ Head(samples) # NoSample
                             /\ Calm(Head(samples))
                             /\ calm + 1 >= GoodSamplesRequired]_vars

Loss(report) == \E t \in Tracks : report[t].loss = 2 \/ report[t].rtt = 2

(* A session that runs on a network that stays congested comes down to its     *)
(* minimum and stays there: no teardown, recovery, failed or late answer       *)
(* leaves a request in flight for ever.                                        *)
CongestionReachesMinimum ==
    <>[](pipeline /\ connected /\ Loss(network)) => <>[](current = MinKbit)

=============================================================================
