------------------------- MODULE AdaptiveBitrateProofs -------------------------
(***************************************************************************)
(* For any tracks, rates and bounds that load_streams accepts, any step    *)
(* and any reports: the encoders follow the session's rate within every    *)
(* bound, and only calm samples in a row raise it.                         *)
(***************************************************************************)
EXTENDS AdaptiveBitrate, TLAPS

(* Rounding two rates gives a number. *)
LEMMA RoundedType ==
    ASSUME NEW n \in Nat, NEW d \in Kbit
    PROVE  Rounded(n, d) \in Int
<1>1. n \div d \in Int /\ n % d \in Int
    BY DEF Kbit
<1>2. (n \div d) % 2 \in Int
    BY <1>1
<1>. QED
    BY <1>1, <1>2 DEF Rounded, Kbit

(* Whatever the session's rate, a track's share is within the track's bounds. *)
LEMMA ShareBounds ==
    ASSUME NEW t \in Tracks, NEW kbit \in Nat
    PROVE  /\ Share(t, kbit) \in Nat
           /\ min_bitrate_kbit[t] <= Share(t, kbit)
           /\ Share(t, kbit) <= max_bitrate_kbit[t]
<1>1. /\ bitrate_kbit[t] \in Kbit /\ min_bitrate_kbit[t] \in Kbit
      /\ max_bitrate_kbit[t] \in Kbit
      /\ min_bitrate_kbit[t] <= max_bitrate_kbit[t]
      /\ StartKbit \in Kbit
    BY BitrateAssumption DEF Kbit
<1>2. kbit * bitrate_kbit[t] \in Nat
    BY <1>1 DEF Kbit
<1>3. Rounded(kbit * bitrate_kbit[t], StartKbit) \in Int
    BY <1>1, <1>2, RoundedType
<1>. QED
    BY <1>1, <1>3 DEF Share, AtLeast, AtMost, Kbit

(* Clamping to the session's bounds. *)
LEMMA ClampBounds ==
    ASSUME NEW kbit \in Int
    PROVE  /\ AtLeast(MinKbit, AtMost(MaxKbit, kbit)) \in Nat
           /\ MinKbit <= AtLeast(MinKbit, AtMost(MaxKbit, kbit))
           /\ AtLeast(MinKbit, AtMost(MaxKbit, kbit)) <= MaxKbit
           /\ MinKbit <= kbit /\ kbit <= MaxKbit => AtLeast(MinKbit, AtMost(MaxKbit, kbit)) = kbit
BY BitrateAssumption DEF AtLeast, AtMost, Kbit

(* The rate the session runs at, and the encoders' shares of it. *)
Rate == SharesFollowSession /\ current \in Nat /\ encoders \in [Tracks -> Nat]

(* The shares of a rate are rates. *)
LEMMA SharesType ==
    ASSUME NEW kbit \in Nat
    PROVE  Shares(kbit) \in [Tracks -> Nat]
<1>1. \A t \in Tracks : Share(t, kbit) \in Nat
    BY ShareBounds
<1>. QED BY <1>1 DEF Shares

(* A change of the rate takes the encoders with it. *)
LEMMA SetEncoderBitrateRate ==
    ASSUME NEW kbit \in Int, SetEncoderBitrate(kbit), UNCHANGED pipeline, Rate
    PROVE  Rate'
<1>. DEFINE within == AtLeast(MinKbit, AtMost(MaxKbit, kbit))
<1>1. within \in Nat /\ MinKbit <= within /\ within <= MaxKbit
    BY ClampBounds
<1>2. current' = within /\ encoders' = IF pipeline THEN Shares(within) ELSE encoders
    BY DEF SetEncoderBitrate
<1>. HIDE DEF within
<1>3. \A t \in Tracks : /\ Shares(within)[t] = Share(t, within)
                        /\ min_bitrate_kbit[t] <= Share(t, within)
                        /\ Share(t, within) <= max_bitrate_kbit[t]
    BY <1>1, ShareBounds DEF Shares
<1>4. Shares(within) \in [Tracks -> Nat]
    BY <1>1, SharesType
<1>. QED
    BY <1>1, <1>2, <1>3, <1>4 DEF Rate, SharesFollowSession

(* So does a downshift, which never raises the rate. *)
LEMMA DownshiftRate ==
    ASSUME Downshift, UNCHANGED pipeline, Rate
    PROVE  Rate' /\ current' <= current
<1>. DEFINE next == AtLeast(MinKbit, current - Step)
<1>1. next \in Int
    BY BitrateAssumption DEF AtLeast, Kbit, Rate
<1>2. CASE next < current
  <2>1. SetEncoderBitrate(next)
      BY <1>2 DEF Downshift
  <2>2. Rate'
      BY <1>1, <2>1, SetEncoderBitrateRate
  <2>3. current' <= current
      BY <1>1, <1>2, <2>1, BitrateAssumption
         DEF SetEncoderBitrate, AtLeast, AtMost, Kbit, Rate, SharesFollowSession
  <2>. QED BY <2>2, <2>3
<1>3. CASE ~(next < current)
    BY <1>3 DEF Downshift, Rate, SharesFollowSession
<1>. QED BY <1>2, <1>3

(* A new pipeline starts at the rate the session has reached. *)
LEMMA StartPipelineRate ==
    ASSUME StartPipeline, Rate
    PROVE  Rate' /\ current' = current
<1>1. current' = current /\ encoders' = Shares(current) /\ pipeline'
    BY ClampBounds DEF StartPipeline, Rate, SharesFollowSession
<1>2. \A t \in Tracks : /\ Shares(current)[t] = Share(t, current)
                        /\ min_bitrate_kbit[t] <= Share(t, current)
                        /\ Share(t, current) <= max_bitrate_kbit[t]
    BY ShareBounds DEF Shares, Rate
<1>3. Shares(current) \in [Tracks -> Nat]
    BY SharesType DEF Rate
<1>. QED
    BY <1>1, <1>2, <1>3 DEF Rate, SharesFollowSession

(* Without a pipeline no encoder has a rate. *)
LEMMA StopPipelineRate ==
    ASSUME StopMediaPipeline, Rate
    PROVE  Rate' /\ current' = current
BY DEF StopMediaPipeline, Rate, SharesFollowSession, NoEncoder

-----------------------------------------------------------------------------
(* The samples waiting for the main loop are samples. *)
SampleTypes ==
    /\ samples \in Seq(Samples \cup {NoSample})
    /\ network \in Reports
    /\ nack_count \in 0..MaxEvents /\ pli_count \in 0..MaxEvents
    /\ last_nack_count \in 0..MaxEvents /\ last_pli_count \in 0..MaxEvents

(* The types of the flags and of the requests. *)
Flags ==
    /\ pipeline \in BOOLEAN /\ adaptive_source \in BOOLEAN
    /\ health_changed \in BOOLEAN /\ recovering \in BOOLEAN
    /\ connected \in BOOLEAN /\ peer_ready \in BOOLEAN

FaultCount == faults \in 0..MaxFaults

Requests ==
    /\ stats_request_in_flight \in BOOLEAN
    /\ asked \in [{"now", "before"} -> Nat]

(* Every step but the application of a sample leaves the controller alone.    *)
(* The controller has seen at most as many good samples as there were calm    *)
(* ones in a row, and fewer than a raise takes.                               *)
ControllerKeepsCount ==
    /\ good_samples \in Nat /\ calm \in Nat
    /\ good_samples <= calm
    /\ good_samples < GoodSamplesRequired

IInv == Rate /\ SampleTypes /\ Flags /\ FaultCount /\ Requests /\ ControllerKeepsCount

(* The worst of several levels is a level... *)
LEMMA WorstType ==
    ASSUME NEW S, S \subseteq Levels, S # {}
    PROVE  Worst(S) \in Levels
<1>1. \E n \in S : \A other \in S : other <= n
  <2>1. CASE 2 \in S
      BY <2>1 DEF Levels, Unknown
  <2>2. CASE 2 \notin S /\ 1 \in S
      BY <2>2 DEF Levels, Unknown
  <2>3. CASE 2 \notin S /\ 1 \notin S /\ 0 \in S
      BY <2>3 DEF Levels, Unknown
  <2>4. CASE 2 \notin S /\ 1 \notin S /\ 0 \notin S
    <3>1. \A n \in S : n = Unknown
        BY <2>4 DEF Levels
    <3>2. Unknown <= Unknown
        BY DEF Unknown
    <3>. QED BY <3>1, <3>2
  <2>. QED BY <2>1, <2>2, <2>3, <2>4
<1>. QED
    BY <1>1 DEF Worst

(* ... so what is read from a report is a sample. *)
LEMMA NetworkSampleType ==
    ASSUME NEW report \in Reports, NEW n \in 0..MaxEvents, NEW p \in 0..MaxEvents
    PROVE  NetworkSample(report, n, p) \in Samples
<1>1. report \in [Tracks -> [loss : Levels, rtt : Levels]]
    BY ReportAssumption
<1>2. /\ {report[t].loss : t \in Tracks} \subseteq Levels
      /\ {report[t].rtt : t \in Tracks} \subseteq Levels
      /\ {report[t].loss : t \in Tracks} # {}
      /\ {report[t].rtt : t \in Tracks} # {}
    BY <1>1, BitrateAssumption
<1>3. /\ Worst({report[t].loss : t \in Tracks}) \in Levels
      /\ Worst({report[t].rtt : t \in Tracks}) \in Levels
    BY <1>2, WorstType
<1>. QED
    BY <1>3 DEF NetworkSample, Samples

(* What an expired request leaves is one too. *)
LEMMA EmptySampleType == EmptySample \in Samples
BY ReportAssumption DEF EmptySample, Samples, Levels, Unknown

-----------------------------------------------------------------------------
(* The invariant holds in the initial states. *)
THEOREM InitInv == Init => IInv
<1>. SUFFICES ASSUME Init PROVE IInv
    OBVIOUS
<1>1. Rate
    BY BitrateAssumption DEF Init, Rate, SharesFollowSession, NoEncoder, Kbit
<1>2. SampleTypes
    BY ReportAssumption DEF Init, SampleTypes
<1>4. Flags
    BY DEF Init, Flags
<1>6. FaultCount
    BY ReportAssumption DEF Init, FaultCount
<1>5. Requests
    BY DEF Init, Requests
<1>3. ControllerKeepsCount
    BY BitrateAssumption DEF Init, ControllerKeepsCount, Kbit
<1>. QED BY <1>1, <1>2, <1>3, <1>4, <1>5, <1>6 DEF IInv

(* What the application of a sample does to the rate and to the counts. *)
LEMMA ApplySample ==
    ASSUME IInv, ApplyNetworkSample
    PROVE  /\ IInv'
           /\ current' > current => /\ current' <= current + Step
                                   /\ samples # <<>> /\ Head(samples) # NoSample
                                   /\ Calm(Head(samples))
                                   /\ calm + 1 >= GoodSamplesRequired
<1>. DEFINE sample == Head(samples)
<1>1. samples # <<>> /\ sample \in Samples \cup {NoSample}
      /\ samples' \in Seq(Samples \cup {NoSample})
    BY DEF IInv, SampleTypes, ApplyNetworkSample
<1>2. UNCHANGED <<pipeline, network, nack_count, pli_count>>
    BY DEF ApplyNetworkSample, path
<1>3. current \in Nat /\ MinKbit <= current /\ current <= MaxKbit /\ Rate
      /\ MinKbit \in Kbit /\ MaxKbit \in Kbit /\ Step \in Kbit
      /\ GoodSamplesRequired \in Kbit
    BY BitrateAssumption DEF IInv, Rate, SharesFollowSession
<1>6. Flags' /\ FaultCount' /\ Requests'
    BY DEF IInv, Flags, FaultCount, Requests, ApplyNetworkSample, health, session, path
<1>4. CASE sample = NoSample
  <2>1. UNCHANGED <<current, encoders, controller>>
      BY <1>4 DEF ApplyNetworkSample
  <2>2. Rate'
      BY <1>2, <1>3, <2>1 DEF Rate, SharesFollowSession
  <2>3. SampleTypes' /\ ControllerKeepsCount'
      BY <1>1, <1>2, <2>1 DEF IInv, SampleTypes, ControllerKeepsCount, controller
  <2>. QED BY <1>3, <1>6, <2>1, <2>2, <2>3 DEF IInv
<1>5. CASE sample # NoSample
  <2>1. /\ Remember(sample)
        /\ calm' = IF Calm(sample) /\ Target(sample) <= current
                   THEN AtMost(GoodSamplesRequired, calm + 1) ELSE 0
        /\ IF Target(sample) # current THEN SetEncoderBitrate(Target(sample))
                                       ELSE UNCHANGED <<current, encoders>>
      BY <1>5 DEF ApplyNetworkSample
  <2>2. /\ sample.loss \in Levels /\ sample.rtt \in Levels
        /\ sample.nack_count \in 0..MaxEvents /\ sample.pli_count \in 0..MaxEvents
      BY <1>1, <1>5 DEF Samples
  <2>3. last_nack_count \in 0..MaxEvents /\ last_pli_count \in 0..MaxEvents
      BY DEF IInv, SampleTypes
  <2>4. Clamped = current
      BY <1>3 DEF Clamped, AtLeast, AtMost, Kbit
  <2>5. Target(sample) \in Int
      BY <1>3, <2>4 DEF Target, AtLeast, AtMost, Kbit
  <2>6. Rate'
    <3>1. CASE Target(sample) # current
        BY <1>2, <1>3, <2>1, <2>5, <3>1, SetEncoderBitrateRate
    <3>2. CASE Target(sample) = current
        BY <1>2, <1>3, <2>1, <3>2 DEF Rate, SharesFollowSession
    <3>. QED BY <3>1, <3>2
  <2>7. Good(sample) /\ ~Bad(sample) => Calm(sample)
    <3>. SUFFICES ASSUME Good(sample) PROVE Calm(sample)
        OBVIOUS
    <3>1. sample.loss \in {Unknown, 0} /\ sample.rtt \in {Unknown, 0}
        BY <2>2 DEF Good, Levels, Unknown
    <3>2. sample.loss = 0 \/ sample.rtt = 0
        BY <3>1 DEF Good, Known
    <3>3. sample.nack_count <= last_nack_count /\ sample.pli_count <= last_pli_count
        BY <2>2, <2>3, ReportAssumption DEF Good, NackDelta, PliDelta, AtLeast
    <3>. QED BY <3>1, <3>2, <3>3 DEF Calm
  <2>8. ControllerKeepsCount'
    <3>1. good_samples \in Nat /\ calm \in Nat /\ good_samples <= calm
          /\ good_samples < GoodSamplesRequired
        BY DEF IInv, ControllerKeepsCount
    <3>2. calm' \in Nat
        BY <1>3, <2>1, <3>1 DEF AtMost, Kbit
    <3>3. CASE Good(sample) /\ ~Bad(sample) /\ ~Healthy(sample)
      <4>1. good_samples' = good_samples + 1 /\ good_samples + 1 < GoodSamplesRequired
          BY <1>3, <2>1, <3>1, <3>3 DEF Remember, Healthy, Kbit
      <4>2. Target(sample) = current
          BY <2>4, <3>3 DEF Target, Congested
      <4>3. calm' = AtMost(GoodSamplesRequired, calm + 1)
          BY <1>3, <2>1, <2>7, <3>3, <4>2
      <4>. QED
          BY <1>3, <3>1, <3>2, <4>1, <4>3 DEF ControllerKeepsCount, AtMost, Kbit
    <3>4. CASE ~(Good(sample) /\ ~Bad(sample) /\ ~Healthy(sample))
        BY <1>3, <2>1, <3>2, <3>4 DEF ControllerKeepsCount, Remember, Kbit
    <3>. QED BY <3>3, <3>4
  <2>9. SampleTypes'
      BY <1>1, <1>2, <2>1, <2>2 DEF IInv, SampleTypes, Remember
  <2>10. ASSUME current' > current
         PROVE  /\ current' <= current + Step
                /\ Calm(sample)
                /\ calm + 1 >= GoodSamplesRequired
    <3>1. Target(sample) # current /\ SetEncoderBitrate(Target(sample))
        BY <1>3, <2>1, <2>10
    <3>2. ~Congested(sample)
      <4>. SUFFICES ASSUME Congested(sample) PROVE FALSE
          OBVIOUS
      <4>1. Target(sample) = AtLeast(AtLeast(1, MinKbit), current - Step)
          BY <2>4 DEF Target, Congested, Healthy
      <4>2. Target(sample) \in Int /\ Target(sample) <= current
          BY <1>3, <4>1 DEF AtLeast, Kbit
      <4>3. current' = AtLeast(MinKbit, AtMost(MaxKbit, Target(sample)))
          BY <3>1 DEF SetEncoderBitrate
      <4>. HIDE DEF sample
      <4>. QED BY <1>3, <2>10, <4>2, <4>3 DEF AtLeast, AtMost, Kbit
    <3>3. Healthy(sample)
        BY <2>4, <3>1, <3>2 DEF Target
    <3>4. Target(sample) = AtMost(MaxKbit, current + Step)
        BY <2>4, <3>2, <3>3 DEF Target
    <3>5. current' <= current + Step
        BY <1>3, <3>1, <3>4 DEF SetEncoderBitrate, AtLeast, AtMost, Kbit
    <3>6. calm + 1 >= GoodSamplesRequired
        BY <1>3, <3>3 DEF Healthy, IInv, ControllerKeepsCount, Kbit
    <3>. QED BY <2>7, <3>3, <3>5, <3>6 DEF Healthy
  <2>. QED BY <1>1, <1>5, <1>6, <2>6, <2>8, <2>9, <2>10 DEF IInv
<1>. QED BY <1>4, <1>5

(* Every other step keeps the controller and never raises the rate. *)
LEMMA OtherSteps ==
    ASSUME IInv, Media \/ CheckHealth \/ Ask \/ StatsReady \/ StatsUnavailable
                       \/ StatsExpire \/ NetworkChanges \/ Retransmission \/ UNCHANGED vars
    PROVE  IInv' /\ current' <= current
<1>. USE DEF IInv
<1>0. current \in Nat
    BY DEF Rate
<1>1. ControllerKeepsCount' /\ UNCHANGED <<last_nack_count, last_pli_count>>
    BY DEF ControllerKeepsCount, Media, CheckHealth, Ask, StatsReady, StatsUnavailable,
           StatsExpire, NetworkChanges, Retransmission, vars, controller, Registered, PeerReady,
           PeerLeft, Disconnected, BusWarning, BusError, RecoverPipeline, RecoveryFails, Post
<1>2. Rate' /\ current' <= current
  <2>1. CASE Registered
    <3>1. CASE Keep
        BY <1>0, <3>1 DEF Keep, Rate, SharesFollowSession
    <3>2. CASE StartPipeline
        BY <1>0, <3>2, StartPipelineRate
    <3>. QED BY <2>1, <3>1, <3>2 DEF Registered, StartRelayMediaSession
  <2>2. CASE PeerReady
      BY <1>0, <2>2, StartPipelineRate DEF PeerReady
  <2>3. CASE PeerLeft \/ RecoveryFails
      BY <1>0, <2>3, StopPipelineRate DEF PeerLeft, RecoveryFails
  <2>4. CASE RecoverPipeline
      BY <1>0, <2>4, StartPipelineRate, StopPipelineRate DEF RecoverPipeline
  <2>5. CASE BusWarning \/ BusError \/ CheckHealth
      BY <2>5, DownshiftRate DEF BusWarning, BusError, CheckHealth
  <2>6. CASE UNCHANGED <<current, encoders, pipeline>>
      BY <1>0, <2>6 DEF Rate, SharesFollowSession
  <2>7. CASE Disconnected \/ Ask \/ StatsReady \/ StatsUnavailable \/ StatsExpire
             \/ NetworkChanges \/ Retransmission \/ UNCHANGED vars
      BY <2>6, <2>7 DEF Disconnected, Ask, StatsReady, StatsUnavailable, StatsExpire,
                        NetworkChanges, Retransmission, vars, Post
  <2>. QED BY <2>1, <2>2, <2>3, <2>4, <2>5, <2>7 DEF Media
<1>3. SampleTypes'
  <2>. USE DEF SampleTypes
  <2>1. 0 \in 0..MaxEvents
      BY ReportAssumption
  <2>2. CASE StatsReady
      BY <2>2, NetworkSampleType DEF StatsReady, Post, path, controller
  <2>3. CASE StatsExpire
      BY <2>3, EmptySampleType DEF StatsExpire, Post, path, controller
  <2>4. CASE StatsUnavailable
      BY <2>4 DEF StatsUnavailable, path, controller
  <2>5. CASE Retransmission
      BY <2>5, ReportAssumption DEF Retransmission, requests, controller
  <2>6. CASE NetworkChanges
      BY <2>6 DEF NetworkChanges, requests, controller
  <2>7. CASE Media
      BY <1>1, <2>1, <2>7
         DEF Media, Registered, StartRelayMediaSession, Keep, PeerReady, PeerLeft, Disconnected,
             BusWarning, BusError, RecoverPipeline, RecoveryFails, StartPipeline,
             StopMediaPipeline, ForgetRequests, requests, controller, path
  <2>8. CASE CheckHealth \/ Ask \/ UNCHANGED vars
      BY <2>8 DEF CheckHealth, Ask, vars, requests, controller, path
  <2>. QED BY <2>2, <2>3, <2>4, <2>5, <2>6, <2>7, <2>8
<1>4. Flags'
  <2>. USE DEF Flags
  <2>1. CASE Registered
      BY <2>1 DEF Registered, StartRelayMediaSession, Keep, StartPipeline, health
  <2>2. CASE PeerReady \/ PeerLeft \/ Disconnected
      BY <2>2 DEF PeerReady, PeerLeft, Disconnected, StartPipeline, StopMediaPipeline, health
  <2>3. CASE BusWarning \/ BusError \/ RecoverPipeline \/ RecoveryFails
      BY <2>3 DEF BusWarning, BusError, RecoverPipeline, RecoveryFails, StartPipeline,
                  StopMediaPipeline, session, health
  <2>4. CASE CheckHealth \/ Ask \/ UNCHANGED vars
      BY <2>4 DEF CheckHealth, Ask, health, session, vars
  <2>5. CASE StatsReady \/ StatsUnavailable \/ StatsExpire \/ NetworkChanges \/ Retransmission
      BY <2>5 DEF StatsReady, StatsUnavailable, StatsExpire, NetworkChanges, Retransmission,
                  Post, health, session
  <2>. QED BY <2>1, <2>2, <2>3, <2>4, <2>5 DEF Media
<1>6. FaultCount'
  <2>1. CASE Fault
      BY <2>1, ReportAssumption DEF FaultCount, Fault
  <2>2. CASE UNCHANGED faults
      BY <2>2 DEF FaultCount
  <2>3. Fault \/ UNCHANGED faults
      BY DEF Media, Registered, PeerReady, PeerLeft, Disconnected, BusWarning, BusError,
             RecoverPipeline, RecoveryFails, CheckHealth, Ask, StatsReady, StatsUnavailable,
             StatsExpire, NetworkChanges, Retransmission, Post, Fault, vars
  <2>. QED BY <2>1, <2>2, <2>3
<1>5. Requests'
  <2>. USE DEF Requests
  <2>1. CASE UNCHANGED <<stats_request_in_flight, asked>>
      BY <2>1
  <2>2. CASE ForgetRequests
    <3>1. asked["before"] + asked["now"] \in Nat
        OBVIOUS
    <3>. QED BY <2>2, <3>1 DEF ForgetRequests
  <2>3. CASE Media
      BY <2>1, <2>2, <2>3
         DEF Media, Registered, StartRelayMediaSession, Keep, PeerReady, PeerLeft, Disconnected,
             BusWarning, BusError, RecoverPipeline, RecoveryFails, StopMediaPipeline, requests
  <2>4. CASE Ask \/ StatsReady \/ StatsUnavailable \/ StatsExpire
    <3>1. /\ \A when \in {"now", "before"} : asked[when] + 1 \in Nat
          /\ \A when \in {"now", "before"} : asked[when] > 0 => asked[when] - 1 \in Nat
        OBVIOUS
    <3>. QED BY <2>4, <3>1 DEF Ask, StatsReady, StatsUnavailable, StatsExpire, Post
  <2>5. CASE CheckHealth \/ NetworkChanges \/ Retransmission \/ UNCHANGED vars
      BY <2>1, <2>5 DEF CheckHealth, NetworkChanges, Retransmission, requests, vars
  <2>. QED BY <2>3, <2>4, <2>5
<1>. QED BY <1>1, <1>2, <1>3, <1>4, <1>5, <1>6

(* Every step keeps the invariant. *)
THEOREM NextInv == IInv /\ [Next]_vars => IInv'
BY ApplySample, OtherSteps DEF Next, Statistics

(* Every variable stays in its type. *)
THEOREM TypeCorrect == Spec => []TypeOK
<1>1. IInv => TypeOK
    BY DEF IInv, Rate, SampleTypes, Flags, FaultCount, Requests, ControllerKeepsCount, TypeOK
<1>. QED BY InitInv, NextInv, <1>1, PTL DEF Spec

(* The encoders follow the session's rate, within every bound. *)
THEOREM EncodersFollow == Spec => []SharesFollowSession
<1>1. IInv => SharesFollowSession
    BY DEF IInv, Rate
<1>. QED BY InitInv, NextInv, <1>1, PTL DEF Spec

(* Only enough calm samples in a row raise the session's rate, by one step.    *)
THEOREM RaisesAreEarned == Spec => RaiseIsEarned
<1>1. IInv /\ [Next]_vars =>
          [current' > current => /\ current' <= current + Step
                                 /\ samples # <<>> /\ Head(samples) # NoSample
                                 /\ Calm(Head(samples))
                                 /\ calm + 1 >= GoodSamplesRequired]_vars
  <2>. SUFFICES ASSUME IInv, [Next]_vars, current' > current
                PROVE  /\ current' <= current + Step
                       /\ samples # <<>> /\ Head(samples) # NoSample
                       /\ Calm(Head(samples))
                       /\ calm + 1 >= GoodSamplesRequired
      OBVIOUS
  <2>1. current \in Nat /\ current' \in Nat
      BY NextInv DEF IInv, Rate
  <2>2. CASE ApplyNetworkSample
      BY <2>2, ApplySample
  <2>3. CASE ~ApplyNetworkSample
      BY <2>1, <2>3, OtherSteps DEF Next, Statistics
  <2>. QED BY <2>2, <2>3
<1>. QED BY InitInv, NextInv, <1>1, PTL DEF Spec, RaiseIsEarned

=============================================================================
