------------------------ MODULE RobotControlProofs --------------------------
(***************************************************************************)
(* What RobotControl guarantees for any set of control sessions and any    *)
(* number of commands.  The inductive invariant has one part per thread:   *)
(* EstopInv says what the webrtcbin thread may still publish while the     *)
(* stop is latched, WatchdogInv what it may still publish at each step of  *)
(* a watchdog check, StopSeqInv relates the gate to the stops it handled.  *)
(***************************************************************************)
EXTENDS RobotControl, TLAPS

EstopInv ==
    estop_latched =>
        /\ outgoing # "move"
        /\ outgoing = "none" => velocity = "zero"

WatchdogInv ==
    ~overlap =>
        /\ main = "watchdogZero" => outgoing # "move"
        /\ main = "watchdogTrip" => outgoing # "move" /\ velocity = "zero"
        /\ watchdog_tripped => outgoing # "move" /\ velocity = "zero"

StopSeqInv == \A s \in Sessions : stop_seq[s] <= last_seq[s]

IInv == TypeOK /\ EstopInv /\ WatchdogInv /\ StopSeqInv

-----------------------------------------------------------------------------
(* The commands that an operator sends are of the declared form.            *)
LEMMA SendType ==
    ASSUME TypeOK,
           NEW s \in Sessions, NEW kind \in Kinds, NEW speed \in Velocities,
           Send(s, kind, speed)
    PROVE  TypeOK'
<1> USE ControlAssumption
<1>1. sent[s] + 1 \in 1..MaxSeq
  BY DEF TypeOK, Send
<1>2. [kind |-> kind, session |-> s, seq |-> sent[s] + 1, speed |-> speed] \in Command
  BY <1>1 DEF Command
<1>3. channel' \subseteq Command
  BY <1>2 DEF TypeOK, Send
<1>4. sent' \in [Sessions -> 0..MaxSeq]
  BY <1>1 DEF TypeOK, Send
<1>5. QED
  BY <1>3, <1>4 DEF TypeOK, Send, gateVars, timerVars, mediaVars

(* Handling a command keeps the types: the gate stores a number of the      *)
(* command it accepted.                                                     *)
LEMMA ControlMessageType ==
    ASSUME TypeOK, NEW m \in channel, ControlMessage(m)
    PROVE  TypeOK'
<1>1. m \in Command /\ m.session \in Sessions /\ m.seq \in 0..MaxSeq /\ m.speed \in Velocities
  BY ControlAssumption DEF TypeOK, Command
<1>2. CASE RejectOutOfOrder(m)
  BY <1>2 DEF TypeOK, RejectOutOfOrder, Receives, timerVars, gateVars, mediaVars
<1>3. ASSUME GateAccepts(m)
      PROVE  channel' \subseteq Command /\ last_seq' \in [Sessions -> 0..MaxSeq]
  BY <1>1, <1>3 DEF TypeOK, GateAccepts, Receives
<1>4. CASE Estop(m)
  BY <1>1, <1>3, <1>4 DEF TypeOK, Estop, timerVars, mediaVars, Velocities
<1>5. CASE EstopClear(m)
  BY <1>1, <1>3, <1>5 DEF TypeOK, EstopClear, timerVars, mediaVars, Velocities
<1>6. CASE Discard(m)
  BY <1>1, <1>3, <1>6 DEF TypeOK, Discard, timerVars, mediaVars
<1>7. CASE Admit(m)
  <2>1. overlap' \in BOOLEAN
    BY <1>7 DEF Admit
  <2>2. QED
    BY <1>1, <1>3, <1>7, <2>1 DEF TypeOK, Admit, Rearm, mediaVars, Velocities
<1>8. QED
  BY <1>2, <1>4, <1>5, <1>6, <1>7 DEF ControlMessage

LEMMA TypeStep == TypeOK /\ [Next]_vars => TypeOK'
<1> SUFFICES ASSUME TypeOK, [Next]_vars PROVE TypeOK'
  OBVIOUS
<1> USE DEF commandVars, gateVars, timerVars, mediaVars
<1>1. CASE UNCHANGED vars
  BY <1>1 DEF TypeOK, vars
<1>2. ASSUME NEW s \in Sessions, NEW kind \in Kinds, NEW speed \in Velocities, Send(s, kind, speed)
      PROVE  TypeOK'
  BY <1>2, SendType
<1>3. ASSUME NEW m \in channel, Drop(m)
      PROVE  TypeOK'
  BY <1>3 DEF TypeOK, Drop
<1>4. ASSUME NEW m \in channel, ControlMessage(m)
      PROVE  TypeOK'
  BY <1>4, ControlMessageType
<1>5. CASE Publish
  BY <1>5 DEF TypeOK, Publish, Velocities
<1>6. CASE ChannelOpen
  BY <1>6 DEF TypeOK, ChannelOpen, Velocities
<1>7. CASE ChannelClose
  BY <1>7 DEF TypeOK, ChannelClose, Velocities
<1>8. CASE ChannelError
  BY <1>8 DEF TypeOK, ChannelError, Velocities
<1>9. CASE CommandExpires
  BY <1>9 DEF TypeOK, CommandExpires
<1>10. CASE RateWindowElapses
  BY <1>10 DEF TypeOK, RateWindowElapses
<1>11. CASE Watchdog
  <2>1. CASE WatchdogDecides
    <3>1. overlap' \in BOOLEAN
      BY <2>1 DEF WatchdogDecides
    <3>2. main' \in MainSteps
      BY <2>1 DEF WatchdogDecides, MainSteps
    <3>3. UNCHANGED <<channel, sent, last_seq, estop_latched, age, rate_open, watchdog_tripped,
                      outgoing, channel_open, peer_ready, pipeline, recovering, velocity, stop_seq>>
      BY <2>1 DEF WatchdogDecides
    <3>4. QED
      BY <3>1, <3>2, <3>3 DEF TypeOK
  <2>2. CASE WatchdogZero
    BY <2>2 DEF TypeOK, WatchdogZero, MainSteps, Velocities
  <2>3. CASE WatchdogTrips
    BY <2>3 DEF TypeOK, WatchdogTrips, MainSteps
  <2>4. QED
    BY <1>11, <2>1, <2>2, <2>3 DEF Watchdog
<1>12. CASE PeerReady
  BY <1>12 DEF TypeOK, PeerReady, PipelineGone
<1>13. CASE PeerLeft
  BY <1>13 DEF TypeOK, PeerLeft, MainSteps, Velocities
<1>14. CASE Teardown
  BY <1>14 DEF TypeOK, Teardown, PipelineGone, MainSteps
<1>15. CASE BusError
  BY <1>15 DEF TypeOK, BusError, Velocities
<1>16. CASE RecoverPipeline
  BY <1>16 DEF TypeOK, RecoverPipeline, PipelineGone
<1>17. CASE Stop
  BY <1>17 DEF TypeOK, Stop, MainSteps, Velocities
<1>18. CASE StopTeardown
  BY <1>18 DEF TypeOK, StopTeardown, PipelineGone, MainSteps
<1>19. CASE Registered
  BY <1>19 DEF TypeOK, Registered, StartRelayMediaSession
<1>20. CASE SignalingConnected
  BY <1>20 DEF TypeOK, SignalingConnected, StartRelayMediaSession
<1>21. QED
  BY <1>1, <1>2, <1>3, <1>4, <1>5, <1>6, <1>7, <1>8, <1>9, <1>10, <1>11, <1>12, <1>13,
     <1>14, <1>15, <1>16, <1>17, <1>18, <1>19, <1>20 DEF Next

-----------------------------------------------------------------------------
(* One step per handler that writes a variable of EstopInv or WatchdogInv;   *)
(* the other actions leave those variables alone.                            *)
LEMMA SafetyStep == IInv /\ [Next]_vars => EstopInv' /\ WatchdogInv'
<1> SUFFICES ASSUME IInv, [Next]_vars PROVE EstopInv' /\ WatchdogInv'
  OBVIOUS
<1> USE DEF IInv, TypeOK, EstopInv, WatchdogInv, commandVars, gateVars, timerVars, mediaVars
<1>1. CASE UNCHANGED vars
  BY <1>1 DEF vars
<1>2. ASSUME NEW s \in Sessions, NEW kind \in Kinds, NEW speed \in Velocities, Send(s, kind, speed)
      PROVE  EstopInv' /\ WatchdogInv'
  BY <1>2 DEF Send
<1>3. ASSUME NEW m \in channel, Drop(m)
      PROVE  EstopInv' /\ WatchdogInv'
  BY <1>3 DEF Drop
<1>4. ASSUME NEW m \in channel, ControlMessage(m)
      PROVE  EstopInv' /\ WatchdogInv'
  <2>1. CASE RejectOutOfOrder(m)
    BY <2>1 DEF RejectOutOfOrder
  <2>2. CASE Estop(m)
    BY <2>2 DEF Estop
  <2>3. CASE EstopClear(m)
    BY <2>3 DEF EstopClear
  <2>4. CASE Discard(m)
    BY <2>4 DEF Discard
  <2>5. CASE Admit(m)
    \* the latch is open, and either no check is under way or overlap is set
    BY <2>5 DEF Admit, Blocked, Rearm
  <2>6. QED
    BY <1>4, <2>1, <2>2, <2>3, <2>4, <2>5 DEF ControlMessage
<1>5. CASE Publish
  BY <1>5 DEF Publish, Velocities
<1>6. CASE ChannelOpen
  BY <1>6 DEF ChannelOpen
<1>7. CASE ChannelClose
  BY <1>7 DEF ChannelClose
<1>8. CASE ChannelError
  BY <1>8 DEF ChannelError
<1>9. CASE CommandExpires
  BY <1>9 DEF CommandExpires
<1>10. CASE RateWindowElapses
  BY <1>10 DEF RateWindowElapses
<1>11. CASE Watchdog
  <2>1. CASE WatchdogDecides
    BY <2>1 DEF WatchdogDecides
  <2>2. CASE WatchdogZero
    BY <2>2 DEF WatchdogZero
  <2>3. CASE WatchdogTrips
    BY <2>3 DEF WatchdogTrips
  <2>4. QED
    BY <1>11, <2>1, <2>2, <2>3 DEF Watchdog
<1>12. CASE PeerReady
  BY <1>12 DEF PeerReady
<1>13. CASE PeerLeft
  BY <1>13 DEF PeerLeft
<1>14. CASE Teardown
  BY <1>14 DEF Teardown
<1>15. CASE BusError
  BY <1>15 DEF BusError
<1>16. CASE RecoverPipeline
  BY <1>16 DEF RecoverPipeline
<1>17. CASE Stop
  BY <1>17 DEF Stop
<1>18. CASE StopTeardown
  BY <1>18 DEF StopTeardown
<1>19. CASE Registered
  BY <1>19 DEF Registered
<1>20. CASE SignalingConnected
  BY <1>20 DEF SignalingConnected
<1>21. QED
  BY <1>1, <1>2, <1>3, <1>4, <1>5, <1>6, <1>7, <1>8, <1>9, <1>10, <1>11, <1>12, <1>13,
     <1>14, <1>15, <1>16, <1>17, <1>18, <1>19, <1>20 DEF Next

(* Only the gate writes last_seq, and only Estop writes stop_seq.            *)
LEMMA StopSeqStep == IInv /\ [Next]_vars => StopSeqInv'
<1> SUFFICES ASSUME IInv, [Next]_vars PROVE StopSeqInv'
  OBVIOUS
<1> USE DEF IInv, StopSeqInv
<1>1. ASSUME NEW m \in channel, ControlMessage(m)
      PROVE  StopSeqInv'
  <2>1. m.session \in Sessions /\ m.seq \in Nat
    BY ControlAssumption DEF TypeOK, Command
  <2>2. ASSUME GateAccepts(m)
        PROVE  /\ last_seq'[m.session] = m.seq
               /\ m.seq > last_seq[m.session]
               /\ \A s \in Sessions \ {m.session} : last_seq'[s] = last_seq[s]
    BY <2>1, <2>2 DEF GateAccepts, Receives, InOrder, TypeOK
  <2>3. CASE RejectOutOfOrder(m)
    BY <2>3 DEF RejectOutOfOrder, gateVars
  <2>4. CASE Estop(m)
    BY <2>1, <2>2, <2>4 DEF Estop, TypeOK
  <2>5. CASE EstopClear(m)
    BY <2>1, <2>2, <2>5, ControlAssumption DEF EstopClear, TypeOK
  <2>6. CASE Discard(m)
    BY <2>1, <2>2, <2>6, ControlAssumption DEF Discard, TypeOK
  <2>7. CASE Admit(m)
    BY <2>1, <2>2, <2>7, ControlAssumption DEF Admit, TypeOK
  <2>8. QED
    BY <1>1, <2>3, <2>4, <2>5, <2>6, <2>7 DEF ControlMessage
<1>2. CASE UNCHANGED <<last_seq, stop_seq>>
  BY <1>2
<1>3. QED
  BY <1>1, <1>2 DEF Next, vars, commandVars, gateVars, timerVars, mediaVars, Send, Drop, Publish,
     ChannelOpen, ChannelClose, ChannelError, CommandExpires, RateWindowElapses, Watchdog,
     WatchdogDecides, WatchdogZero, WatchdogTrips, Registered,
     SignalingConnected, PeerReady, PeerLeft, Teardown, BusError,
     RecoverPipeline, Stop, StopTeardown

(* The inductive invariant holds in every reachable state of the robot.      *)
THEOREM Invariance == Spec => []IInv
<1>1. Init => IInv
  <2> SUFFICES ASSUME Init PROVE IInv
    OBVIOUS
  <2>1. TypeOK
    <3>1. 0 \in 0..MaxSeq
      BY ControlAssumption
    <3>2. [s \in Sessions |-> 0] \in [Sessions -> 0..MaxSeq]
      BY <3>1
    <3>3. QED
      BY <3>2 DEF Init, TypeOK, Velocities, MainSteps
  <2>2. EstopInv /\ WatchdogInv /\ StopSeqInv
    BY DEF Init, EstopInv, WatchdogInv, StopSeqInv
  <2>3. QED
    BY <2>1, <2>2 DEF IInv
<1>2. IInv /\ [Next]_vars => IInv'
  BY TypeStep, SafetyStep, StopSeqStep DEF IInv
<1>3. QED
  BY <1>1, <1>2, PTL DEF Spec

-----------------------------------------------------------------------------
(* Every variable of the command path keeps its type.                        *)
THEOREM TypeCorrect == Spec => []TypeOK
<1>1. IInv => TypeOK
  BY DEF IInv
<1>2. QED
  BY <1>1, Invariance, PTL

(* A latched emergency stop keeps the robot stopped, for any number of       *)
(* operators and commands and any interleaving of the two threads.           *)
THEOREM EstopSafety == Spec => []EstopHolds
<1>1. IInv => EstopHolds
  BY DEF IInv, EstopInv, EstopHolds
<1>2. QED
  BY <1>1, Invariance, PTL

(* A tripped watchdog means zero velocity, unless the command's callback     *)
(* overlapped the check.                                                     *)
THEOREM WatchdogSafety == Spec => []TrippedMeansStopped
<1>1. IInv => TrippedMeansStopped
  BY DEF IInv, WatchdogInv, TrippedMeansStopped
<1>2. QED
  BY <1>1, Invariance, PTL

(* No velocity command sent before a handled emergency stop is admitted      *)
(* after it.                                                                 *)
THEOREM EstopFinality == Spec => EstopIsFinal
<1>1. IInv /\ [Next]_vars => [\A m \in channel : Admit(m) => m.seq > stop_seq[m.session]]_vars
  <2> SUFFICES ASSUME IInv, NEW m \in channel, Admit(m)
               PROVE  m.seq > stop_seq[m.session]
    OBVIOUS
  <2>1. m.session \in Sessions /\ m.seq \in Nat
    BY ControlAssumption DEF IInv, TypeOK, Command
  <2>2. m.seq > last_seq[m.session]
    BY DEF Admit, GateAccepts, InOrder
  <2>3. stop_seq[m.session] <= last_seq[m.session]
    BY <2>1 DEF IInv, StopSeqInv
  <2>4. QED
    BY <2>1, <2>2, <2>3, ControlAssumption DEF IInv, TypeOK
<1>2. QED
  BY <1>1, Invariance, PTL DEF Spec, EstopIsFinal
=============================================================================
