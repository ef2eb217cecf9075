-------------------------- MODULE HoloLensRelayProofs --------------------------
(***************************************************************************)
(* What HoloLensRelay keeps for every set of stream threads, every size of *)
(* the control queue and any number of connections and messages; and, last, *)
(* what TeammateFrames keeps for any poses, frames and size of the history. *)
(***************************************************************************)
EXTENDS HoloLensRelay, TeammateFrames, Integers, TLAPS, NaturalsInduction, WellFoundedInduction

(***************************************************************************)
(* Types.  The parts of TypeOK are named, so that a step cites only those  *)
(* it needs; Counted is what the numbering of a connection rests on, up or *)
(* lost before it greeted.                                                 *)
(***************************************************************************)
Phases == {"top", "connecting", "connected", "greeting", "loop", "reading",
           "publishing", "getting", "waiting", "sleep", "done"}

StopTypes == /\ main \in {"spin", "stopping", "closing", "joining", "destroyed"}
             /\ closing \subseteq Threads /\ joining \subseteq Threads
ThreadTypes == thread \in [Threads -> Phases]
SocketTypes == tracked \subseteq Threads /\ alive \subseteq Threads
QueueTypes == queue \in Seq(Commands) /\ Len(queue) <= QueueSize
PutTypes == put \in [Enqueuers -> Puts]
ConnTypes == conn \in 0 .. MaxConnections
WireTypes == wire \subseteq [command : Commands, conn : 1 .. MaxConnections]
AckTypes == /\ outstanding \in Commands \cup {NoCommand}
            /\ acks \in Seq(Commands \cup {Stray}) /\ strayed \in BOOLEAN
            /\ acknowledged \subseteq {"video_profile", "voice_config"}
GuidanceTypes == guided \in 0 .. MaxGuidance /\ sent \in Seq(1 .. MaxGuidance)
LateTypes == late \in [Threads -> Nat]
Counted ==
    "control" \in alive \/ thread["control"] \in {"connected", "greeting"} => conn # 0

Types == /\ StopTypes /\ ThreadTypes /\ SocketTypes /\ QueueTypes /\ PutTypes
         /\ ConnTypes /\ WireTypes /\ AckTypes /\ GuidanceTypes /\ LateTypes /\ Counted

LEMMA TypesSuffice == Types => TypeOK
BY DEF Types, TypeOK, StopTypes, ThreadTypes, SocketTypes, QueueTypes, PutTypes,
       ConnTypes, WireTypes, AckTypes, GuidanceTypes, LateTypes, Phases

(* The commands a connection or a message makes are commands.              *)
LEMMA CommandTypes ==
    /\ Profile \in Commands
    /\ \A n \in 1 .. MaxConnections : Voice(n) \in Commands
    /\ \A n \in 1 .. MaxGuidance : Guidance(n) \in Commands
    /\ \A c \in Commands : /\ c.kind = "guidance" => c.n \in 1 .. MaxGuidance
                          /\ c.kind \in {"video_profile", "voice_config", "guidance"}
BY DEF Profile, Voice, Guidance, Commands

LEMMA TypeInit == Init => Types
<1> SUFFICES ASSUME Init PROVE Types
  OBVIOUS
<1>1. StopTypes /\ ThreadTypes /\ SocketTypes /\ Counted
  BY DEF Init, StopTypes, ThreadTypes, SocketTypes, Phases, Counted, Threads
<1>2. QueueTypes
  <2>1. CASE queue = <<>>
    BY <2>1, QueueAssumption DEF QueueTypes
  <2>2. CASE queue = <<Profile>>
    BY <2>2, CommandTypes, QueueAssumption DEF QueueTypes
  <2> QED BY <2>1, <2>2 DEF Init
<1>3. PutTypes
  BY DEF Init, PutTypes, Puts
<1>4. ConnTypes /\ WireTypes /\ GuidanceTypes /\ LateTypes
  BY BoundAssumption DEF Init, ConnTypes, WireTypes, GuidanceTypes, LateTypes
<1>5. AckTypes
  <2>1. strayed \in BOOLEAN
    BY DEF Init
  <2>2. QED
    BY <2>1 DEF Init, AckTypes
<1> QED BY <1>1, <1>2, <1>3, <1>4, <1>5 DEF Types

(* One call on the control queue keeps its types.                          *)
LEMMA EnqueueTypes ==
    ASSUME NEW e \in Enqueuers, NEW command \in Commands,
           QueueTypes, PutTypes, Enqueue(e, command)
    PROVE  QueueTypes' /\ PutTypes'
<1>1. CASE Len(queue) < QueueSize
  <2>1. Append(queue, command) \in Seq(Commands)
        /\ Len(Append(queue, command)) = Len(queue) + 1
    BY DEF QueueTypes
  <2>2. queue' = Append(queue, command) /\ put' = put
    BY <1>1 DEF Enqueue
  <2>3. Len(queue) + 1 <= QueueSize
    BY <1>1, QueueAssumption DEF QueueTypes
  <2> QED BY <2>1, <2>2, <2>3 DEF QueueTypes, PutTypes
<1>2. CASE ~(Len(queue) < QueueSize)
  <2>1. [stage |-> "full", command |-> command] \in Puts
    BY DEF Puts
  <2>2. queue' = queue
        /\ put' = [put EXCEPT ![e] = [stage |-> "full", command |-> command]]
    BY <1>2 DEF Enqueue
  <2> QED BY <2>1, <2>2 DEF QueueTypes, PutTypes
<1> QED BY <1>1, <1>2

LEMMA HangupTypes ==
    ASSUME NEW t \in Threads, Types, Hangup(t)
    PROVE  Types'
<1> USE DEF Types
<1>1. StopTypes' /\ ThreadTypes' /\ SocketTypes' /\ Counted'
  BY DEF Hangup, Goto, StopTypes, ThreadTypes, SocketTypes, Phases, mainVars, Counted, Threads
<1>2. /\ QueueTypes' /\ PutTypes' /\ ConnTypes' /\ WireTypes' /\ GuidanceTypes'
      /\ LateTypes'
  BY DEF Hangup, QueueTypes, PutTypes, ConnTypes, WireTypes, GuidanceTypes, LateTypes, counts
<1>3. /\ acks' \in Seq(Commands \cup {Stray}) /\ strayed' \in BOOLEAN
      /\ outstanding' \in Commands \cup {NoCommand}
  <2>1. CASE t = "control"
    <3>1. acks' = <<>> /\ outstanding' = NoCommand
      BY <2>1 DEF Hangup
    <3>2. strayed' \in BOOLEAN
      BY <2>1 DEF Hangup
    <3> QED BY <3>1, <3>2
  <2>2. CASE t # "control"
    BY <2>2 DEF Hangup, AckTypes
  <2> QED BY <2>1, <2>2
<1>4. AckTypes'
  BY <1>3 DEF Hangup, AckTypes
<1> QED BY <1>1, <1>2, <1>4

(* A step that moves one thread, not into a connection, and nothing else    *)
(* keeps the types.                                                        *)
LEMMA MoveTypes ==
    ASSUME NEW t \in Threads, NEW phase \in Phases \ {"connected", "greeting"},
           Types, Goto(t, phase),
           UNCHANGED <<mainVars, tracked, alive, queue, put, controlVars, counts>>
    PROVE  Types'
<1> USE DEF Types
<1>1. ThreadTypes' /\ Counted'
  BY DEF Goto, ThreadTypes, Counted, Threads, controlVars
<1>2. StopTypes' /\ SocketTypes' /\ QueueTypes' /\ PutTypes'
  BY DEF StopTypes, SocketTypes, QueueTypes, PutTypes, mainVars
<1>3. ConnTypes' /\ WireTypes' /\ AckTypes' /\ GuidanceTypes' /\ LateTypes'
  BY DEF ConnTypes, WireTypes, AckTypes, GuidanceTypes, LateTypes, controlVars, counts
<1> QED BY <1>1, <1>2, <1>3

LEMMA LoopTypes ==
    ASSUME NEW t \in Threads, Types,
           \/ Top(t) \/ Connect(t) \/ ConnectFails(t) \/ Track(t) \/ ReadEnds(t) \/ Wake(t)
    PROVE  Types'
<1>1. CASE Top(t)
  BY <1>1, MoveTypes DEF Top, Phases
<1>2. CASE Connect(t)
  <2> USE DEF Types
  <2>1. StopTypes' /\ ThreadTypes' /\ SocketTypes'
    BY <1>2 DEF Connect, Goto, StopTypes, ThreadTypes, SocketTypes, Phases, mainVars
  <2>2. QueueTypes' /\ PutTypes'
    BY <1>2 DEF Connect, QueueTypes, PutTypes
  <2>3. ConnTypes' /\ Counted'
    BY <1>2, BoundAssumption DEF Connect, ConnTypes, Counted, Goto, ThreadTypes, Threads
  <2>4. WireTypes' /\ AckTypes'
    BY <1>2 DEF Connect, WireTypes, AckTypes
  <2>5. GuidanceTypes' /\ LateTypes'
    BY <1>2 DEF Connect, GuidanceTypes, LateTypes, counts
  <2> QED BY <2>1, <2>2, <2>3, <2>4, <2>5
<1>3. CASE ConnectFails(t)
  BY <1>3, MoveTypes DEF ConnectFails, Phases
<1>4. CASE Track(t)
  <2> USE DEF Types
  <2>1. StopTypes' /\ ThreadTypes' /\ SocketTypes'
    BY <1>4 DEF Track, Goto, StopTypes, ThreadTypes, SocketTypes, Phases, mainVars
  <2>2. QueueTypes' /\ PutTypes' /\ GuidanceTypes' /\ LateTypes'
    BY <1>4 DEF Track, QueueTypes, PutTypes, GuidanceTypes, LateTypes, controlVars, counts
  <2>3. ConnTypes' /\ WireTypes' /\ AckTypes' /\ Counted'
    BY <1>4 DEF Track, ConnTypes, WireTypes, AckTypes, Counted, controlVars, Goto, ThreadTypes,
                Threads
  <2> QED BY <2>1, <2>2, <2>3
<1>5. CASE ReadEnds(t)
  BY <1>5, HangupTypes DEF ReadEnds
<1>6. CASE Wake(t)
  BY <1>6, MoveTypes DEF Wake, Phases
<1> QED BY <1>1, <1>2, <1>3, <1>4, <1>5, <1>6

LEMMA ActsType ==
    ASSUME NEW t \in Threads, Types, Acts(t)
    PROVE  LateTypes'
BY DEF Acts, Types, LateTypes

LEMMA StreamTypes ==
    ASSUME NEW t \in Streams, Types,
           Greeted(t) \/ TestStop(t) \/ Publish(t) \/ PublishFails(t) \/ Arrival(t)
    PROVE  Types'
<1> t \in Threads
  BY DEF Threads
<1>1. CASE Greeted(t)
  BY <1>1, MoveTypes DEF Greeted, Phases
<1>2. CASE TestStop(t)
  BY <1>2, MoveTypes, HangupTypes DEF TestStop, Phases
<1>3. CASE Publish(t)
  <2> USE DEF Types
  <2>1. StopTypes' /\ ThreadTypes' /\ SocketTypes' /\ Counted'
    BY <1>3 DEF Publish, Goto, StopTypes, ThreadTypes, SocketTypes, Phases, mainVars, Counted,
                Threads, controlVars
  <2>2. QueueTypes' /\ PutTypes' /\ GuidanceTypes'
    BY <1>3 DEF Publish, QueueTypes, PutTypes, GuidanceTypes, controlVars
  <2>3. ConnTypes' /\ WireTypes' /\ AckTypes'
    BY <1>3 DEF Publish, ConnTypes, WireTypes, AckTypes, controlVars
  <2>4. LateTypes'
    BY <1>3, ActsType DEF Publish
  <2> QED BY <2>1, <2>2, <2>3, <2>4
<1>7. CASE PublishFails(t)
  BY <1>7, HangupTypes DEF PublishFails
<1>4. CASE ReadItem(t)
  BY <1>4, MoveTypes DEF ReadItem, Phases
<1>5. CASE SkipItem(t)
  BY <1>5, MoveTypes DEF SkipItem, Phases
<1>6. CASE ReadFails(t)
  BY <1>6, HangupTypes DEF ReadFails
<1> QED BY <1>1, <1>2, <1>3, <1>4, <1>5, <1>6, <1>7 DEF Arrival

LEMMA QueueStepTypes ==
    ASSUME NEW e \in Enqueuers, Types, EvictOldest(e) \/ PutAgain(e)
    PROVE  Types'
<1> USE DEF Types
<1>1. StopTypes' /\ ThreadTypes' /\ SocketTypes' /\ GuidanceTypes' /\ LateTypes'
  BY DEF EvictOldest, PutAgain, StopTypes, ThreadTypes, SocketTypes, GuidanceTypes, LateTypes,
         mainVars, controlVars, counts
<1>0. ConnTypes' /\ WireTypes' /\ AckTypes' /\ Counted'
  BY DEF EvictOldest, PutAgain, ConnTypes, WireTypes, AckTypes, Counted, controlVars
<1>2. CASE EvictOldest(e)
  <2>1. QueueTypes'
    <3>1. CASE queue = <<>>
      BY <1>2, <3>1 DEF EvictOldest, QueueTypes
    <3>2. CASE queue # <<>>
      <4>1. Tail(queue) \in Seq(Commands) /\ Len(Tail(queue)) = Len(queue) - 1
        BY <3>2 DEF QueueTypes
      <4>2. queue' = Tail(queue)
        BY <1>2, <3>2 DEF EvictOldest
      <4> QED BY <4>1, <4>2, QueueAssumption DEF QueueTypes
    <3> QED BY <3>1, <3>2
  <2>2. put[e] \in Puts /\ put[e].stage = "full" /\ Idle.stage = "idle"
    BY <1>2 DEF EvictOldest, PutTypes, Idle
  <2>3. put[e] \in [stage : {"full", "evicted"}, command : Commands]
    BY <2>2 DEF Puts
  <2>4. [put[e] EXCEPT !.stage = "evicted"] \in Puts
    BY <2>3 DEF Puts
  <2>5. PutTypes'
    BY <1>2, <2>4 DEF EvictOldest, PutTypes
  <2> QED BY <1>0, <1>1, <2>1, <2>5
<1>3. CASE PutAgain(e)
  <2>1. put[e] \in Puts /\ put[e].stage = "evicted" /\ Idle.stage = "idle"
    BY <1>3 DEF PutAgain, PutTypes, Idle
  <2>2. put[e].command \in Commands
    BY <2>1 DEF Puts
  <2>3. QueueTypes'
    <3>1. CASE Len(queue) < QueueSize
      <4>1. queue' = Append(queue, put[e].command)
        BY <1>3, <3>1 DEF PutAgain
      <4>2. Append(queue, put[e].command) \in Seq(Commands)
            /\ Len(Append(queue, put[e].command)) = Len(queue) + 1
        BY <2>2 DEF QueueTypes
      <4>3. Len(queue) + 1 <= QueueSize
        BY <3>1, QueueAssumption DEF QueueTypes
      <4> QED BY <4>1, <4>2, <4>3 DEF QueueTypes
    <3>2. CASE ~(Len(queue) < QueueSize)
      BY <1>3, <3>2 DEF PutAgain, QueueTypes
    <3> QED BY <3>1, <3>2
  <2>4. PutTypes'
    BY <1>3 DEF PutAgain, PutTypes, Puts
  <2> QED BY <1>0, <1>1, <2>3, <2>4
<1> QED BY <1>2, <1>3

LEMMA ControlLoopTypes ==
    ASSUME Types, \/ ControlGreeted \/ GreetingTimeout \/ ControlTestsStop \/ NothingToSend
                   \/ Send \/ Acknowledged \/ EmptyAck \/ AckTimeout
    PROVE  Types'
<1> USE DEF Types
<1> "control" \in Threads /\ "control" \in Enqueuers
  BY DEF Threads, Enqueuers
<1>1. CASE ControlGreeted
  <2>1. StopTypes' /\ ThreadTypes' /\ SocketTypes'
    BY <1>1 DEF ControlGreeted, Goto, StopTypes, ThreadTypes, SocketTypes, Phases, mainVars
  <2>2. ConnTypes' /\ WireTypes' /\ AckTypes' /\ GuidanceTypes' /\ LateTypes' /\ Counted'
    BY <1>1 DEF ControlGreeted, ConnTypes, WireTypes, AckTypes, GuidanceTypes, LateTypes,
                Counted, Goto, ThreadTypes, controlVars, counts
  <2>3. QueueTypes' /\ PutTypes'
    <3>1. CASE VoiceEnabled
      <4>1. conn \in 1 .. MaxConnections
        BY <1>1, BoundAssumption DEF ControlGreeted, ConnTypes, Counted
      <4>2. Voice(conn) \in Commands
        BY <4>1, CommandTypes
      <4>3. Enqueue("control", Voice(conn))
        BY <1>1, <3>1 DEF ControlGreeted
      <4> QED BY <4>2, <4>3, EnqueueTypes
    <3>2. CASE ~VoiceEnabled
      BY <1>1, <3>2 DEF ControlGreeted, QueueTypes, PutTypes
    <3> QED BY <3>1, <3>2
  <2> QED BY <2>1, <2>2, <2>3
<1>2. CASE GreetingTimeout
  BY <1>2, HangupTypes DEF GreetingTimeout
<1>3. CASE ControlTestsStop
  BY <1>3, HangupTypes, MoveTypes DEF ControlTestsStop, Phases
<1>7. CASE NothingToSend
  BY <1>7, MoveTypes DEF NothingToSend, Phases
<1>4. CASE Send
  <2>1. queue # <<>> /\ Head(queue) \in Commands /\ Tail(queue) \in Seq(Commands)
        /\ Len(Tail(queue)) = Len(queue) - 1
    BY <1>4 DEF Send, QueueTypes
  <2>2. QueueTypes' /\ PutTypes'
    BY <1>4, <2>1, QueueAssumption DEF Send, QueueTypes, PutTypes
  <2>3. StopTypes' /\ ThreadTypes' /\ SocketTypes'
    BY <1>4 DEF Send, Goto, StopTypes, ThreadTypes, SocketTypes, Phases, mainVars
  <2>4. ConnTypes' /\ AckTypes' /\ Counted'
    BY <1>4, <2>1 DEF Send, ConnTypes, AckTypes, Counted, Goto, ThreadTypes
  <2>7. LateTypes'
    BY <1>4, ActsType DEF Send
  <2>5. WireTypes'
    <3>1. CASE "control" \in alive
      <4>1. conn \in 1 .. MaxConnections
        BY <3>1, BoundAssumption DEF ConnTypes, Counted
      <4> QED BY <1>4, <2>1, <3>1, <4>1 DEF Send, WireTypes
    <3>2. CASE "control" \notin alive
      BY <1>4, <3>2 DEF Send, WireTypes
    <3> QED BY <3>1, <3>2
  <2>6. GuidanceTypes'
    <3>1. CASE Head(queue).kind = "guidance"
      <4>1. Head(queue).n \in 1 .. MaxGuidance
        BY <2>1, <3>1, CommandTypes
      <4>2. sent' = Append(sent, Head(queue).n) /\ guided' = guided
        BY <1>4, <3>1 DEF Send
      <4> QED BY <4>1, <4>2 DEF GuidanceTypes
    <3>2. CASE Head(queue).kind # "guidance"
      BY <1>4, <3>2 DEF Send, GuidanceTypes
    <3> QED BY <3>1, <3>2
  <2> QED BY <2>2, <2>3, <2>4, <2>5, <2>6, <2>7
<1>5. CASE Acknowledged
  <2>1. /\ acks # <<>> /\ Head(acks) \in Commands \cup {Stray}
        /\ Tail(acks) \in Seq(Commands \cup {Stray})
    BY <1>5 DEF Acknowledged, AckTypes
  <2>2. Head(acks).kind \in {"video_profile", "voice_config", "guidance", "stray"}
    BY <2>1, CommandTypes DEF Stray
  <2>3. AckTypes'
    BY <1>5, <2>1, <2>2 DEF Acknowledged, AckTypes
  <2>4. StopTypes' /\ ThreadTypes' /\ SocketTypes' /\ QueueTypes' /\ PutTypes'
    BY <1>5 DEF Acknowledged, Goto, StopTypes, ThreadTypes, SocketTypes, QueueTypes,
                PutTypes, Phases, mainVars
  <2>5. ConnTypes' /\ WireTypes' /\ GuidanceTypes' /\ LateTypes' /\ Counted'
    BY <1>5 DEF Acknowledged, ConnTypes, WireTypes, GuidanceTypes, LateTypes, Counted, Goto,
                ThreadTypes, counts
  <2> QED BY <2>3, <2>4, <2>5
<1>6. CASE AckTimeout \/ EmptyAck
  BY <1>6, HangupTypes DEF AckTimeout, EmptyAck
<1> QED BY <1>1, <1>2, <1>3, <1>4, <1>5, <1>6, <1>7

(* The steps of stop() and those of the headset.                           *)
LEMMA StopTypesKept ==
    ASSUME Types, RequestStop \/ StopStep
    PROVE  Types'
<1> USE DEF Types
<1>1. StopTypes' /\ SocketTypes' /\ Counted'
  BY DEF RequestStop, StopStep, SnapshotSockets, CloseSocket, StartJoin, Join, DestroyNode,
         StopTypes, SocketTypes, Counted, controlVars
<1>2. ThreadTypes' /\ QueueTypes' /\ PutTypes' /\ GuidanceTypes' /\ LateTypes'
  BY DEF RequestStop, StopStep, SnapshotSockets, CloseSocket, StartJoin, Join, DestroyNode,
         ThreadTypes, QueueTypes, PutTypes, GuidanceTypes, LateTypes, controlVars, counts
<1>3. ConnTypes' /\ WireTypes' /\ AckTypes'
  BY DEF RequestStop, StopStep, SnapshotSockets, CloseSocket, StartJoin, Join, DestroyNode,
         ConnTypes, WireTypes, AckTypes, controlVars
<1> QED BY <1>1, <1>2, <1>3

LEMMA HeadsetTypes ==
    ASSUME Types, HeadsetObeys \/ StrayLine \/ \E t \in Threads : LinkLost(t)
    PROVE  Types'
<1> USE DEF Types
<1>1. CASE HeadsetObeys
  <2>1. PICK w \in wire :
            /\ wire' = wire \ {w}
            /\ acks' = IF w.conn = conn /\ "control" \in alive
                       THEN Append(acks, w.command) ELSE acks
            /\ UNCHANGED <<mainVars, thread, tracked, alive, queue, put, counts>>
            /\ UNCHANGED <<outstanding, conn, strayed, acknowledged, sent>>
    BY <1>1 DEF HeadsetObeys
  <2>2. w.command \in Commands
    BY DEF WireTypes
  <2>3. AckTypes' /\ WireTypes'
    BY <2>1, <2>2 DEF AckTypes, WireTypes
  <2>4. StopTypes' /\ ThreadTypes' /\ SocketTypes' /\ QueueTypes' /\ PutTypes'
    BY <2>1 DEF StopTypes, ThreadTypes, SocketTypes, QueueTypes, PutTypes, mainVars
  <2>5. ConnTypes' /\ GuidanceTypes' /\ LateTypes' /\ Counted'
    BY <2>1 DEF ConnTypes, GuidanceTypes, LateTypes, Counted, counts
  <2> QED BY <2>3, <2>4, <2>5
<1>2. ASSUME NEW t \in Threads, LinkLost(t) PROVE Types'
  <2>1. StopTypes' /\ ThreadTypes' /\ SocketTypes' /\ Counted'
    BY <1>2 DEF LinkLost, StopTypes, ThreadTypes, SocketTypes, Counted, mainVars
  <2>2. QueueTypes' /\ PutTypes' /\ ConnTypes' /\ GuidanceTypes' /\ LateTypes'
    BY <1>2 DEF LinkLost, QueueTypes, PutTypes, ConnTypes, GuidanceTypes, LateTypes, counts
  <2>3. WireTypes' /\ AckTypes'
    BY <1>2 DEF LinkLost, WireTypes, AckTypes
  <2> QED BY <2>1, <2>2, <2>3
<1>3. CASE StrayLine
  <2>1. StopTypes' /\ ThreadTypes' /\ SocketTypes' /\ Counted'
    BY <1>3 DEF StrayLine, StopTypes, ThreadTypes, SocketTypes, Counted, mainVars
  <2>2. QueueTypes' /\ PutTypes' /\ ConnTypes' /\ GuidanceTypes' /\ LateTypes'
    BY <1>3 DEF StrayLine, QueueTypes, PutTypes, ConnTypes, GuidanceTypes, LateTypes, counts
  <2>3. WireTypes' /\ AckTypes'
    BY <1>3 DEF StrayLine, WireTypes, AckTypes
  <2> QED BY <2>1, <2>2, <2>3
<1> QED BY <1>1, <1>2, <1>3

LEMMA GuidanceStepTypes ==
    ASSUME Types, OnGuidance
    PROVE  Types'
<1> USE DEF Types
<1>1. guided' \in 1 .. MaxGuidance /\ guided' = guided + 1
  BY BoundAssumption DEF OnGuidance, GuidanceTypes
<1>2. Guidance(guided + 1) \in Commands /\ "ros" \in Enqueuers
  BY <1>1, CommandTypes DEF Enqueuers
<1>3. QueueTypes' /\ PutTypes'
  BY <1>2, EnqueueTypes DEF OnGuidance
<1>4. StopTypes' /\ ThreadTypes' /\ SocketTypes' /\ Counted'
  BY DEF OnGuidance, StopTypes, ThreadTypes, SocketTypes, Counted, mainVars, controlVars
<1>5. ConnTypes' /\ WireTypes' /\ AckTypes'
  BY DEF OnGuidance, ConnTypes, WireTypes, AckTypes, controlVars
<1>6. GuidanceTypes' /\ LateTypes'
  BY <1>1 DEF OnGuidance, GuidanceTypes, LateTypes, controlVars
<1> QED BY <1>3, <1>4, <1>5, <1>6

LEMMA TypeNext == Types /\ [Next]_vars => Types'
<1> SUFFICES ASSUME Types, [Next]_vars PROVE Types'
  OBVIOUS
<1> "control" \in Threads /\ Streams \subseteq Threads
  BY DEF Threads
<1> "control" \in Enqueuers /\ "ros" \in Enqueuers
  BY DEF Enqueuers
<1>1. ASSUME NEW t \in Streams, StreamStep(t) \/ Arrival(t) PROVE Types'
  BY <1>1, LoopTypes, StreamTypes DEF StreamStep
<1>2. CASE ControlStep
  BY <1>2, LoopTypes, ControlLoopTypes, QueueStepTypes DEF ControlStep
<1>3. CASE RosStep
  BY <1>3, QueueStepTypes DEF RosStep
<1>4. CASE OnGuidance
  BY <1>4, GuidanceStepTypes
<1>5. CASE RequestStop \/ StopStep
  BY <1>5, StopTypesKept
<1>6. CASE HeadsetObeys \/ StrayLine \/ \E t \in Threads : LinkLost(t)
  BY <1>6, HeadsetTypes
<1>7. CASE UNCHANGED vars
  <2> USE DEF Types
  <2>1. StopTypes' /\ ThreadTypes' /\ SocketTypes' /\ QueueTypes' /\ PutTypes'
    BY <1>7 DEF StopTypes, ThreadTypes, SocketTypes, QueueTypes, PutTypes, vars, mainVars
  <2>2. ConnTypes' /\ WireTypes' /\ AckTypes' /\ GuidanceTypes' /\ LateTypes' /\ Counted'
    BY <1>7 DEF ConnTypes, WireTypes, AckTypes, GuidanceTypes, LateTypes, Counted, vars,
                controlVars, counts
  <2> QED BY <2>1, <2>2
<1> QED BY <1>1, <1>2, <1>3, <1>4, <1>5, <1>6, <1>7 DEF Next

(***************************************************************************)
(* Every variable of the relay keeps its type: the queue its bound, the    *)
(* put of each caller one of its two pending stages.                       *)
(***************************************************************************)
THEOREM TypeCorrect == Spec => []TypeOK
<1>1. Spec => []Types
  BY TypeInit, TypeNext, PTL DEF Spec
<1> QED BY <1>1, TypesSuffice, PTL

(***************************************************************************)
(* Acknowledgements, as long as no stray line came.  Outside the wait there *)
(* is no answer to read, and on the connection that is up none to come;    *)
(* inside it, an answer has come, or the command awaited is the only one on *)
(* its way, never both.  Between connections nothing is left of the last.  *)
(***************************************************************************)
OldConnections == \A w \in wire : w.conn <= conn
Unlinked ==
    /\ thread["control"] \in {"top", "connecting", "connected", "greeting", "sleep", "done"} =>
           acks = <<>> /\ ~strayed
    /\ thread["control"] \in {"top", "connecting", "sleep", "done"} => "control" \notin alive
AtMostOne == acks = <<>> \/ acks = <<outstanding>>
NoneExpected ==
    thread["control"] # "waiting" =>
        /\ acks = <<>>
        /\ "control" \in alive => \A w \in wire : w.conn # conn
OneExpected ==
    thread["control"] = "waiting" /\ "control" \in alive =>
        \A w \in wire : w.conn = conn => w.command = outstanding /\ acks = <<>>

Paired == ~strayed => AtMostOne /\ NoneExpected /\ OneExpected
AckInv == OldConnections /\ Unlinked /\ Paired

LEMMA AckSuffices == Types /\ AckInv => AckAnswersCommand
<1> SUFFICES ASSUME AckInv, ~strayed
             PROVE  /\ Len(acks) <= 1
                    /\ \A i \in DOMAIN acks : acks[i] = outstanding
                    /\ thread["control"] = "waiting" /\ "control" \in alive =>
                           \A w \in wire : w.conn = conn => w.command = outstanding
  BY DEF AckAnswersCommand
<1>1. acks = <<>> \/ acks = <<outstanding>>
  BY DEF AckInv, Paired, AtMostOne
<1>2. Len(acks) <= 1 /\ \A i \in DOMAIN acks : acks[i] = outstanding
  <2>1. CASE acks = <<>>
    BY <2>1
  <2>2. CASE acks = <<outstanding>>
    BY <2>2
  <2> QED BY <1>1, <2>1, <2>2
<1> QED BY <1>2 DEF AckInv, Paired, OneExpected

(* A step that leaves alone what is awaited, and the control thread in its  *)
(* part of the loop.                                                       *)
LEMMA QuietAcks ==
    ASSUME Types, AckInv, UNCHANGED <<acks, strayed, outstanding, wire, conn>>,
           "control" \in alive' => "control" \in alive,
           (thread["control"] = "waiting") <=> (thread'["control"] = "waiting"),
           \/ thread'["control"] = thread["control"]
           \/ thread'["control"] \in {"loop", "getting", "waiting"}
           \/ /\ thread'["control"] \in {"top", "connecting", "sleep", "done"}
              /\ thread["control"] \in {"top", "connecting", "sleep", "done"}
           \/ thread'["control"] = "greeting" /\ thread["control"] = "connected"
    PROVE  AckInv'
<1>1. OldConnections'
  BY DEF AckInv, OldConnections
<1>2. Unlinked'
  BY DEF AckInv, Unlinked
<1>3. Paired'
  BY DEF AckInv, Paired, AtMostOne, NoneExpected, OneExpected
<1>4. QED
  BY <1>1, <1>2, <1>3 DEF AckInv

LEMMA HangupAcks ==
    ASSUME NEW t \in Threads, Types, AckInv, Hangup(t)
    PROVE  AckInv'
<1>1. CASE t = "control"
  <2>1. acks' = <<>> /\ ~strayed' /\ wire' = wire /\ conn' = conn /\ "control" \notin alive'
    BY <1>1 DEF Hangup
  <2> QED BY <2>1 DEF AckInv, OldConnections, Unlinked, Paired, AtMostOne, NoneExpected,
                      OneExpected
<1>2. CASE t # "control"
  <2>1. thread'["control"] = thread["control"]
    BY <1>2 DEF Hangup, Goto, Types, ThreadTypes, Threads
  <2>2. "control" \in alive' => "control" \in alive
    BY <1>2 DEF Hangup
  <2>3. UNCHANGED <<acks, strayed, outstanding, wire, conn>>
    BY <1>2 DEF Hangup
  <2> QED BY <2>1, <2>2, <2>3, QuietAcks
<1> QED BY <1>1, <1>2

LEMMA LoopAcks ==
    ASSUME NEW t \in Threads, Types, AckInv,
           \/ Top(t) \/ Connect(t) \/ ConnectFails(t) \/ Track(t) \/ ReadEnds(t) \/ Wake(t)
    PROVE  AckInv'
<1> USE DEF Types
<1>1. CASE Top(t) \/ ConnectFails(t) \/ Track(t) \/ Wake(t)
  <2>1. UNCHANGED <<acks, strayed, outstanding, wire, conn, alive>>
    BY <1>1 DEF Top, ConnectFails, Track, Wake, controlVars
  <2>2. \/ thread'["control"] = thread["control"]
        \/ /\ thread'["control"] \in {"top", "connecting", "sleep", "done"}
           /\ thread["control"] \in {"top", "connecting", "sleep", "done"}
        \/ thread'["control"] = "greeting" /\ thread["control"] = "connected"
    BY <1>1 DEF Top, ConnectFails, Track, Wake, Goto, ThreadTypes, Threads
  <2> QED BY <2>1, <2>2, QuietAcks
<1>2. CASE Connect(t) /\ t # "control"
  <2>1. /\ UNCHANGED <<acks, strayed, outstanding, wire, conn>>
        /\ "control" \in alive' => "control" \in alive
    BY <1>2 DEF Connect
  <2>2. thread'["control"] = thread["control"]
    BY <1>2 DEF Connect, Goto, ThreadTypes, Threads
  <2> QED BY <2>1, <2>2, QuietAcks
<1>3. CASE Connect(t) /\ t = "control"
  <2>1. thread["control"] = "connecting" /\ thread'["control"] = "connected"
    BY <1>3 DEF Connect, Goto, ThreadTypes
  <2>2. /\ acks' = <<>> /\ ~strayed' /\ wire' = wire
    BY <1>3, <2>1 DEF Connect, AckInv, Unlinked
  <2>3. conn' = conn + 1 /\ conn \in Nat
    BY <1>3, BoundAssumption DEF Connect, ConnTypes
  <2>4. \A w \in wire : w.conn \in Nat /\ w.conn <= conn
    BY BoundAssumption DEF WireTypes, AckInv, OldConnections
  <2>5. \A w \in wire' : w.conn <= conn' /\ w.conn # conn'
    BY <2>2, <2>3, <2>4
  <2> QED BY <2>1, <2>2, <2>5 DEF AckInv, OldConnections, Unlinked, Paired, AtMostOne,
                                  NoneExpected, OneExpected
<1>4. CASE ReadEnds(t)
  BY <1>4, HangupAcks DEF ReadEnds
<1> QED BY <1>1, <1>2, <1>3, <1>4

LEMMA StreamAcks ==
    ASSUME NEW t \in Streams, Types, AckInv,
           Greeted(t) \/ TestStop(t) \/ Publish(t) \/ PublishFails(t) \/ Arrival(t)
    PROVE  AckInv'
<1> t \in Threads /\ t # "control"
  BY StreamsAssumption DEF Threads
<1>1. CASE ReadFails(t) \/ PublishFails(t) \/ (TestStop(t) /\ Stopping)
  BY <1>1, HangupAcks DEF ReadFails, PublishFails, TestStop
<1>2. CASE Greeted(t) \/ (TestStop(t) /\ ~Stopping) \/ Publish(t) \/ ReadItem(t) \/ SkipItem(t)
  <2>1. UNCHANGED <<acks, strayed, outstanding, wire, conn, alive>>
    BY <1>2 DEF Greeted, TestStop, Publish, ReadItem, SkipItem, controlVars
  <2>2. thread'["control"] = thread["control"]
    BY <1>2 DEF Greeted, TestStop, Publish, ReadItem, SkipItem, Goto, Types, ThreadTypes,
                Threads
  <2> QED BY <2>1, <2>2, QuietAcks
<1> QED BY <1>1, <1>2 DEF Arrival

LEMMA ControlAcks ==
    ASSUME Types, AckInv,
           \/ ControlGreeted \/ GreetingTimeout \/ ControlTestsStop \/ NothingToSend
           \/ Send \/ Acknowledged \/ EmptyAck \/ AckTimeout
    PROVE  AckInv'
<1> "control" \in Threads
  BY DEF Threads
<1>1. CASE \/ GreetingTimeout \/ (ControlTestsStop /\ Stopping) \/ EmptyAck \/ AckTimeout
  BY <1>1, HangupAcks DEF GreetingTimeout, ControlTestsStop, EmptyAck, AckTimeout
<1>2. CASE ControlGreeted \/ (ControlTestsStop /\ ~Stopping) \/ NothingToSend
  <2>1. UNCHANGED <<acks, strayed, outstanding, wire, conn, alive>>
    BY <1>2 DEF ControlGreeted, ControlTestsStop, NothingToSend, controlVars
  <2>2. thread["control"] # "waiting" /\ thread'["control"] \in {"loop", "getting"}
    BY <1>2 DEF ControlGreeted, ControlTestsStop, NothingToSend, Goto, Types, ThreadTypes
  <2> QED BY <2>1, <2>2, QuietAcks
<1>3. CASE Send
  <2>1. thread["control"] = "getting" /\ thread'["control"] = "waiting"
    BY <1>3 DEF Send, Goto, Types, ThreadTypes
  <2>2. UNCHANGED <<acks, strayed, conn, alive>> /\ conn \in Nat
    BY <1>3, BoundAssumption DEF Send, Types, ConnTypes
  <2>3. wire' \subseteq wire \cup {[command |-> outstanding', conn |-> conn]}
    BY <1>3 DEF Send
  <2>4. OldConnections'
    BY <2>2, <2>3 DEF AckInv, OldConnections
  <2>5. Unlinked'
    BY <2>1 DEF Unlinked
  <2>6. Paired'
    <3> SUFFICES ASSUME ~strayed' PROVE AtMostOne' /\ NoneExpected' /\ OneExpected'
      BY DEF Paired
    <3>1. acks = <<>> /\ ("control" \in alive => \A w \in wire : w.conn # conn)
      BY <2>1, <2>2 DEF AckInv, Paired, NoneExpected
    <3> QED BY <2>1, <2>2, <2>3, <3>1 DEF AtMostOne, NoneExpected, OneExpected
  <2> QED BY <2>4, <2>5, <2>6 DEF AckInv
<1>4. CASE Acknowledged
  <2>1. thread["control"] = "waiting" /\ thread'["control"] = "loop"
    BY <1>4 DEF Acknowledged, Goto, Types, ThreadTypes
  <2>2. UNCHANGED <<strayed, wire, conn, alive>> /\ acks # <<>> /\ acks' = Tail(acks)
    BY <1>4 DEF Acknowledged
  <2>3. OldConnections' /\ Unlinked'
    BY <2>1, <2>2 DEF AckInv, OldConnections, Unlinked
  <2>4. Paired'
    <3> SUFFICES ASSUME ~strayed PROVE AtMostOne' /\ NoneExpected' /\ OneExpected'
      BY <2>2 DEF Paired
    <3>1. acks = <<outstanding>>
      BY <2>2 DEF AckInv, Paired, AtMostOne
    <3>2. acks' = <<>>
      BY <2>2, <3>1
    <3>3. "control" \in alive => \A w \in wire : w.conn # conn
      BY <2>1, <2>2 DEF AckInv, Paired, OneExpected
    <3> QED BY <2>1, <2>2, <3>2, <3>3 DEF AtMostOne, NoneExpected, OneExpected
  <2> QED BY <2>3, <2>4 DEF AckInv
<1> QED BY <1>1, <1>2, <1>3, <1>4

LEMMA HeadsetAcks ==
    ASSUME Types, AckInv, HeadsetObeys \/ StrayLine \/ \E t \in Threads : LinkLost(t)
    PROVE  AckInv'
<1>1. CASE HeadsetObeys
  <2>1. PICK w \in wire :
            /\ wire' = wire \ {w}
            /\ acks' = IF w.conn = conn /\ "control" \in alive
                       THEN Append(acks, w.command) ELSE acks
            /\ UNCHANGED <<thread, alive, outstanding, strayed, conn>>
    BY <1>1 DEF HeadsetObeys
  <2>2. OldConnections'
    BY <2>1 DEF AckInv, OldConnections
  <2>3. CASE ~(w.conn = conn /\ "control" \in alive)
    <3>1. acks' = acks
      BY <2>1, <2>3
    <3> QED BY <2>1, <2>2, <3>1 DEF AckInv, Unlinked, Paired, AtMostOne, NoneExpected,
                                    OneExpected
  <2>4. CASE w.conn = conn /\ "control" \in alive /\ strayed
    <3>1. Unlinked'
      BY <2>1, <2>4 DEF AckInv, Unlinked
    <3> QED BY <2>1, <2>2, <2>4, <3>1 DEF AckInv, Paired
  <2>5. CASE w.conn = conn /\ "control" \in alive /\ ~strayed
    <3>1. thread["control"] = "waiting"
      BY <2>5 DEF AckInv, Paired, NoneExpected
    <3>2. w.command = outstanding /\ acks = <<>>
      BY <2>5, <3>1 DEF AckInv, Paired, OneExpected
    <3>3. acks' = <<outstanding>> /\ outstanding' = outstanding
      BY <2>1, <2>5, <3>2
    <3>4. \A v \in wire : v.conn = conn => v = w
      <4>1. \A v \in wire : v.conn = conn => v.command = w.command
        BY <2>5, <3>1, <3>2 DEF AckInv, Paired, OneExpected
      <4>2. \A v \in wire : v = [command |-> v.command, conn |-> v.conn]
        BY DEF Types, WireTypes
      <4> QED BY <2>5, <4>1, <4>2
    <3>5. \A v \in wire' : v.conn # conn'
      BY <2>1, <3>4
    <3>6. Unlinked'
      BY <2>1, <3>1 DEF Unlinked
    <3> QED BY <2>1, <2>2, <3>1, <3>3, <3>5, <3>6 DEF AckInv, Paired, AtMostOne, NoneExpected,
                                                      OneExpected
  <2> QED BY <2>3, <2>4, <2>5
<1>2. ASSUME NEW t \in Threads, LinkLost(t) PROVE AckInv'
  <2>1. wire' \subseteq wire /\ alive' \subseteq alive
        /\ UNCHANGED <<thread, acks, strayed, outstanding, conn>>
    BY <1>2 DEF LinkLost
  <2> QED BY <2>1 DEF AckInv, OldConnections, Unlinked, Paired, AtMostOne, NoneExpected,
                      OneExpected
<1>3. CASE StrayLine
  <2>1. strayed' /\ wire' = wire /\ conn' = conn /\ thread' = thread
        /\ thread["control"] \in {"loop", "getting", "waiting"}
    BY <1>3 DEF StrayLine
  <2> QED BY <2>1 DEF AckInv, OldConnections, Unlinked, Paired
<1> QED BY <1>1, <1>2, <1>3

LEMMA AckInit == Init => AckInv
BY DEF Init, AckInv, OldConnections, Unlinked, Paired, AtMostOne, NoneExpected, OneExpected

LEMMA AckNext == Types /\ AckInv /\ [Next]_vars => AckInv'
<1> SUFFICES ASSUME Types, AckInv, [Next]_vars PROVE AckInv'
  OBVIOUS
<1> "control" \in Threads /\ Streams \subseteq Threads
  BY DEF Threads
<1>1. ASSUME NEW t \in Streams, StreamStep(t) \/ Arrival(t) PROVE AckInv'
  BY <1>1, LoopAcks, StreamAcks DEF StreamStep
<1>2. CASE ControlStep /\ ~(EvictOldest("control") \/ PutAgain("control"))
  BY <1>2, LoopAcks, ControlAcks DEF ControlStep
<1>3. CASE \/ EvictOldest("control") \/ PutAgain("control") \/ RosStep \/ OnGuidance
           \/ RequestStop \/ StopStep \/ UNCHANGED vars
  <2>1. UNCHANGED <<acks, strayed, outstanding, wire, conn, thread>> /\ alive' \subseteq alive
    BY <1>3 DEF EvictOldest, PutAgain, RosStep, OnGuidance, RequestStop, StopStep,
                SnapshotSockets, CloseSocket, StartJoin, Join, DestroyNode, vars, controlVars
  <2> QED BY <2>1, QuietAcks
<1>4. CASE HeadsetObeys \/ StrayLine \/ \E t \in Threads : LinkLost(t)
  BY <1>4, HeadsetAcks
<1> QED BY <1>1, <1>2, <1>3, <1>4 DEF Next, ControlStep

(***************************************************************************)
(* Whatever the number of reconnections, a line read as an acknowledgement *)
(* answers the command it is taken to answer, on a connection where the    *)
(* headset added no line of its own.                                       *)
(***************************************************************************)
THEOREM AnswersMatch == Spec => []AckAnswersCommand
<1>1. Spec => [](Types /\ AckInv)
  BY TypeInit, TypeNext, AckInit, AckNext, PTL DEF Spec
<1> QED BY <1>1, AckSuffices, PTL

(***************************************************************************)
(* Shutdown.  A thread that has acted since the stop event is no longer    *)
(* where it acts again: it comes back to the test before.                  *)
(***************************************************************************)
Acting == {"reading", "publishing", "getting"}
OneEach ==
    /\ ~Stopping => late = [t \in Threads |-> 0]
    /\ \A t \in Threads : late[t] <= IF thread[t] \in Acting THEN 0 ELSE 1

LEMMA StopInit == Init => OneEach
BY DEF Init, OneEach, Acting

(* A thread goes where it does not act, or where the stop event is not set.  *)
LEMMA MovesOn ==
    ASSUME Types, OneEach, NEW t \in Threads, NEW phase, Goto(t, phase),
           phase \notin Acting \/ ~Stopping \/ thread[t] \in Acting,
           UNCHANGED <<late, main>>
    PROVE  OneEach'
<1>1. Stopping' = Stopping
  BY DEF Stopping
<1>2. \A u \in Threads : thread'[u] = IF u = t THEN phase ELSE thread[u]
  BY DEF Goto, Types, ThreadTypes
<1>3. \A u \in Threads : late[u] \in Nat /\ late[u] <= 1 /\ (~Stopping => late[u] = 0)
  BY DEF OneEach, Types, LateTypes
<1>4. \A u \in Threads : late[u] <= IF thread'[u] \in Acting THEN 0 ELSE 1
  BY <1>2, <1>3 DEF OneEach
<1>5. QED
  BY <1>1, <1>4 DEF OneEach

(* A thread acts, and goes back to the test.                                *)
LEMMA ActsOnce ==
    ASSUME Types, OneEach, NEW t \in Threads, NEW phase, Goto(t, phase),
           phase \notin Acting, thread[t] \in Acting, Acts(t), UNCHANGED main
    PROVE  OneEach'
<1>1. Stopping' = Stopping
  BY DEF Stopping
<1>2. \A u \in Threads : thread'[u] = IF u = t THEN phase ELSE thread[u]
  BY DEF Goto, Types, ThreadTypes
<1>3. \A u \in Threads : late[u] \in Nat /\ late[u] <= 1
  BY DEF OneEach, Types, LateTypes
<1>4. late[t] = 0
  BY DEF OneEach, Types, LateTypes
<1>5. \A u \in Threads : late'[u] = IF Stopping /\ u = t THEN 1 ELSE late[u]
  BY <1>4 DEF Acts, Types, LateTypes
<1>6. \A u \in Threads : late'[u] <= IF thread'[u] \in Acting THEN 0 ELSE 1
  BY <1>2, <1>3, <1>5 DEF OneEach
<1>7. ~Stopping => late' = late
  BY DEF Acts
<1>8. QED
  BY <1>1, <1>6, <1>7 DEF OneEach

(* A step that moves no thread.                                             *)
LEMMA StaysPut ==
    ASSUME OneEach, UNCHANGED <<late, thread>>, Stopping => Stopping'
    PROVE  OneEach'
BY DEF OneEach

LEMMA LoopStops ==
    ASSUME NEW t \in Threads, Types, OneEach,
           \/ Top(t) \/ Connect(t) \/ ConnectFails(t) \/ Track(t) \/ ReadEnds(t) \/ Wake(t)
           \/ Hangup(t)
    PROVE  OneEach'
<1>1. PICK phase \in Phases \ Acting : Goto(t, phase) /\ UNCHANGED <<late, main>>
  BY DEF Top, Connect, ConnectFails, Track, ReadEnds, Wake, Hangup, Phases, Acting, mainVars,
         counts
<1>2. QED
  BY <1>1, MovesOn

LEMMA StreamStops ==
    ASSUME NEW t \in Streams, Types, OneEach,
           Greeted(t) \/ TestStop(t) \/ Publish(t) \/ PublishFails(t) \/ Arrival(t)
    PROVE  OneEach'
<1> t \in Threads
  BY DEF Threads
<1>1. CASE ReadFails(t) \/ PublishFails(t) \/ (TestStop(t) /\ Stopping)
  BY <1>1, LoopStops DEF ReadFails, PublishFails, TestStop
<1>2. CASE TestStop(t) /\ ~Stopping
  BY <1>2, MovesOn DEF TestStop, mainVars, counts
<1>3. CASE Greeted(t) \/ SkipItem(t)
  <2>1. Goto(t, "loop") /\ UNCHANGED <<late, main>>
    BY <1>3 DEF Greeted, SkipItem, mainVars, counts
  <2>2. QED
    BY <2>1, MovesOn DEF Acting
<1>4. CASE ReadItem(t)
  <2>1. Goto(t, "publishing") /\ UNCHANGED <<late, main>> /\ thread[t] \in Acting
    BY <1>4 DEF ReadItem, Acting, mainVars, counts
  <2>2. QED
    BY <2>1, MovesOn
<1>5. CASE Publish(t)
  BY <1>5, ActsOnce DEF Publish, Acting, mainVars
<1> QED BY <1>1, <1>2, <1>3, <1>4, <1>5 DEF Arrival

LEMMA ControlStopsToo ==
    ASSUME Types, OneEach,
           \/ ControlGreeted \/ GreetingTimeout \/ ControlTestsStop \/ NothingToSend
           \/ Send \/ Acknowledged \/ EmptyAck \/ AckTimeout
    PROVE  OneEach'
<1> "control" \in Threads
  BY DEF Threads
<1>1. CASE \/ GreetingTimeout \/ (ControlTestsStop /\ Stopping) \/ EmptyAck \/ AckTimeout
  BY <1>1, LoopStops DEF GreetingTimeout, ControlTestsStop, EmptyAck, AckTimeout
<1>2. CASE ControlTestsStop /\ ~Stopping
  BY <1>2, MovesOn DEF ControlTestsStop, mainVars, counts
<1>3. CASE ControlGreeted \/ NothingToSend \/ Acknowledged
  <2>1. Goto("control", "loop") /\ UNCHANGED <<late, main>>
    BY <1>3 DEF ControlGreeted, NothingToSend, Acknowledged, mainVars, counts
  <2>2. QED
    BY <2>1, MovesOn DEF Acting
<1>4. CASE Send
  BY <1>4, ActsOnce DEF Send, Acting, mainVars
<1> QED BY <1>1, <1>2, <1>3, <1>4

LEMMA StopNext == Types /\ OneEach /\ [Next]_vars => OneEach'
<1> SUFFICES ASSUME Types, OneEach, [Next]_vars PROVE OneEach'
  OBVIOUS
<1> "control" \in Threads /\ Streams \subseteq Threads
  BY DEF Threads
<1>1. ASSUME NEW t \in Streams, StreamStep(t) \/ Arrival(t) PROVE OneEach'
  BY <1>1, LoopStops, StreamStops DEF StreamStep
<1>2. CASE ControlStep /\ ~(EvictOldest("control") \/ PutAgain("control"))
  BY <1>2, LoopStops, ControlStopsToo DEF ControlStep
<1>3. CASE \/ EvictOldest("control") \/ PutAgain("control") \/ RosStep \/ OnGuidance
           \/ RequestStop \/ StopStep \/ HeadsetObeys \/ StrayLine
           \/ (\E t \in Threads : LinkLost(t)) \/ UNCHANGED vars
  <2>1. UNCHANGED <<late, thread>>
    BY <1>3 DEF EvictOldest, PutAgain, RosStep, OnGuidance, RequestStop, StopStep,
                SnapshotSockets, CloseSocket, StartJoin, Join, DestroyNode, HeadsetObeys,
                StrayLine, LinkLost, vars, counts
  <2>2. Stopping => Stopping'
    BY <1>3 DEF EvictOldest, PutAgain, RosStep, OnGuidance, RequestStop, StopStep,
                SnapshotSockets, CloseSocket, StartJoin, Join, DestroyNode, HeadsetObeys,
                StrayLine, LinkLost, vars, mainVars, Stopping
  <2> QED BY <2>1, <2>2, StaysPut
<1> QED BY <1>1, <1>2, <1>3 DEF Next, ControlStep

(***************************************************************************)
(* No thread, joined or not, publishes or sends more than one item once    *)
(* stop() has set its event, whatever the number of streams.               *)
(***************************************************************************)
THEOREM StopIsHeeded == Spec => []OneItemAfterStop
<1>1. Types /\ OneEach => OneItemAfterStop
  <2> SUFFICES ASSUME Types, OneEach, NEW t \in Threads PROVE late[t] <= 1
    BY DEF OneItemAfterStop
  <2>1. late[t] \in Nat /\ late[t] <= IF thread[t] \in Acting THEN 0 ELSE 1
    BY DEF Types, LateTypes, OneEach
  <2>2. QED
    BY <2>1
<1>2. Spec => [](Types /\ OneEach)
  BY TypeInit, TypeNext, StopInit, StopNext, PTL DEF Spec
<1> QED BY <1>1, <1>2, PTL

(***************************************************************************)
(* Guidance.  What waits and what was sent is in order, and none of it is  *)
(* as new as the message the ROS side is still putting into the queue; the *)
(* control thread puts nothing but voice configurations.                   *)
(***************************************************************************)
Ordered(q, s) ==
    /\ \A i, j \in DOMAIN s : i < j => s[i] < s[j]
    /\ \A i, j \in DOMAIN q :
           i < j /\ q[i].kind = "guidance" /\ q[j].kind = "guidance" => q[i].n < q[j].n
    /\ \A i \in DOMAIN s, j \in DOMAIN q : q[j].kind = "guidance" => s[i] < q[j].n

UpTo(q, s, bound) ==
    /\ \A i \in DOMAIN s : s[i] <= bound
    /\ \A j \in DOMAIN q : q[j].kind = "guidance" => q[j].n <= bound

Offered == IF put["ros"] = Idle THEN guided ELSE guided - 1
PutsNewest == put["ros"] # Idle => put["ros"].command = Guidance(guided)
PutsVoice == put["control"] # Idle => put["control"].command.kind # "guidance"

GuidanceInv == Ordered(queue, sent) /\ UpTo(queue, sent, Offered) /\ PutsNewest /\ PutsVoice

(* A command at the end of the queue, no guidance or newer than all of it. *)
LEMMA AppendOrdered ==
    ASSUME NEW q \in Seq(Commands), NEW s \in Seq(Nat), NEW bound \in Int, NEW new \in Int,
           NEW c \in Commands, Ordered(q, s), UpTo(q, s, bound), bound <= new,
           c.kind = "guidance" => bound < c.n /\ c.n <= new
    PROVE  Ordered(Append(q, c), s) /\ UpTo(Append(q, c), s, new)
<1>1. \A d \in Commands : d.n \in Int
  BY BoundAssumption DEF Commands
<1>2. /\ DOMAIN q = 1 .. Len(q) /\ Len(q) \in Nat
      /\ DOMAIN Append(q, c) = 1 .. Len(q) + 1
      /\ \A i \in 1 .. Len(q) : Append(q, c)[i] = q[i] /\ q[i] \in Commands
      /\ Append(q, c)[Len(q) + 1] = c
  OBVIOUS
<1>3. UpTo(Append(q, c), s, new)
  BY <1>1, <1>2 DEF UpTo
<1>4. Ordered(Append(q, c), s)
  <2> DEFINE r == Append(q, c)
  <2>1. /\ DOMAIN r = 1 .. Len(q) + 1 /\ Len(q) \in Nat
        /\ \A i \in 1 .. Len(q) : r[i] = q[i] /\ i \in DOMAIN q /\ q[i].n \in Int
        /\ r[Len(q) + 1] = c /\ c.n \in Int
        /\ \A i \in DOMAIN s : s[i] \in Int
    BY <1>1, <1>2
  <2> HIDE DEF r
  <2>2. ASSUME NEW i \in DOMAIN r, NEW j \in DOMAIN r, i < j,
               r[i].kind = "guidance", r[j].kind = "guidance"
        PROVE  r[i].n < r[j].n
    <3>1. i \in 1 .. Len(q)
      BY <2>1, <2>2
    <3>2. CASE j \in 1 .. Len(q)
      BY <2>1, <2>2, <3>1, <3>2 DEF Ordered
    <3>3. CASE j = Len(q) + 1
      BY <2>1, <2>2, <3>1, <3>3 DEF UpTo
    <3> QED BY <2>1, <3>2, <3>3
  <2>3. ASSUME NEW i \in DOMAIN s, NEW j \in DOMAIN r, r[j].kind = "guidance"
        PROVE  s[i] < r[j].n
    <3>1. CASE j \in 1 .. Len(q)
      BY <2>1, <2>3, <3>1 DEF Ordered
    <3>2. CASE j = Len(q) + 1
      BY <2>1, <2>3, <3>2 DEF UpTo
    <3> QED BY <2>1, <3>1, <3>2
  <2>4. \A i, j \in DOMAIN s : i < j => s[i] < s[j]
    BY DEF Ordered
  <2> QED BY <2>2, <2>3, <2>4 DEF Ordered, r
<1> QED BY <1>3, <1>4

(* The oldest command leaves the queue, and is sent or not.                *)
LEMMA TailOrdered ==
    ASSUME NEW q \in Seq(Commands), NEW s \in Seq(Nat), NEW bound \in Int,
           q # <<>>, Ordered(q, s), UpTo(q, s, bound)
    PROVE  /\ Ordered(Tail(q), s) /\ UpTo(Tail(q), s, bound)
           /\ Head(q).kind = "guidance" =>
                  /\ Ordered(Tail(q), Append(s, Head(q).n))
                  /\ UpTo(Tail(q), Append(s, Head(q).n), bound)
<1>1. \A d \in Commands : d.n \in Nat
  BY BoundAssumption DEF Commands
<1>2. /\ DOMAIN q = 1 .. Len(q) /\ Len(q) \in Nat \ {0}
      /\ DOMAIN Tail(q) = 1 .. Len(q) - 1
      /\ \A i \in 1 .. Len(q) : q[i] \in Commands
      /\ \A i \in 1 .. Len(q) - 1 : Tail(q)[i] = q[i + 1]
      /\ Head(q) = q[1]
  OBVIOUS
<1>3. Ordered(Tail(q), s) /\ UpTo(Tail(q), s, bound)
  BY <1>1, <1>2 DEF Ordered, UpTo
<1>4. ASSUME Head(q).kind = "guidance"
      PROVE  /\ Ordered(Tail(q), Append(s, Head(q).n))
             /\ UpTo(Tail(q), Append(s, Head(q).n), bound)
  <2> DEFINE n == Head(q).n
  <2>1. n \in Nat /\ n <= bound
    BY <1>1, <1>2, <1>4 DEF UpTo
  <2>2. /\ DOMAIN s = 1 .. Len(s) /\ Len(s) \in Nat
        /\ DOMAIN Append(s, n) = 1 .. Len(s) + 1
        /\ \A i \in 1 .. Len(s) : Append(s, n)[i] = s[i] /\ s[i] \in Nat
        /\ Append(s, n)[Len(s) + 1] = n
    BY <2>1
  <2>3. \A i \in DOMAIN s : s[i] < n
    BY <1>2, <1>4 DEF Ordered
  <2>4. \A j \in DOMAIN Tail(q) : Tail(q)[j].kind = "guidance" => n < Tail(q)[j].n
    BY <1>2, <1>4 DEF Ordered
  <2> HIDE DEF n
  <2>5. UpTo(Tail(q), Append(s, n), bound)
    BY <1>3, <2>1, <2>2 DEF UpTo
  <2>6. Ordered(Tail(q), Append(s, n))
    <3> DEFINE r == Append(s, n)
    <3>1. /\ DOMAIN r = 1 .. Len(s) + 1 /\ Len(s) \in Nat
          /\ \A i \in 1 .. Len(s) : r[i] = s[i] /\ i \in DOMAIN s /\ s[i] < n /\ s[i] \in Nat
          /\ r[Len(s) + 1] = n
      BY <2>2, <2>3
    <3> HIDE DEF r
    <3>2. \A i, j \in DOMAIN r : i < j => r[i] < r[j]
      BY <3>1 DEF Ordered
    <3>3. \A i \in DOMAIN r, j \in DOMAIN Tail(q) :
              Tail(q)[j].kind = "guidance" => r[i] < Tail(q)[j].n
      BY <1>3, <2>4, <3>1 DEF Ordered
    <3> QED BY <1>3, <3>2, <3>3 DEF Ordered, r
  <2> QED BY <2>5, <2>6 DEF n
<1> QED BY <1>3, <1>4

(* The types the two lemmas ask for.                                       *)
LEMMA GuidanceFacts ==
    ASSUME Types
    PROVE  /\ queue \in Seq(Commands) /\ sent \in Seq(Nat)
           /\ guided \in Nat /\ Offered \in Int
           /\ \A e \in Enqueuers : put[e].stage # "idle" => put[e] # Idle
           /\ \A e \in Enqueuers : put[e] # Idle => put[e].command \in Commands
<1>1. 1 .. MaxGuidance \subseteq Nat
  OBVIOUS
<1>2. queue \in Seq(Commands) /\ guided \in Nat /\ sent \in Seq(Nat)
  BY <1>1, BoundAssumption DEF Types, QueueTypes, GuidanceTypes
<1>3. \A e \in Enqueuers : put[e] # Idle => put[e].command \in Commands
  BY DEF Types, PutTypes, Puts
<1> QED BY <1>2, <1>3 DEF Offered, Idle

LEMMA GuidanceInit == Init => GuidanceInv
<1> SUFFICES ASSUME Init PROVE GuidanceInv
  OBVIOUS
<1>1. PutsNewest /\ PutsVoice /\ Offered = 0 /\ sent = <<>>
  BY DEF Init, PutsNewest, PutsVoice, Offered, Enqueuers
<1>2. CASE queue = <<>>
  BY <1>1, <1>2 DEF GuidanceInv, Ordered, UpTo
<1>3. CASE queue = <<Profile>>
  <2>1. DOMAIN queue = {1} /\ queue[1].kind = "video_profile" /\ DOMAIN sent = {}
    BY <1>1, <1>3 DEF Profile
  <2> QED BY <1>1, <2>1 DEF GuidanceInv, Ordered, UpTo
<1> QED BY <1>2, <1>3 DEF Init

(* A step that touches neither the queue nor what is put or sent.          *)
LEMMA QuietGuidance ==
    ASSUME GuidanceInv, UNCHANGED <<queue, sent, put, guided>>
    PROVE  GuidanceInv'
BY DEF GuidanceInv, Ordered, UpTo, Offered, PutsNewest, PutsVoice

LEMMA PutGuidance ==
    ASSUME NEW e \in Enqueuers, Types, GuidanceInv, EvictOldest(e) \/ PutAgain(e)
    PROVE  GuidanceInv'
<1> USE GuidanceFacts DEF GuidanceInv
<1> e \in {"ros", "control"} /\ put \in [{"ros", "control"} -> Puts]
  BY DEF Types, PutTypes, Enqueuers
<1>1. CASE EvictOldest(e)
  <2>1. UNCHANGED <<sent, guided>> /\ put[e] # Idle /\ put[e].stage = "full"
    BY <1>1 DEF EvictOldest, Idle, controlVars, counts
  <2>2. put[e] \in [stage : {"full", "evicted"}, command : Commands]
    BY <2>1 DEF Puts
  <2>3. put' = [put EXCEPT ![e] = [put[e] EXCEPT !.stage = "evicted"]]
    BY <1>1 DEF EvictOldest
  <2>4. /\ put'[e] # Idle /\ put'[e].command = put[e].command
        /\ \A d \in {"ros", "control"} \ {e} : put'[d] = put[d]
    BY <2>2, <2>3 DEF Idle
  <2>5. PutsNewest' /\ PutsVoice' /\ Offered' = Offered
    BY <2>1, <2>4 DEF PutsNewest, PutsVoice, Offered
  <2>6. Ordered(queue', sent) /\ UpTo(queue', sent, Offered)
    BY <1>1, TailOrdered DEF EvictOldest
  <2> QED BY <2>1, <2>5, <2>6
<1>2. CASE PutAgain(e)
  <2>1. /\ UNCHANGED <<sent, guided>> /\ put[e] # Idle /\ put' = [put EXCEPT ![e] = Idle]
        /\ queue' = queue \/ queue' = Append(queue, put[e].command)
    BY <1>2 DEF PutAgain, Idle, controlVars, counts
  <2>2. PutsNewest' /\ PutsVoice'
    BY <2>1 DEF PutsNewest, PutsVoice
  <2>3. /\ Offered <= Offered' /\ Offered' \in Int
        /\ e = "ros" => Offered = guided - 1 /\ Offered' = guided
    BY <2>1 DEF Offered
  <2>4. put[e].command.kind = "guidance" =>
            Offered < put[e].command.n /\ put[e].command.n <= Offered'
    BY <2>1, <2>3 DEF PutsNewest, PutsVoice, Guidance
  <2>5. Ordered(queue', sent) /\ UpTo(queue', sent, Offered')
    <3>1. CASE queue' = queue
      <4>1. sent \in Seq(Nat) /\ \A i \in DOMAIN sent : sent[i] \in Nat
        OBVIOUS
      <4>2. \A j \in DOMAIN queue : queue[j].n \in Nat
        BY BoundAssumption DEF Commands
      <4> QED BY <2>3, <3>1, <4>1, <4>2 DEF UpTo
    <3>2. CASE queue' = Append(queue, put[e].command)
      BY <2>1, <2>3, <2>4, <3>2, AppendOrdered
    <3> QED BY <2>1, <3>1, <3>2
  <2> QED BY <2>1, <2>2, <2>5
<1> QED BY <1>1, <1>2

LEMMA OnGuidanceStep ==
    ASSUME Types, GuidanceInv, OnGuidance
    PROVE  GuidanceInv'
<1> USE GuidanceFacts DEF GuidanceInv
<1> put \in [{"ros", "control"} -> Puts]
  BY DEF Types, PutTypes, Enqueuers
<1>1. /\ put["ros"] = Idle /\ guided' = guided + 1 /\ sent' = sent
      /\ guided + 1 \in 1 .. MaxGuidance
  BY BoundAssumption DEF OnGuidance, controlVars
<1>2. Offered = guided
  BY <1>1 DEF Offered
<1>3. /\ Guidance(guided + 1) \in Commands
      /\ Guidance(guided + 1).kind = "guidance" /\ Guidance(guided + 1).n = guided + 1
  BY <1>1, CommandTypes DEF Guidance
<1>4. CASE Len(queue) < QueueSize
  <2>1. queue' = Append(queue, Guidance(guided + 1)) /\ put' = put
    BY <1>4 DEF OnGuidance, Enqueue
  <2>2. Offered' = guided + 1 /\ PutsNewest' /\ PutsVoice'
    BY <1>1, <2>1 DEF Offered, PutsNewest, PutsVoice
  <2>3. /\ Ordered(Append(queue, Guidance(guided + 1)), sent)
        /\ UpTo(Append(queue, Guidance(guided + 1)), sent, guided + 1)
    <3> DEFINE c == Guidance(guided + 1)
               new == guided + 1
    <3>1. /\ c \in Commands /\ guided \in Int /\ new \in Int
          /\ guided < c.n /\ c.n <= new /\ guided <= new
      BY <1>3
    <3>2. /\ Ordered(queue, sent) /\ UpTo(queue, sent, guided)
          /\ queue \in Seq(Commands) /\ sent \in Seq(Nat)
      BY <1>2
    <3> HIDE DEF c, new
    <3>3. Ordered(Append(queue, c), sent) /\ UpTo(Append(queue, c), sent, new)
      BY ONLY <3>1, <3>2, AppendOrdered
    <3> QED BY <3>3 DEF c, new
  <2> QED BY <1>1, <2>1, <2>2, <2>3
<1>5. CASE ~(Len(queue) < QueueSize)
  <2>1. /\ queue' = queue
        /\ put' = [put EXCEPT !["ros"] = [stage |-> "full", command |-> Guidance(guided + 1)]]
    BY <1>5 DEF OnGuidance, Enqueue
  <2>2. put'["ros"] # Idle /\ put'["ros"].command = Guidance(guided')
        /\ put'["control"] = put["control"]
    BY <1>1, <2>1 DEF Idle
  <2>3. Offered' = Offered /\ PutsNewest' /\ PutsVoice'
    BY <1>1, <1>2, <2>2 DEF Offered, PutsNewest, PutsVoice
  <2> QED BY <1>1, <2>1, <2>3
<1> QED BY <1>4, <1>5

LEMMA ControlGuidance ==
    ASSUME Types, GuidanceInv, ControlGreeted \/ Send
    PROVE  GuidanceInv'
<1> USE GuidanceFacts DEF GuidanceInv
<1> put \in [{"ros", "control"} -> Puts]
  BY DEF Types, PutTypes, Enqueuers
<1>1. CASE ControlGreeted
  <2>1. UNCHANGED <<sent, guided>>
    BY <1>1 DEF ControlGreeted, controlVars, counts
  <2>2. CASE UNCHANGED <<queue, put>>
    BY <2>1, <2>2, QuietGuidance
  <2>3. CASE VoiceEnabled
    <3>1. conn \in 1 .. MaxConnections
      BY <1>1, BoundAssumption DEF ControlGreeted, Types, ConnTypes, Counted
    <3>2. Voice(conn) \in Commands /\ Voice(conn).kind # "guidance"
      BY <3>1, CommandTypes DEF Voice
    <3>3. CASE queue' = Append(queue, Voice(conn)) /\ put' = put
      <4>1. Ordered(Append(queue, Voice(conn)), sent)
            /\ UpTo(Append(queue, Voice(conn)), sent, Offered)
        <5> DEFINE c == Voice(conn)
        <5>1. c \in Commands /\ c.kind # "guidance" /\ Offered <= Offered
          BY <3>2
        <5> HIDE DEF c
        <5>2. Ordered(Append(queue, c), sent) /\ UpTo(Append(queue, c), sent, Offered)
          BY <5>1, AppendOrdered
        <5> QED BY <5>2 DEF c
      <4> QED BY <2>1, <3>3, <4>1 DEF Offered, PutsNewest, PutsVoice
    <3>4. CASE /\ put' = [put EXCEPT !["control"] = [stage |-> "full", command |-> Voice(conn)]]
               /\ queue' = queue
      BY <2>1, <3>2, <3>4 DEF Offered, PutsNewest, PutsVoice
    <3> QED BY <1>1, <2>3, <3>3, <3>4 DEF ControlGreeted, Enqueue
  <2> QED BY <1>1, <2>2, <2>3 DEF ControlGreeted
<1>2. CASE Send
  <2>1. /\ queue # <<>> /\ queue' = Tail(queue) /\ UNCHANGED <<put, guided>>
        /\ sent' = IF Head(queue).kind = "guidance" THEN Append(sent, Head(queue).n) ELSE sent
    BY <1>2 DEF Send
  <2>2. Offered' = Offered /\ PutsNewest' /\ PutsVoice'
    BY <2>1 DEF Offered, PutsNewest, PutsVoice
  <2> QED BY <2>1, <2>2, TailOrdered
<1> QED BY <1>1, <1>2

LEMMA GuidanceNext == Types /\ GuidanceInv /\ [Next]_vars => GuidanceInv'
<1> SUFFICES ASSUME Types, GuidanceInv, [Next]_vars PROVE GuidanceInv'
  OBVIOUS
<1>1. CASE (\E t \in Streams : StreamStep(t) \/ Arrival(t)) \/ UNCHANGED vars
  <2>1. UNCHANGED <<queue, put, sent, guided>>
    BY <1>1 DEF StreamStep, Arrival, Top, Connect, ConnectFails, Track, ReadEnds, Wake, Greeted,
                TestStop, Publish, PublishFails, ReadItem, SkipItem, ReadFails, Hangup, vars,
                controlVars, counts
  <2> QED BY <2>1, QuietGuidance
<1>2. CASE ControlStep
  <2>1. CASE ControlGreeted \/ Send
    BY <2>1, ControlGuidance
  <2>2. CASE EvictOldest("control") \/ PutAgain("control")
    BY <2>2, PutGuidance DEF Enqueuers
  <2>3. CASE ~(ControlGreeted \/ Send \/ EvictOldest("control") \/ PutAgain("control"))
    <3>1. UNCHANGED <<queue, put, sent, guided>>
      BY <1>2, <2>3 DEF ControlStep, Top, Connect, ConnectFails, Track, ReadEnds, Wake,
                  GreetingTimeout, ControlTestsStop, NothingToSend, Acknowledged, EmptyAck,
                  AckTimeout, Hangup, controlVars, counts
    <3> QED BY <3>1, QuietGuidance
  <2> QED BY <2>1, <2>2, <2>3
<1>3. CASE RosStep
  BY <1>3, PutGuidance DEF RosStep, Enqueuers
<1>4. CASE OnGuidance
  BY <1>4, OnGuidanceStep
<1>5. CASE RequestStop \/ StopStep \/ HeadsetObeys \/ StrayLine \/ \E t \in Threads : LinkLost(t)
  <2>1. UNCHANGED <<queue, put, sent, guided>>
    BY <1>5 DEF RequestStop, StopStep, SnapshotSockets, CloseSocket, StartJoin, Join,
                DestroyNode, HeadsetObeys, StrayLine, LinkLost, controlVars, counts
  <2> QED BY <2>1, QuietGuidance
<1> QED BY <1>1, <1>2, <1>3, <1>4, <1>5 DEF Next

(***************************************************************************)
(* However often the queue overflows, under both threads that fill it, and *)
(* however many connections are lost, guidance is sent at most once and in *)
(* the order it came.                                                      *)
(***************************************************************************)
THEOREM GuidanceKeepsOrder == Spec => []GuidanceInOrder
<1>1. GuidanceInv => GuidanceInOrder
  BY DEF GuidanceInv, Ordered, GuidanceInOrder
<1>2. Spec => [](Types /\ GuidanceInv)
  BY TypeInit, TypeNext, GuidanceInit, GuidanceNext, PTL DEF Spec
<1> QED BY <1>1, <1>2, PTL

-----------------------------------------------------------------------------
(* The pose of a video frame (TeammateFrames).                             *)
Rotations == [1..3 -> Vectors]
Quaternions == [1..4 -> Int]
CameraPoses == [position : Vectors, rotation : Quaternions]
Samples == [timestamp : Nat, arrival : Int, pose : CameraPoses]
Views == [position : Vectors, rotation : Rotations]

(* The poses the headset may send. *)
Payloads == UNION {{s[k] : k \in DOMAIN s} : s \in Sessions}

(* A set of numbers that is not empty has a least one. *)
LEMMA LeastExists ==
    ASSUME NEW S \in SUBSET Nat, S # {}
    PROVE  \E n \in S : \A m \in S : n <= m
<1>1. PICK x \in S : \A y \in S : ~(<<y, x>> \in OpToRel(<, Nat))
  <2>1. IsWellFoundedOn(OpToRel(<, Nat), Nat)
    BY NatLessThanWellFounded
  <2>2. QED
    BY <2>1, WFMin
<1>2. ASSUME NEW y \in S PROVE x <= y
  <2>1. ~(y < x)
    BY <1>1 DEF OpToRel
  <2>2. QED
    BY <2>1
<1>3. QED
  BY <1>2

(* How far samples are from a moment is a number. *)
LEMMA ApartType ==
    ASSUME NEW a, a.timestamp \in Nat, NEW t \in Nat
    PROVE  Apart(a, t) \in Nat
BY DEF Apart, Abs

LEMMA ApartSame ==
    ASSUME NEW a, NEW b, a.timestamp = b.timestamp, NEW t
    PROVE  Apart(a, t) = Apart(b, t)
BY DEF Apart

(* Where the code looks, and what it finds there. *)
LEMMA NearestFound ==
    ASSUME NEW samples \in Seq(Samples), NEW t \in Nat
    PROVE  \/ /\ Nearest(samples, t) \in DOMAIN samples
              /\ Nearest(samples, t) > 0 /\ t > 0
              /\ Apart(samples[Nearest(samples, t)], t) <= MaxDelta
              /\ \A j \in DOMAIN samples : Apart(samples[Nearest(samples, t)], t)
                                             <= Apart(samples[j], t)
           \/ /\ Nearest(samples, t) = 0
              /\ t = 0 \/ \A j \in DOMAIN samples : ~(Apart(samples[j], t) <= MaxDelta)
<1> DEFINE close == Closest(samples, t)
           near == {i \in close : Apart(samples[i], t) <= MaxDelta}
<1>1. /\ DOMAIN samples = 1..Len(samples) /\ Len(samples) \in Nat
      /\ \A i \in DOMAIN samples : Apart(samples[i], t) \in Nat
  <2>1. \A i \in DOMAIN samples : samples[i].timestamp \in Nat
    <3>1. \A i \in DOMAIN samples : samples[i] \in Samples
      OBVIOUS
    <3>2. QED
      BY <3>1 DEF Samples
  <2>2. QED
    BY <2>1, ApartType
<1>2. near \subseteq DOMAIN samples /\ near \subseteq Nat
  BY <1>1 DEF Closest
<1>3. Nearest(samples, t)
          = IF t = 0 \/ near = {} THEN 0 ELSE CHOOSE i \in near : \A j \in near : i <= j
  BY DEF Nearest
<1>4. CASE t = 0
  BY <1>3, <1>4
<1>5. CASE t # 0 /\ near # {}
  <2>1. (CHOOSE i \in near : \A j \in near : i <= j) \in near
    BY <1>2, <1>5, LeastExists
  <2> HIDE DEF near
  <2>2. Nearest(samples, t) \in near
    BY <1>3, <1>5, <2>1
  <2>3. QED
    BY <1>1, <1>2, <1>5, <2>2 DEF near, Closest
<1>6. CASE t # 0 /\ near = {}
  <2>1. ASSUME NEW j \in DOMAIN samples, Apart(samples[j], t) <= MaxDelta
        PROVE  FALSE
    <3> DEFINE distances == {Apart(samples[i], t) : i \in DOMAIN samples}
    <3>1. distances \in SUBSET Nat /\ distances # {}
      BY <1>1
    <3>2. PICK least \in distances : \A m \in distances : least <= m
      BY <3>1, LeastExists
    <3>3. PICK i \in DOMAIN samples : Apart(samples[i], t) = least
      BY <3>2
    <3>4. i \in close
      BY <3>2, <3>3 DEF Closest
    <3>5. Apart(samples[i], t) <= MaxDelta
      <4>1. least \in Nat /\ Apart(samples[j], t) \in Nat /\ MaxDelta \in Nat
        BY <1>1, <3>1, <3>2, HistoryAssumption
      <4>2. least <= Apart(samples[j], t)
        BY <3>2
      <4> HIDE DEF distances
      <4>3. QED
        BY <2>1, <3>3, <4>1, <4>2
    <3>6. QED
      BY <1>6, <3>4, <3>5
  <2>2. QED
    BY <1>3, <1>6, <2>1
<1>7. QED
  BY <1>4, <1>5, <1>6

(* Directions along the axes stay there in the frames of ROS. *)
LEMMA DirectionType ==
    ASSUME NEW v \in Axes \cup {Missing}, NEW default \in Axes
    PROVE  Normalize(UnityToRos(v), default) \in Axes
BY DEF Axes, Missing, UnityToRos, Normalize

LEMMA Triple ==
    ASSUME NEW S, NEW a \in S, NEW b \in S, NEW c \in S
    PROVE  <<a, b, c>> \in [1..3 -> S]
OBVIOUS

(* Triples of triples, and what is done to them. *)
LEMMA VectorTypes ==
    /\ \A a, b \in Vectors : /\ Plus(a, b) \in Vectors
                                    /\ Minus(a, b) \in Vectors
                                    /\ Cross(a, b) \in Vectors
    /\ \A a \in Vectors : UnityToRos(a) \in Vectors
    /\ \A r \in Rotations, a \in Vectors : Rotate(r, a) \in Vectors
    /\ Axes \subseteq Vectors /\ Missing \in Vectors
<1>1. ASSUME NEW a \in Vectors, NEW b \in Vectors
      PROVE  /\ Plus(a, b) \in Vectors
             /\ Minus(a, b) \in Vectors
             /\ Cross(a, b) \in Vectors
             /\ UnityToRos(a) \in Vectors
  <2>1. \A i \in 1..3 : a[i] \in Int /\ b[i] \in Int
    BY DEF Vectors
  <2>2. Plus(a, b) \in Vectors /\ Minus(a, b) \in Vectors
    BY <2>1 DEF Vectors, Plus, Minus
  <2>3. UnityToRos(a) \in Vectors
    BY <2>1, Triple DEF Vectors, UnityToRos
  <2>4. /\ a[2] * b[3] - a[3] * b[2] \in Int
        /\ a[3] * b[1] - a[1] * b[3] \in Int
        /\ a[1] * b[2] - a[2] * b[1] \in Int
    BY <2>1
  <2>5. Cross(a, b) \in Vectors
    BY <2>4, Triple DEF Vectors, Cross
  <2>6. QED
    BY <2>2, <2>3, <2>5
<1>2. ASSUME NEW r \in Rotations, NEW a \in Vectors
      PROVE  Rotate(r, a) \in Vectors
  <2>1. \A i \in 1..3 : a[i] \in Int /\ r[1][i] \in Int /\ r[2][i] \in Int /\ r[3][i] \in Int
    BY DEF Vectors, Rotations
  <2>2. \A i \in 1..3 : r[1][i] * a[1] + r[2][i] * a[2] + r[3][i] * a[3] \in Int
    BY <2>1
  <2>3. QED
    BY <2>2 DEF Vectors, Rotate
<1>3. Axes \subseteq Vectors /\ Missing \in Vectors
  BY Triple DEF Axes, Missing, Vectors
<1>4. QED
  BY <1>1, <1>2, <1>3

(* Rotations along the axes. *)
AxisRotations ==
    {r \in [1..3 -> Axes] :
        Dot(r[1], r[2]) = 0 /\ r[3] = Cross(r[1], r[2])}

(* The first two columns of such a rotation are along different axes, and      *)
(* with their signs they say what the third is.                                *)
IsColumn(c, i, sign) == c = [k \in 1..3 |-> IF k = i THEN sign ELSE 0]

LEMMA AxisColumn ==
    ASSUME NEW a \in Axes
    PROVE  a \in Vectors /\ \E i \in 1..3, sign \in {-1, 1} : IsColumn(a, i, sign)
<1>2. a \in Vectors
  BY VectorTypes
<1>3. a = [k \in 1..3 |-> a[k]]
  BY <1>2 DEF Vectors
<1>4. \/ a[1] \in {-1, 1} /\ a[2] = 0 /\ a[3] = 0
      \/ a[1] = 0 /\ a[2] \in {-1, 1} /\ a[3] = 0
      \/ a[1] = 0 /\ a[2] = 0 /\ a[3] \in {-1, 1}
  BY DEF Axes
<1>5. CASE a[1] \in {-1, 1} /\ a[2] = 0 /\ a[3] = 0
  <2>1. IsColumn(a, 1, a[1])
    BY <1>3, <1>5 DEF IsColumn
  <2>2. QED
    BY <1>2, <1>5, <2>1
<1>6. CASE a[1] = 0 /\ a[2] \in {-1, 1} /\ a[3] = 0
  <2>1. IsColumn(a, 2, a[2])
    BY <1>3, <1>6 DEF IsColumn
  <2>2. QED
    BY <1>2, <1>6, <2>1
<1>7. CASE a[1] = 0 /\ a[2] = 0 /\ a[3] \in {-1, 1}
  <2>1. IsColumn(a, 3, a[3])
    BY <1>3, <1>7 DEF IsColumn
  <2>2. QED
    BY <1>2, <1>7, <2>1
<1>8. QED
  BY <1>4, <1>5, <1>6, <1>7

LEMMA ColumnsOf ==
    ASSUME NEW r \in AxisRotations
    PROVE  /\ r \in Rotations
           /\ r[1] \in Axes /\ r[2] \in Axes /\ r[3] \in Axes
           /\ r[3][1] = r[1][2] * r[2][3] - r[1][3] * r[2][2]
           /\ r[3][2] = r[1][3] * r[2][1] - r[1][1] * r[2][3]
           /\ r[3][3] = r[1][1] * r[2][2] - r[1][2] * r[2][1]
           /\ r[1][1] * r[2][1] + r[1][2] * r[2][2] + r[1][3] * r[2][3] = 0
<1>1. r \in Rotations
  BY VectorTypes DEF AxisRotations, Rotations
<1>2. QED
  BY <1>1 DEF AxisRotations, Cross, Dot

Inverted(r) == [column \in 1..3 |-> [i \in 1..3 |-> r[i][column]]]

(* A quaternion turns by a rotation when the matrix of the one, times its norm,  *)
(* is the other's.                                                              *)
Scaled(q) ==
    LET x == q[1]
        y == q[2]
        z == q[3]
        w == q[4]
    IN <<<<w*w + x*x - y*y - z*z, 2 * (x*y + w*z), 2 * (x*z - w*y)>>,
         <<2 * (x*y - w*z), w*w - x*x + y*y - z*z, 2 * (y*z + w*x)>>,
         <<2 * (x*z + w*y), 2 * (y*z - w*x), w*w - x*x - y*y + z*z>>>>

Turns(q, r) ==
    /\ q \in Quaternions /\ r \in Rotations
    /\ \A c, i \in 1..3 : Scaled(q)[c][i] = Norm(q) * r[c][i]

Norms == {1, 2, 4, 8, 16, 32, 64, 128, 256}

LEMMA DivideExactly ==
    ASSUME NEW n \in Norms, NEW x \in Int
    PROVE  (n * x) \div n = x
<1>1. /\ (1 * x) \div 1 = x /\ (2 * x) \div 2 = x /\ (4 * x) \div 4 = x /\ (8 * x) \div 8 = x
      /\ (16 * x) \div 16 = x /\ (32 * x) \div 32 = x /\ (64 * x) \div 64 = x
      /\ (128 * x) \div 128 = x /\ (256 * x) \div 256 = x
  OBVIOUS
<1> QED BY <1>1 DEF Norms

LEMMA MatrixOfTurn ==
    ASSUME NEW q, NEW r, Turns(q, r), Norm(q) \in Norms
    PROVE  MatrixOf(q) = r
<1>1. \A c, i \in 1..3 : r[c][i] \in Int
  BY DEF Turns, Rotations, Vectors
<1>2. \A c, i \in 1..3 : Scaled(q)[c][i] \div Norm(q) = r[c][i]
  <2> SUFFICES ASSUME NEW c \in 1..3, NEW i \in 1..3
               PROVE  Scaled(q)[c][i] \div Norm(q) = r[c][i]
    OBVIOUS
  <2>1. Scaled(q)[c][i] = Norm(q) * r[c][i]
    BY DEF Turns
  <2>2. (Norm(q) * r[c][i]) \div Norm(q) = r[c][i]
    BY <1>1, DivideExactly
  <2> QED BY <2>1, <2>2
<1>3. MatrixOf(q) = <<<<r[1][1], r[1][2], r[1][3]>>, <<r[2][1], r[2][2], r[2][3]>>,
                      <<r[3][1], r[3][2], r[3][3]>>>>
  <2> DEFINE n == Norm(q)
             s == Scaled(q)
  <2>1. MatrixOf(q) = <<<<s[1][1] \div n, s[1][2] \div n, s[1][3] \div n>>,
                        <<s[2][1] \div n, s[2][2] \div n, s[2][3] \div n>>,
                        <<s[3][1] \div n, s[3][2] \div n, s[3][3] \div n>>>>
    BY DEF MatrixOf, Scaled
  <2> HIDE DEF n, s
  <2>2. \A c, i \in 1..3 : s[c][i] \div n = r[c][i]
    BY <1>2 DEF n, s
  <2> QED BY <2>1, <2>2
<1>4. \A c \in 1..3 : r[c] = <<r[c][1], r[c][2], r[c][3]>>
  BY DEF Turns, Rotations, Vectors
<1>5. r = <<r[1], r[2], r[3]>>
  BY DEF Turns, Rotations
<1> QED BY <1>3, <1>4, <1>5

(* An inverse turns back, *)
LEMMA InverseTurns ==
    ASSUME NEW q, NEW r, Turns(q, r)
    PROVE  Turns(QuaternionInverse(q), Inverted(r)) /\ Norm(QuaternionInverse(q)) = Norm(q)
<1> DEFINE p == QuaternionInverse(q)
<1>1. q[1] \in Int /\ q[2] \in Int /\ q[3] \in Int /\ q[4] \in Int
  BY DEF Turns, Quaternions
<1>2. p = <<-q[1], -q[2], -q[3], q[4]>>
  BY DEF QuaternionInverse
<1>3. p \in Quaternions
  BY <1>1, <1>2 DEF Quaternions
<1>4. Inverted(r) \in Rotations /\ \A c, i \in 1..3 : Inverted(r)[c][i] = r[i][c]
  BY DEF Turns, Inverted, Rotations, Vectors
<1> HIDE DEF p
<1>5. Norm(p) = Norm(q)
  BY <1>1, <1>2 DEF Norm
<1>6. \A c, i \in 1..3 : Scaled(p)[c][i] = Scaled(q)[i][c]
  BY <1>1, <1>2 DEF Scaled
<1>7. \A c, i \in 1..3 : Scaled(p)[c][i] = Norm(p) * Inverted(r)[c][i]
  BY <1>4, <1>5, <1>6 DEF Turns
<1> QED BY <1>3, <1>4, <1>5, <1>7 DEF Turns, p

(* a product turns by both, *)
LEMMA ProductEntries ==
    ASSUME NEW x \in Int, NEW y \in Int, NEW z \in Int, NEW w \in Int,
           NEW a \in Int, NEW b \in Int, NEW c \in Int, NEW d \in Int
    PROVE  LET p == <<x, y, z, w>>
               q == <<a, b, c, d>>
               pq == QuaternionMultiply(p, q)
           IN /\ Norm(pq) = Norm(p) * Norm(q)
              /\ \A j, i \in 1..3 : Scaled(pq)[j][i]
                     = Scaled(p)[1][i] * Scaled(q)[j][1] + Scaled(p)[2][i] * Scaled(q)[j][2]
                       + Scaled(p)[3][i] * Scaled(q)[j][3]
<1> DEFINE e == w*a + x*d + y*c - z*b
           f == w*b - x*c + y*d + z*a
           g == w*c + x*b - y*a + z*d
           h == w*d - x*a - y*b - z*c
<1>1. QuaternionMultiply(<<x, y, z, w>>, <<a, b, c, d>>) = <<e, f, g, h>>
  BY DEF QuaternionMultiply
<1>2. e*e + f*f + g*g + h*h = (x*x + y*y + z*z + w*w) * (a*a + b*b + c*c + d*d)
  OBVIOUS
<1> QED BY <1>1, <1>2 DEF Norm, Scaled

LEMMA ProductTurns ==
    ASSUME NEW p, NEW q, NEW r, NEW s, Turns(p, r), Turns(q, s)
    PROVE  /\ Turns(QuaternionMultiply(p, q), Multiply(r, s))
           /\ Norm(QuaternionMultiply(p, q)) = Norm(p) * Norm(q)
<1> DEFINE pq == QuaternionMultiply(p, q)
           m == Norm(p)
           n == Norm(q)
<1>1. /\ p[1] \in Int /\ p[2] \in Int /\ p[3] \in Int /\ p[4] \in Int
      /\ q[1] \in Int /\ q[2] \in Int /\ q[3] \in Int /\ q[4] \in Int
      /\ p = <<p[1], p[2], p[3], p[4]>> /\ q = <<q[1], q[2], q[3], q[4]>>
  BY DEF Turns, Quaternions
<1>2. /\ Norm(pq) = m * n
      /\ \A j, i \in 1..3 : Scaled(pq)[j][i]
             = Scaled(p)[1][i] * Scaled(q)[j][1] + Scaled(p)[2][i] * Scaled(q)[j][2]
               + Scaled(p)[3][i] * Scaled(q)[j][3]
  BY <1>1, ProductEntries
<1>3. pq \in Quaternions
  BY <1>1 DEF QuaternionMultiply, Quaternions
<1>4. m \in Int /\ n \in Int
  BY <1>1 DEF Norm
<1>5. \A j, i \in 1..3 : /\ Scaled(p)[j][i] = m * r[j][i] /\ Scaled(q)[j][i] = n * s[j][i]
                         /\ r[j][i] \in Int /\ s[j][i] \in Int
  BY DEF Turns, Rotations, Vectors
<1>6. Multiply(r, s) \in Rotations
  <2>1. \A j, i \in 1..3 : r[1][i] * s[j][1] + r[2][i] * s[j][2] + r[3][i] * s[j][3] \in Int
    BY <1>5
  <2> QED BY <2>1 DEF Multiply, Rotate, Rotations, Vectors
<1> HIDE DEF pq, m, n
<1>7. ASSUME NEW j \in 1..3, NEW i \in 1..3
      PROVE  Scaled(pq)[j][i] = Norm(pq) * Multiply(r, s)[j][i]
  <2>1. PICK a1 \in Int, a2 \in Int, a3 \in Int, b1 \in Int, b2 \in Int, b3 \in Int :
            /\ r[1][i] = a1 /\ r[2][i] = a2 /\ r[3][i] = a3
            /\ s[j][1] = b1 /\ s[j][2] = b2 /\ s[j][3] = b3
    BY <1>5
  <2>2. Scaled(pq)[j][i] = (m * a1) * (n * b1) + (m * a2) * (n * b2) + (m * a3) * (n * b3)
    BY <1>2, <1>5, <2>1
  <2>3. Multiply(r, s)[j][i] = a1 * b1 + a2 * b2 + a3 * b3
    BY <2>1 DEF Multiply, Rotate
  <2>4. (m * a1) * (n * b1) + (m * a2) * (n * b2) + (m * a3) * (n * b3)
            = (m * n) * (a1 * b1 + a2 * b2 + a3 * b3)
    BY <1>4
  <2> QED BY <1>2, <2>2, <2>3, <2>4
<1> QED BY <1>2, <1>3, <1>6, <1>7 DEF Turns, pq, m, n

(* and _rotate_vector turns a vector as the matrix does. *)
LEMMA VectorEntries ==
    ASSUME NEW x \in Int, NEW y \in Int, NEW z \in Int, NEW w \in Int,
           NEW a \in Int, NEW b \in Int, NEW c \in Int
    PROVE  LET q == <<x, y, z, w>>
               v == <<a, b, c>>
           IN \A i \in 1..3 :
                  Norm(q) * v[i] + 2 * q[4] * Cross(q, v)[i] + 2 * Cross(q, Cross(q, v))[i]
                      = Scaled(q)[1][i] * a + Scaled(q)[2][i] * b + Scaled(q)[3][i] * c
BY DEF Norm, Scaled, Cross

LEMMA VectorTurns ==
    ASSUME NEW q, NEW r, Turns(q, r), Norm(q) \in Norms, NEW v \in Vectors
    PROVE  RotateVector(q, v) = Rotate(r, v)
<1>1. /\ q[1] \in Int /\ q[2] \in Int /\ q[3] \in Int /\ q[4] \in Int
      /\ q = <<q[1], q[2], q[3], q[4]>>
      /\ v[1] \in Int /\ v[2] \in Int /\ v[3] \in Int /\ v = <<v[1], v[2], v[3]>>
  BY DEF Turns, Quaternions, Vectors
<1>2. \A i \in 1..3 :
          Norm(q) * v[i] + 2 * q[4] * Cross(q, v)[i] + 2 * Cross(q, Cross(q, v))[i]
              = Scaled(q)[1][i] * v[1] + Scaled(q)[2][i] * v[2] + Scaled(q)[3][i] * v[3]
  BY <1>1, VectorEntries
<1>3. \A j, i \in 1..3 : Scaled(q)[j][i] = Norm(q) * r[j][i] /\ r[j][i] \in Int
  BY DEF Turns, Rotations, Vectors
<1>4. ASSUME NEW i \in 1..3
      PROVE  (Norm(q) * v[i] + 2 * q[4] * Cross(q, v)[i] + 2 * Cross(q, Cross(q, v))[i])
                 \div Norm(q) = Rotate(r, v)[i]
  <2> DEFINE n == Norm(q)
             sum == r[1][i] * v[1] + r[2][i] * v[2] + r[3][i] * v[3]
  <2>1. sum \in Int /\ n \in Int /\ n \in Norms
    BY <1>1, <1>3 DEF Norms
  <2>2. Norm(q) * v[i] + 2 * q[4] * Cross(q, v)[i] + 2 * Cross(q, Cross(q, v))[i] = n * sum
    <3>1. PICK a1 \in Int, a2 \in Int, a3 \in Int, b1 \in Int, b2 \in Int, b3 \in Int :
            /\ r[1][i] = a1 /\ r[2][i] = a2 /\ r[3][i] = a3
            /\ v[1] = b1 /\ v[2] = b2 /\ v[3] = b3
      BY <1>1, <1>3
    <3>2. Scaled(q)[1][i] * v[1] + Scaled(q)[2][i] * v[2] + Scaled(q)[3][i] * v[3]
              = (n * a1) * b1 + (n * a2) * b2 + (n * a3) * b3
      BY <1>3, <3>1
    <3> HIDE DEF n
    <3>3. (n * a1) * b1 + (n * a2) * b2 + (n * a3) * b3 = n * (a1 * b1 + a2 * b2 + a3 * b3)
      BY <2>1
    <3> QED BY <1>2, <3>1, <3>2, <3>3
  <2>3. Rotate(r, v)[i] = sum
    BY DEF Rotate
  <2>4. (n * sum) \div n = sum
    <3> HIDE DEF n, sum
    <3> QED BY <2>1, DivideExactly
  <2> HIDE DEF sum
  <2> QED BY <2>2, <2>3, <2>4
<1> QED BY <1>4 DEF RotateVector, Rotate

(* A rotation along the axes permutes them and changes their signs, two at will  *)
(* and the third as the permutation is even or odd.                            *)
Permuted(r, i, j, k, s, t, u) ==
    /\ r[1][i] = s /\ r[1][j] = 0 /\ r[1][k] = 0
    /\ r[2][i] = 0 /\ r[2][j] = t /\ r[2][k] = 0
    /\ r[3][i] = 0 /\ r[3][j] = 0 /\ r[3][k] = u

LEMMA AxesPermuted ==
    ASSUME NEW r \in AxisRotations
    PROVE  \E s, t \in {-1, 1} :
               \/ Permuted(r, 1, 2, 3, s, t, s * t) \/ Permuted(r, 2, 3, 1, s, t, s * t)
               \/ Permuted(r, 3, 1, 2, s, t, s * t) \/ Permuted(r, 2, 1, 3, s, t, -(s * t))
               \/ Permuted(r, 3, 2, 1, s, t, -(s * t)) \/ Permuted(r, 1, 3, 2, s, t, -(s * t))
<1>1. PICK i \in 1..3, s \in {-1, 1} : IsColumn(r[1], i, s)
  BY ColumnsOf, AxisColumn
<1>2. PICK j \in 1..3, t \in {-1, 1} : IsColumn(r[2], j, t)
  BY ColumnsOf, AxisColumn
<1>3. /\ \A n \in 1..3 : r[1][n] = (IF n = i THEN s ELSE 0)
      /\ \A n \in 1..3 : r[2][n] = (IF n = j THEN t ELSE 0)
  BY <1>1, <1>2 DEF IsColumn
<1>4. /\ r[3][1] = r[1][2] * r[2][3] - r[1][3] * r[2][2]
      /\ r[3][2] = r[1][3] * r[2][1] - r[1][1] * r[2][3]
      /\ r[3][3] = r[1][1] * r[2][2] - r[1][2] * r[2][1]
      /\ r[1][1] * r[2][1] + r[1][2] * r[2][2] + r[1][3] * r[2][3] = 0
  BY ColumnsOf
<1>5. i # j
  <2> SUFFICES ASSUME i = j PROVE FALSE
    OBVIOUS
  <2>1. \A n \in 1..3 : /\ r[1][n] = (IF n = i THEN s ELSE 0)
                         /\ r[2][n] = (IF n = i THEN t ELSE 0)
    BY <1>3
  <2>2. s * t \in {-1, 1}
    OBVIOUS
  <2>3. r[1][1] * r[2][1] + r[1][2] * r[2][2] + r[1][3] * r[2][3] = 0
    BY <1>4
  <2>4. CASE i = 1
    <3>1. /\ r[1][1] = s /\ r[1][2] = 0 /\ r[1][3] = 0
          /\ r[2][1] = t /\ r[2][2] = 0 /\ r[2][3] = 0
      BY <2>1, <2>4
    <3> QED BY <2>2, <2>3, <3>1
  <2>5. CASE i = 2
    BY <2>1, <2>2, <2>3, <2>5
  <2>6. CASE i = 3
    BY <2>1, <2>2, <2>3, <2>6
  <2> QED BY <2>4, <2>5, <2>6
<1>6. CASE i = 1 /\ j = 2
  <2>1. /\ r[1][1] = s /\ r[1][2] = 0 /\ r[1][3] = 0
        /\ r[2][1] = 0 /\ r[2][2] = t /\ r[2][3] = 0
    BY <1>3, <1>6
  <2>2. r[3][1] = 0 /\ r[3][2] = 0 /\ r[3][3] = s * t
    BY <1>4, <2>1
  <2>3. Permuted(r, 1, 2, 3, s, t, s * t)
    BY <2>1, <2>2 DEF Permuted
  <2> QED BY <2>3
<1>7. CASE i = 2 /\ j = 3
  <2>1. /\ r[1][2] = s /\ r[1][3] = 0 /\ r[1][1] = 0
        /\ r[2][2] = 0 /\ r[2][3] = t /\ r[2][1] = 0
    BY <1>3, <1>7
  <2>2. r[3][2] = 0 /\ r[3][3] = 0 /\ r[3][1] = s * t
    BY <1>4, <2>1
  <2>3. Permuted(r, 2, 3, 1, s, t, s * t)
    BY <2>1, <2>2 DEF Permuted
  <2> QED BY <2>3
<1>8. CASE i = 3 /\ j = 1
  <2>1. /\ r[1][3] = s /\ r[1][1] = 0 /\ r[1][2] = 0
        /\ r[2][3] = 0 /\ r[2][1] = t /\ r[2][2] = 0
    BY <1>3, <1>8
  <2>2. r[3][3] = 0 /\ r[3][1] = 0 /\ r[3][2] = s * t
    BY <1>4, <2>1
  <2>3. Permuted(r, 3, 1, 2, s, t, s * t)
    BY <2>1, <2>2 DEF Permuted
  <2> QED BY <2>3
<1>9. CASE i = 2 /\ j = 1
  <2>1. /\ r[1][2] = s /\ r[1][1] = 0 /\ r[1][3] = 0
        /\ r[2][2] = 0 /\ r[2][1] = t /\ r[2][3] = 0
    BY <1>3, <1>9
  <2>2. r[3][2] = 0 /\ r[3][1] = 0 /\ r[3][3] = -(s * t)
    BY <1>4, <2>1
  <2>3. Permuted(r, 2, 1, 3, s, t, -(s * t))
    BY <2>1, <2>2 DEF Permuted
  <2> QED BY <2>3
<1>10. CASE i = 3 /\ j = 2
  <2>1. /\ r[1][3] = s /\ r[1][2] = 0 /\ r[1][1] = 0
        /\ r[2][3] = 0 /\ r[2][2] = t /\ r[2][1] = 0
    BY <1>3, <1>10
  <2>2. r[3][3] = 0 /\ r[3][2] = 0 /\ r[3][1] = -(s * t)
    BY <1>4, <2>1
  <2>3. Permuted(r, 3, 2, 1, s, t, -(s * t))
    BY <2>1, <2>2 DEF Permuted
  <2> QED BY <2>3
<1>11. CASE i = 1 /\ j = 3
  <2>1. /\ r[1][1] = s /\ r[1][3] = 0 /\ r[1][2] = 0
        /\ r[2][1] = 0 /\ r[2][3] = t /\ r[2][2] = 0
    BY <1>3, <1>11
  <2>2. r[3][1] = 0 /\ r[3][3] = 0 /\ r[3][2] = -(s * t)
    BY <1>4, <2>1
  <2>3. Permuted(r, 1, 3, 2, s, t, -(s * t))
    BY <2>1, <2>2 DEF Permuted
  <2> QED BY <2>3
<1> QED BY <1>5, <1>6, <1>7, <1>8, <1>9, <1>10, <1>11

(* _matrix_to_quaternion finds the quaternion of each, by whichever branch. *)
LEMMA AxisTurns ==
    ASSUME NEW r \in AxisRotations
    PROVE  Turns(MatrixToQuaternion(r), r) /\ Norm(MatrixToQuaternion(r)) \in {4, 8, 16}
<1> DEFINE q == MatrixToQuaternion(r)
<1>1. r \in Rotations /\ \A c, i \in 1..3 : r[c][i] \in Int
  BY ColumnsOf DEF Rotations, Vectors
<1>2. PICK s \in {-1, 1}, t \in {-1, 1} :
               \/ Permuted(r, 1, 2, 3, s, t, s * t) \/ Permuted(r, 2, 3, 1, s, t, s * t)
               \/ Permuted(r, 3, 1, 2, s, t, s * t) \/ Permuted(r, 2, 1, 3, s, t, -(s * t))
               \/ Permuted(r, 3, 2, 1, s, t, -(s * t)) \/ Permuted(r, 1, 3, 2, s, t, -(s * t))
  BY AxesPermuted
<1>3. CASE Permuted(r, 1, 2, 3, s, t, s * t)
  <2>1. CASE s = 1 /\ t = 1
    <3>1. q = <<0, 0, 0, 4>>
      BY <1>3, <2>1 DEF Permuted, MatrixToQuaternion
    <3>2. Turns(<<0, 0, 0, 4>>, r) /\ Norm(<<0, 0, 0, 4>>) = 16
      BY <1>1, <1>3, <2>1 DEF Permuted, Turns, Scaled, Norm, Quaternions
    <3> QED BY <3>1, <3>2
  <2>2. CASE s = 1 /\ t = -1
    <3>1. q = <<4, 0, 0, 0>>
      BY <1>3, <2>2 DEF Permuted, MatrixToQuaternion
    <3>2. Turns(<<4, 0, 0, 0>>, r) /\ Norm(<<4, 0, 0, 0>>) = 16
      BY <1>1, <1>3, <2>2 DEF Permuted, Turns, Scaled, Norm, Quaternions
    <3> QED BY <3>1, <3>2
  <2>3. CASE s = -1 /\ t = 1
    <3>1. q = <<0, 4, 0, 0>>
      BY <1>3, <2>3 DEF Permuted, MatrixToQuaternion
    <3>2. Turns(<<0, 4, 0, 0>>, r) /\ Norm(<<0, 4, 0, 0>>) = 16
      BY <1>1, <1>3, <2>3 DEF Permuted, Turns, Scaled, Norm, Quaternions
    <3> QED BY <3>1, <3>2
  <2>4. CASE s = -1 /\ t = -1
    <3>1. q = <<0, 0, 4, 0>>
      BY <1>3, <2>4 DEF Permuted, MatrixToQuaternion
    <3>2. Turns(<<0, 0, 4, 0>>, r) /\ Norm(<<0, 0, 4, 0>>) = 16
      BY <1>1, <1>3, <2>4 DEF Permuted, Turns, Scaled, Norm, Quaternions
    <3> QED BY <3>1, <3>2
  <2> QED BY <2>1, <2>2, <2>3, <2>4
<1>4. CASE Permuted(r, 2, 3, 1, s, t, s * t)
  <2>1. CASE s = 1 /\ t = 1
    <3>1. q = <<1, 1, 1, 1>>
      BY <1>4, <2>1 DEF Permuted, MatrixToQuaternion
    <3>2. Turns(<<1, 1, 1, 1>>, r) /\ Norm(<<1, 1, 1, 1>>) = 4
      BY <1>1, <1>4, <2>1 DEF Permuted, Turns, Scaled, Norm, Quaternions
    <3> QED BY <3>1, <3>2
  <2>2. CASE s = 1 /\ t = -1
    <3>1. q = <<-1, -1, 1, 1>>
      BY <1>4, <2>2 DEF Permuted, MatrixToQuaternion
    <3>2. Turns(<<-1, -1, 1, 1>>, r) /\ Norm(<<-1, -1, 1, 1>>) = 4
      BY <1>1, <1>4, <2>2 DEF Permuted, Turns, Scaled, Norm, Quaternions
    <3> QED BY <3>1, <3>2
  <2>3. CASE s = -1 /\ t = 1
    <3>1. q = <<-1, 1, 1, -1>>
      BY <1>4, <2>3 DEF Permuted, MatrixToQuaternion
    <3>2. Turns(<<-1, 1, 1, -1>>, r) /\ Norm(<<-1, 1, 1, -1>>) = 4
      BY <1>1, <1>4, <2>3 DEF Permuted, Turns, Scaled, Norm, Quaternions
    <3> QED BY <3>1, <3>2
  <2>4. CASE s = -1 /\ t = -1
    <3>1. q = <<1, -1, 1, -1>>
      BY <1>4, <2>4 DEF Permuted, MatrixToQuaternion
    <3>2. Turns(<<1, -1, 1, -1>>, r) /\ Norm(<<1, -1, 1, -1>>) = 4
      BY <1>1, <1>4, <2>4 DEF Permuted, Turns, Scaled, Norm, Quaternions
    <3> QED BY <3>1, <3>2
  <2> QED BY <2>1, <2>2, <2>3, <2>4
<1>5. CASE Permuted(r, 3, 1, 2, s, t, s * t)
  <2>1. CASE s = 1 /\ t = 1
    <3>1. q = <<1, 1, 1, -1>>
      BY <1>5, <2>1 DEF Permuted, MatrixToQuaternion
    <3>2. Turns(<<1, 1, 1, -1>>, r) /\ Norm(<<1, 1, 1, -1>>) = 4
      BY <1>1, <1>5, <2>1 DEF Permuted, Turns, Scaled, Norm, Quaternions
    <3> QED BY <3>1, <3>2
  <2>2. CASE s = 1 /\ t = -1
    <3>1. q = <<1, -1, 1, 1>>
      BY <1>5, <2>2 DEF Permuted, MatrixToQuaternion
    <3>2. Turns(<<1, -1, 1, 1>>, r) /\ Norm(<<1, -1, 1, 1>>) = 4
      BY <1>1, <1>5, <2>2 DEF Permuted, Turns, Scaled, Norm, Quaternions
    <3> QED BY <3>1, <3>2
  <2>3. CASE s = -1 /\ t = 1
    <3>1. q = <<-1, -1, 1, -1>>
      BY <1>5, <2>3 DEF Permuted, MatrixToQuaternion
    <3>2. Turns(<<-1, -1, 1, -1>>, r) /\ Norm(<<-1, -1, 1, -1>>) = 4
      BY <1>1, <1>5, <2>3 DEF Permuted, Turns, Scaled, Norm, Quaternions
    <3> QED BY <3>1, <3>2
  <2>4. CASE s = -1 /\ t = -1
    <3>1. q = <<-1, 1, 1, 1>>
      BY <1>5, <2>4 DEF Permuted, MatrixToQuaternion
    <3>2. Turns(<<-1, 1, 1, 1>>, r) /\ Norm(<<-1, 1, 1, 1>>) = 4
      BY <1>1, <1>5, <2>4 DEF Permuted, Turns, Scaled, Norm, Quaternions
    <3> QED BY <3>1, <3>2
  <2> QED BY <2>1, <2>2, <2>3, <2>4
<1>6. CASE Permuted(r, 2, 1, 3, s, t, -(s * t))
  <2>1. CASE s = 1 /\ t = 1
    <3>1. q = <<2, 2, 0, 0>>
      BY <1>6, <2>1 DEF Permuted, MatrixToQuaternion
    <3>2. Turns(<<2, 2, 0, 0>>, r) /\ Norm(<<2, 2, 0, 0>>) = 8
      BY <1>1, <1>6, <2>1 DEF Permuted, Turns, Scaled, Norm, Quaternions
    <3> QED BY <3>1, <3>2
  <2>2. CASE s = 1 /\ t = -1
    <3>1. q = <<0, 0, 2, 2>>
      BY <1>6, <2>2 DEF Permuted, MatrixToQuaternion
    <3>2. Turns(<<0, 0, 2, 2>>, r) /\ Norm(<<0, 0, 2, 2>>) = 8
      BY <1>1, <1>6, <2>2 DEF Permuted, Turns, Scaled, Norm, Quaternions
    <3> QED BY <3>1, <3>2
  <2>3. CASE s = -1 /\ t = 1
    <3>1. q = <<0, 0, -2, 2>>
      BY <1>6, <2>3 DEF Permuted, MatrixToQuaternion
    <3>2. Turns(<<0, 0, -2, 2>>, r) /\ Norm(<<0, 0, -2, 2>>) = 8
      BY <1>1, <1>6, <2>3 DEF Permuted, Turns, Scaled, Norm, Quaternions
    <3> QED BY <3>1, <3>2
  <2>4. CASE s = -1 /\ t = -1
    <3>1. q = <<-2, 2, 0, 0>>
      BY <1>6, <2>4 DEF Permuted, MatrixToQuaternion
    <3>2. Turns(<<-2, 2, 0, 0>>, r) /\ Norm(<<-2, 2, 0, 0>>) = 8
      BY <1>1, <1>6, <2>4 DEF Permuted, Turns, Scaled, Norm, Quaternions
    <3> QED BY <3>1, <3>2
  <2> QED BY <2>1, <2>2, <2>3, <2>4
<1>7. CASE Permuted(r, 3, 2, 1, s, t, -(s * t))
  <2>1. CASE s = 1 /\ t = 1
    <3>1. q = <<0, -2, 0, 2>>
      BY <1>7, <2>1 DEF Permuted, MatrixToQuaternion
    <3>2. Turns(<<0, -2, 0, 2>>, r) /\ Norm(<<0, -2, 0, 2>>) = 8
      BY <1>1, <1>7, <2>1 DEF Permuted, Turns, Scaled, Norm, Quaternions
    <3> QED BY <3>1, <3>2
  <2>2. CASE s = 1 /\ t = -1
    <3>1. q = <<2, 0, 2, 0>>
      BY <1>7, <2>2 DEF Permuted, MatrixToQuaternion
    <3>2. Turns(<<2, 0, 2, 0>>, r) /\ Norm(<<2, 0, 2, 0>>) = 8
      BY <1>1, <1>7, <2>2 DEF Permuted, Turns, Scaled, Norm, Quaternions
    <3> QED BY <3>1, <3>2
  <2>3. CASE s = -1 /\ t = 1
    <3>1. q = <<0, 2, 0, 2>>
      BY <1>7, <2>3 DEF Permuted, MatrixToQuaternion
    <3>2. Turns(<<0, 2, 0, 2>>, r) /\ Norm(<<0, 2, 0, 2>>) = 8
      BY <1>1, <1>7, <2>3 DEF Permuted, Turns, Scaled, Norm, Quaternions
    <3> QED BY <3>1, <3>2
  <2>4. CASE s = -1 /\ t = -1
    <3>1. q = <<-2, 0, 2, 0>>
      BY <1>7, <2>4 DEF Permuted, MatrixToQuaternion
    <3>2. Turns(<<-2, 0, 2, 0>>, r) /\ Norm(<<-2, 0, 2, 0>>) = 8
      BY <1>1, <1>7, <2>4 DEF Permuted, Turns, Scaled, Norm, Quaternions
    <3> QED BY <3>1, <3>2
  <2> QED BY <2>1, <2>2, <2>3, <2>4
<1>8. CASE Permuted(r, 1, 3, 2, s, t, -(s * t))
  <2>1. CASE s = 1 /\ t = 1
    <3>1. q = <<2, 0, 0, 2>>
      BY <1>8, <2>1 DEF Permuted, MatrixToQuaternion
    <3>2. Turns(<<2, 0, 0, 2>>, r) /\ Norm(<<2, 0, 0, 2>>) = 8
      BY <1>1, <1>8, <2>1 DEF Permuted, Turns, Scaled, Norm, Quaternions
    <3> QED BY <3>1, <3>2
  <2>2. CASE s = 1 /\ t = -1
    <3>1. q = <<-2, 0, 0, 2>>
      BY <1>8, <2>2 DEF Permuted, MatrixToQuaternion
    <3>2. Turns(<<-2, 0, 0, 2>>, r) /\ Norm(<<-2, 0, 0, 2>>) = 8
      BY <1>1, <1>8, <2>2 DEF Permuted, Turns, Scaled, Norm, Quaternions
    <3> QED BY <3>1, <3>2
  <2>3. CASE s = -1 /\ t = 1
    <3>1. q = <<0, 2, 2, 0>>
      BY <1>8, <2>3 DEF Permuted, MatrixToQuaternion
    <3>2. Turns(<<0, 2, 2, 0>>, r) /\ Norm(<<0, 2, 2, 0>>) = 8
      BY <1>1, <1>8, <2>3 DEF Permuted, Turns, Scaled, Norm, Quaternions
    <3> QED BY <3>1, <3>2
  <2>4. CASE s = -1 /\ t = -1
    <3>1. q = <<0, -2, 2, 0>>
      BY <1>8, <2>4 DEF Permuted, MatrixToQuaternion
    <3>2. Turns(<<0, -2, 2, 0>>, r) /\ Norm(<<0, -2, 2, 0>>) = 8
      BY <1>1, <1>8, <2>4 DEF Permuted, Turns, Scaled, Norm, Quaternions
    <3> QED BY <3>1, <3>2
  <2> QED BY <2>1, <2>2, <2>3, <2>4
<1> QED BY <1>2, <1>3, <1>4, <1>5, <1>6, <1>7, <1>8

(* The heading of the base, as a matrix. *)
Yaw(p) ==
    LET f == Forward(p)
    IN IF f[3] # 0 THEN Identity
       ELSE <<<<f[1], f[2], 0>>, <<-f[2], f[1], 0>>, Identity[3]>>

LEMMA YawTurns ==
    ASSUME NEW p, IsPose(p)
    PROVE  /\ Yaw(p) \in AxisRotations /\ Yaw(p)[3] = <<0, 0, 1>>
           /\ Turns(YawRotation(p), Yaw(p)) /\ Norm(YawRotation(p)) \in {1, 2, 4}
<1> DEFINE f == Forward(p)
           q == YawRotation(p)
           r == Yaw(p)
<1>1. f \in Axes
  BY DirectionType DEF Forward, IsPose, Identity, Axes
<1>2. /\ r = IF f[3] # 0 THEN Identity ELSE <<<<f[1], f[2], 0>>, <<-f[2], f[1], 0>>, Identity[3]>>
      /\ q = IF f[3] # 0 THEN <<0, 0, 0, 1>>
             ELSE IF f[1] = -1 THEN <<0, 0, 1, 0>> ELSE <<0, 0, f[2], 1 + f[1]>>
  BY DEF Yaw, YawRotation
<1> HIDE DEF f, q, r
<1>3. ASSUME NEW a \in Axes, NEW b \in Axes, Dot(a, b) = 0, Cross(a, b) = <<0, 0, 1>>
      PROVE  /\ <<a, b, <<0, 0, 1>>>> \in AxisRotations /\ <<a, b, <<0, 0, 1>>>> \in Rotations
             /\ <<a, b, <<0, 0, 1>>>>[3] = <<0, 0, 1>>
  <2>1. <<a, b, <<0, 0, 1>>>> \in [1..3 -> Axes]
    BY Triple DEF Axes
  <2>2. <<a, b, <<0, 0, 1>>>> \in AxisRotations
    BY <1>3, <2>1 DEF AxisRotations
  <2> QED BY <2>2, ColumnsOf
<1>4. CASE f[3] # 0
  <2>1. r = <<<<1, 0, 0>>, <<0, 1, 0>>, <<0, 0, 1>>>> /\ q = <<0, 0, 0, 1>>
    BY <1>2, <1>4 DEF Identity
  <2>2. /\ <<1, 0, 0>> \in Axes /\ <<0, 1, 0>> \in Axes
        /\ Dot(<<1, 0, 0>>, <<0, 1, 0>>) = 0 /\ Cross(<<1, 0, 0>>, <<0, 1, 0>>) = <<0, 0, 1>>
    BY DEF Axes, Dot, Cross
  <2>3. r \in AxisRotations /\ r \in Rotations /\ r[3] = <<0, 0, 1>>
    BY <1>3, <2>1, <2>2
  <2>4. Norm(q) = 1 /\ q \in Quaternions
    BY <2>1 DEF Norm, Quaternions
  <2>5. \A c, i \in 1..3 : Scaled(q)[c][i] = Norm(q) * r[c][i]
    BY <2>1, <2>4 DEF Scaled
  <2> QED BY <2>3, <2>4, <2>5 DEF Turns, f, q, r
<1>5. CASE f = <<1, 0, 0>>
  <2>1. r = <<<<1, 0, 0>>, <<0, 1, 0>>, <<0, 0, 1>>>> /\ q = <<0, 0, 0, 2>>
    BY <1>2, <1>5 DEF Identity
  <2>2. /\ <<1, 0, 0>> \in Axes /\ <<0, 1, 0>> \in Axes
        /\ Dot(<<1, 0, 0>>, <<0, 1, 0>>) = 0 /\ Cross(<<1, 0, 0>>, <<0, 1, 0>>) = <<0, 0, 1>>
    BY DEF Axes, Dot, Cross
  <2>3. r \in AxisRotations /\ r \in Rotations /\ r[3] = <<0, 0, 1>>
    BY <1>3, <2>1, <2>2
  <2>4. Norm(q) = 4 /\ q \in Quaternions
    BY <2>1 DEF Norm, Quaternions
  <2>5. \A c, i \in 1..3 : Scaled(q)[c][i] = Norm(q) * r[c][i]
    BY <2>1, <2>4 DEF Scaled
  <2> QED BY <2>3, <2>4, <2>5 DEF Turns, f, q, r
<1>6. CASE f = <<-1, 0, 0>>
  <2>1. r = <<<<-1, 0, 0>>, <<0, -1, 0>>, <<0, 0, 1>>>> /\ q = <<0, 0, 1, 0>>
    BY <1>2, <1>6 DEF Identity
  <2>2. /\ <<-1, 0, 0>> \in Axes /\ <<0, -1, 0>> \in Axes
        /\ Dot(<<-1, 0, 0>>, <<0, -1, 0>>) = 0 /\ Cross(<<-1, 0, 0>>, <<0, -1, 0>>) = <<0, 0, 1>>
    BY DEF Axes, Dot, Cross
  <2>3. r \in AxisRotations /\ r \in Rotations /\ r[3] = <<0, 0, 1>>
    BY <1>3, <2>1, <2>2
  <2>4. Norm(q) = 1 /\ q \in Quaternions
    BY <2>1 DEF Norm, Quaternions
  <2>5. \A c, i \in 1..3 : Scaled(q)[c][i] = Norm(q) * r[c][i]
    BY <2>1, <2>4 DEF Scaled
  <2> QED BY <2>3, <2>4, <2>5 DEF Turns, f, q, r
<1>7. CASE f = <<0, 1, 0>>
  <2>1. r = <<<<0, 1, 0>>, <<-1, 0, 0>>, <<0, 0, 1>>>> /\ q = <<0, 0, 1, 1>>
    BY <1>2, <1>7 DEF Identity
  <2>2. /\ <<0, 1, 0>> \in Axes /\ <<-1, 0, 0>> \in Axes
        /\ Dot(<<0, 1, 0>>, <<-1, 0, 0>>) = 0 /\ Cross(<<0, 1, 0>>, <<-1, 0, 0>>) = <<0, 0, 1>>
    BY DEF Axes, Dot, Cross
  <2>3. r \in AxisRotations /\ r \in Rotations /\ r[3] = <<0, 0, 1>>
    BY <1>3, <2>1, <2>2
  <2>4. Norm(q) = 2 /\ q \in Quaternions
    BY <2>1 DEF Norm, Quaternions
  <2>5. \A c, i \in 1..3 : Scaled(q)[c][i] = Norm(q) * r[c][i]
    BY <2>1, <2>4 DEF Scaled
  <2> QED BY <2>3, <2>4, <2>5 DEF Turns, f, q, r
<1>8. CASE f = <<0, -1, 0>>
  <2>1. r = <<<<0, -1, 0>>, <<1, 0, 0>>, <<0, 0, 1>>>> /\ q = <<0, 0, -1, 1>>
    BY <1>2, <1>8 DEF Identity
  <2>2. /\ <<0, -1, 0>> \in Axes /\ <<1, 0, 0>> \in Axes
        /\ Dot(<<0, -1, 0>>, <<1, 0, 0>>) = 0 /\ Cross(<<0, -1, 0>>, <<1, 0, 0>>) = <<0, 0, 1>>
    BY DEF Axes, Dot, Cross
  <2>3. r \in AxisRotations /\ r \in Rotations /\ r[3] = <<0, 0, 1>>
    BY <1>3, <2>1, <2>2
  <2>4. Norm(q) = 2 /\ q \in Quaternions
    BY <2>1 DEF Norm, Quaternions
  <2>5. \A c, i \in 1..3 : Scaled(q)[c][i] = Norm(q) * r[c][i]
    BY <2>1, <2>4 DEF Scaled
  <2> QED BY <2>3, <2>4, <2>5 DEF Turns, f, q, r
<1>9. \/ f[3] # 0
      \/ f = <<1, 0, 0>> \/ f = <<-1, 0, 0>> \/ f = <<0, 1, 0>> \/ f = <<0, -1, 0>>
  BY <1>1 DEF Axes
<1> QED BY <1>4, <1>5, <1>6, <1>7, <1>8, <1>9
(* How a rotation along the axes turns a vector back: it permutes the entries  *)
(* and changes their signs, two signs at will and the third as the            *)
(* permutation is even or odd.                                                *)
Turned(r, i, j, k, s, t, u) ==
    \A v \in Vectors :
        /\ Rotate(Inverted(r), v) = <<s * v[i], t * v[j], u * v[k]>>
        /\ Rotate(r, v)[i] = s * v[1]
        /\ Rotate(r, v)[j] = t * v[2]
        /\ Rotate(r, v)[k] = u * v[3]

LEMMA TurnedBy ==
    ASSUME NEW r \in Rotations, NEW i \in 1..3, NEW j \in 1..3, NEW k \in 1..3,
           i # j, j # k, i # k, NEW s \in Int, NEW t \in Int, NEW u \in Int,
           r[1][i] = s, r[1][j] = 0, r[1][k] = 0,
           r[2][i] = 0, r[2][j] = t, r[2][k] = 0,
           r[3][i] = 0, r[3][j] = 0, r[3][k] = u
    PROVE  Turned(r, i, j, k, s, t, u)
<1> SUFFICES ASSUME NEW v \in Vectors
             PROVE  /\ Rotate(Inverted(r), v) = <<s * v[i], t * v[j], u * v[k]>>
                    /\ Rotate(r, v)[i] = s * v[1]
                    /\ Rotate(r, v)[j] = t * v[2]
                    /\ Rotate(r, v)[k] = u * v[3]
  BY DEF Turned
<1>1. v[1] \in Int /\ v[2] \in Int /\ v[3] \in Int
  BY DEF Vectors
<1>2. \A n \in 1..3 : Rotate(r, v)[n] = r[1][n] * v[1] + r[2][n] * v[2] + r[3][n] * v[3]
  BY DEF Rotate
<1>3. Rotate(Inverted(r), v)
          = [n \in 1..3 |-> r[n][1] * v[1] + r[n][2] * v[2] + r[n][3] * v[3]]
  BY DEF Rotate, Inverted
<1>4. \A x \in Int : 0 * x = 0 /\ s * x \in Int /\ t * x \in Int /\ u * x \in Int
  OBVIOUS
<1>5. /\ r[1][1] * v[1] + r[1][2] * v[2] + r[1][3] * v[3] = s * v[i]
      /\ r[2][1] * v[1] + r[2][2] * v[2] + r[2][3] * v[3] = t * v[j]
      /\ r[3][1] * v[1] + r[3][2] * v[2] + r[3][3] * v[3] = u * v[k]
  <2>1. \A n \in 1..3 : n = i \/ n = j \/ n = k
    OBVIOUS
  <2>2. /\ \A n \in 1..3 : r[1][n] * v[n] = IF n = i THEN s * v[i] ELSE 0
        /\ \A n \in 1..3 : r[2][n] * v[n] = IF n = j THEN t * v[j] ELSE 0
        /\ \A n \in 1..3 : r[3][n] * v[n] = IF n = k THEN u * v[k] ELSE 0
    <3>1. ASSUME NEW n \in 1..3
          PROVE  /\ r[1][n] * v[n] = IF n = i THEN s * v[i] ELSE 0
                 /\ r[2][n] * v[n] = IF n = j THEN t * v[j] ELSE 0
                 /\ r[3][n] * v[n] = IF n = k THEN u * v[k] ELSE 0
      <4>1. v[n] \in Int
        BY <1>1
      <4>2. QED
        BY <1>4, <2>1, <4>1
    <3>2. QED
      BY <3>1
  <2>3. s * v[i] \in Int /\ t * v[j] \in Int /\ u * v[k] \in Int
    BY <1>1, <1>4
  <2>4. QED
    BY <2>2, <2>3
<1>6. /\ Rotate(r, v)[i] = s * v[1]
      /\ Rotate(r, v)[j] = t * v[2]
      /\ Rotate(r, v)[k] = u * v[3]
  <2>1. /\ 0 * v[1] = 0 /\ 0 * v[2] = 0 /\ 0 * v[3] = 0
        /\ s * v[1] \in Int /\ t * v[2] \in Int /\ u * v[3] \in Int
    BY <1>1, <1>4
  <2>2. /\ Rotate(r, v)[i] = s * v[1] + 0 * v[2] + 0 * v[3]
        /\ Rotate(r, v)[j] = 0 * v[1] + t * v[2] + 0 * v[3]
        /\ Rotate(r, v)[k] = 0 * v[1] + 0 * v[2] + u * v[3]
    BY <1>2
  <2>3. QED
    BY <2>1, <2>2
<1>7. QED
  BY <1>3, <1>5, <1>6

LEMMA TurnsAre ==
    ASSUME NEW r \in AxisRotations
    PROVE  \E s, t \in {-1, 1} :
               \/ Turned(r, 1, 2, 3, s, t, s * t) \/ Turned(r, 2, 3, 1, s, t, s * t)
               \/ Turned(r, 3, 1, 2, s, t, s * t) \/ Turned(r, 2, 1, 3, s, t, -(s * t))
               \/ Turned(r, 3, 2, 1, s, t, -(s * t)) \/ Turned(r, 1, 3, 2, s, t, -(s * t))
<1>1. PICK s \in {-1, 1}, t \in {-1, 1} :
               \/ Permuted(r, 1, 2, 3, s, t, s * t) \/ Permuted(r, 2, 3, 1, s, t, s * t)
               \/ Permuted(r, 3, 1, 2, s, t, s * t) \/ Permuted(r, 2, 1, 3, s, t, -(s * t))
               \/ Permuted(r, 3, 2, 1, s, t, -(s * t)) \/ Permuted(r, 1, 3, 2, s, t, -(s * t))
  BY AxesPermuted
<1>2. r \in Rotations /\ s \in Int /\ t \in Int /\ s * t \in Int /\ -(s * t) \in Int
  BY ColumnsOf
<1>3. \A i, j, k \in 1..3 : \A u \in Int :
          i # j /\ j # k /\ i # k /\ Permuted(r, i, j, k, s, t, u) => Turned(r, i, j, k, s, t, u)
  BY <1>2, TurnedBy DEF Permuted
<1> QED BY <1>1, <1>2, <1>3

(* Turning back and then turning is the identity. *)
LEMMA TurnedAndBack ==
    ASSUME NEW r, NEW i \in 1..3, NEW j \in 1..3, NEW k \in 1..3,
           i # j, j # k, i # k, NEW s \in {-1, 1}, NEW t \in {-1, 1}, NEW u \in {-1, 1},
           Turned(r, i, j, k, s, t, u), NEW v \in Vectors
    PROVE  /\ Rotate(r, Rotate(Inverted(r), v)) = v
           /\ Rotate(Inverted(r), v) \in Vectors
<1> DEFINE back == Rotate(Inverted(r), v)
<1>1. \A n \in 1..3 : v[n] \in Int
  BY DEF Vectors
<1>2. s * v[i] \in Int /\ t * v[j] \in Int /\ u * v[k] \in Int
  BY <1>1
<1>3. back = <<s * v[i], t * v[j], u * v[k]>>
  BY DEF Turned
<1>4. back \in Vectors
  BY <1>2, <1>3, Triple DEF Vectors
<1>5. /\ Rotate(r, back)[i] = s * (s * v[i])
      /\ Rotate(r, back)[j] = t * (t * v[j])
      /\ Rotate(r, back)[k] = u * (u * v[k])
  <2> HIDE DEF back
  <2>1. QED
    BY <1>3, <1>4 DEF Turned
<1>6. s * (s * v[i]) = v[i] /\ t * (t * v[j]) = v[j] /\ u * (u * v[k]) = v[k]
  BY <1>1
<1>7. \A n \in 1..3 : Rotate(r, back)[n] = v[n]
  BY <1>5, <1>6
<1>8. /\ Rotate(r, back) = [n \in 1..3 |-> Rotate(r, back)[n]]
      /\ v = [n \in 1..3 |-> v[n]]
  BY DEF Rotate, Vectors
<1>9. QED
  BY <1>4, <1>7, <1>8

LEMMA TurnBack ==
    ASSUME NEW r \in AxisRotations, NEW v \in Vectors
    PROVE  /\ Rotate(r, Rotate(Inverted(r), v)) = v
           /\ Rotate(Inverted(r), v) \in Vectors
<1>1. PICK s \in {-1, 1}, t \in {-1, 1} :
               \/ Turned(r, 1, 2, 3, s, t, s * t) \/ Turned(r, 2, 3, 1, s, t, s * t)
               \/ Turned(r, 3, 1, 2, s, t, s * t) \/ Turned(r, 2, 1, 3, s, t, -(s * t))
               \/ Turned(r, 3, 2, 1, s, t, -(s * t)) \/ Turned(r, 1, 3, 2, s, t, -(s * t))
  BY TurnsAre
<1>2. s * t \in {-1, 1} /\ -(s * t) \in {-1, 1}
  OBVIOUS
<1>3. PICK i \in 1..3, j \in 1..3, k \in 1..3, u \in {-1, 1} :
          i # j /\ j # k /\ i # k /\ Turned(r, i, j, k, s, t, u)
  BY <1>1, <1>2
<1>4. QED
  BY <1>3, TurnedAndBack

LEMMA TurnRotationBack ==
    ASSUME NEW r \in AxisRotations, NEW s \in Rotations
    PROVE  Multiply(r, Multiply(Inverted(r), s)) = s
<1>1. \A i \in 1..3 : s[i] \in Vectors
  BY DEF Rotations
<1>2. s = [i \in 1..3 |-> s[i]]
  BY DEF Rotations
<1>3. QED
  BY <1>1, <1>2, TurnBack DEF Multiply

LEMMA PlusMinus ==
    ASSUME NEW a \in Vectors, NEW b \in Vectors
    PROVE  Plus(b, Minus(a, b)) = a
<1>1. \A i \in 1..3 : a[i] \in Int /\ b[i] \in Int
  BY DEF Vectors
<1>2. a = [i \in 1..3 |-> a[i]]
  BY DEF Vectors
<1>3. \A i \in 1..3 : b[i] + Minus(a, b)[i] = a[i]
  BY <1>1 DEF Minus
<1>4. QED
  BY <1>2, <1>3 DEF Plus

(* Turning keeps angles and handedness. *)
LEMMA TurnedKeeps ==
    ASSUME NEW r, NEW i \in 1..3, NEW j \in 1..3, NEW k \in 1..3,
           i # j, j # k, i # k, NEW s \in {-1, 1}, NEW t \in {-1, 1}, NEW p \in {-1, 1},
           Turned(r, i, j, k, s, t, p * (s * t)),
           NEW a \in Vectors, NEW b \in Vectors,
           Cross(a, b)[i] = p * (a[j] * b[k] - a[k] * b[j]),
           Cross(a, b)[j] = p * (a[k] * b[i] - a[i] * b[k]),
           Cross(a, b)[k] = p * (a[i] * b[j] - a[j] * b[i])
    PROVE  LET back == Inverted(r)
           IN /\ Dot(Rotate(back, a), Rotate(back, b)) = Dot(a, b)
              /\ Cross(Rotate(back, a), Rotate(back, b))
                     = Rotate(back, Cross(a, b))
<1> DEFINE back == Inverted(r)
           c == Rotate(back, a)
           d == Rotate(back, b)
           e == Cross(a, b)
           u == p * (s * t)
<1>1. \A n \in 1..3 : a[n] \in Int /\ b[n] \in Int
  BY DEF Vectors
<1>2. e \in Vectors
  BY VectorTypes
<1>3. /\ c = <<s * a[i], t * a[j], u * a[k]>>
      /\ d = <<s * b[i], t * b[j], u * b[k]>>
      /\ Rotate(back, e) = <<s * e[i], t * e[j], u * e[k]>>
  BY <1>2 DEF Turned
<1> HIDE DEF back, c, d, e
<1>4. u \in {-1, 1}
  OBVIOUS
<1>5. Dot(c, d) = Dot(a, b)
  <2>1. Dot(c, d) = (s * a[i]) * (s * b[i]) + (t * a[j]) * (t * b[j]) + (u * a[k]) * (u * b[k])
    BY <1>3 DEF Dot
  <2>2. \A x, y \in Int, z \in {-1, 1} : (z * x) * (z * y) = x * y
    OBVIOUS
  <2>3. Dot(c, d) = a[i] * b[i] + a[j] * b[j] + a[k] * b[k]
    BY <1>1, <1>4, <2>1, <2>2
  <2>4. a[i] * b[i] + a[j] * b[j] + a[k] * b[k] = a[1] * b[1] + a[2] * b[2] + a[3] * b[3]
    <3>1. a[1] * b[1] \in Int /\ a[2] * b[2] \in Int /\ a[3] * b[3] \in Int
      BY <1>1
    <3>2. QED
      BY <3>1
  <2>5. QED
    BY <2>3, <2>4 DEF Dot
<1>6. Cross(c, d) = Rotate(back, e)
  <2>1. Cross(c, d) = <<(t * a[j]) * (u * b[k]) - (u * a[k]) * (t * b[j]),
                               (u * a[k]) * (s * b[i]) - (s * a[i]) * (u * b[k]),
                               (s * a[i]) * (t * b[j]) - (t * a[j]) * (s * b[i])>>
    BY <1>3 DEF Cross
  <2>2. /\ e[i] = p * (a[j] * b[k] - a[k] * b[j])
        /\ e[j] = p * (a[k] * b[i] - a[i] * b[k])
        /\ e[k] = p * (a[i] * b[j] - a[j] * b[i])
    BY DEF e
  <2>3. PICK ai \in Int, aj \in Int, ak \in Int, bi \in Int, bj \in Int, bk \in Int :
            a[i] = ai /\ a[j] = aj /\ a[k] = ak /\ b[i] = bi /\ b[j] = bj /\ b[k] = bk
    BY <1>1
  <2>4. /\ (t * aj) * (u * bk) - (u * ak) * (t * bj) = s * (p * (aj * bk - ak * bj))
        /\ (u * ak) * (s * bi) - (s * ai) * (u * bk) = t * (p * (ak * bi - ai * bk))
        /\ (s * ai) * (t * bj) - (t * aj) * (s * bi) = u * (p * (ai * bj - aj * bi))
    OBVIOUS
  <2> HIDE DEF u
  <2>5. QED
    BY <1>3, <2>1, <2>2, <2>3, <2>4
<1>7. QED
  BY <1>5, <1>6 DEF back, c, d, e

LEMMA TurnKeeps ==
    ASSUME NEW r \in AxisRotations, NEW a \in Vectors, NEW b \in Vectors
    PROVE  LET back == Inverted(r)
           IN /\ Dot(Rotate(back, a), Rotate(back, b)) = Dot(a, b)
              /\ Cross(Rotate(back, a), Rotate(back, b))
                     = Rotate(back, Cross(a, b))
<1>1. PICK s \in {-1, 1}, t \in {-1, 1} :
               \/ Turned(r, 1, 2, 3, s, t, s * t) \/ Turned(r, 2, 3, 1, s, t, s * t)
               \/ Turned(r, 3, 1, 2, s, t, s * t) \/ Turned(r, 2, 1, 3, s, t, -(s * t))
               \/ Turned(r, 3, 2, 1, s, t, -(s * t)) \/ Turned(r, 1, 3, 2, s, t, -(s * t))
  BY TurnsAre
<1>2. 1 * (s * t) = s * t /\ (-1) * (s * t) = -(s * t)
  OBVIOUS
<1>3. /\ a[1] \in Int /\ a[2] \in Int /\ a[3] \in Int
      /\ b[1] \in Int /\ b[2] \in Int /\ b[3] \in Int
  BY DEF Vectors
<1> DEFINE Crossed(i, j, k, p) ==
        /\ Cross(a, b)[i] = p * (a[j] * b[k] - a[k] * b[j])
        /\ Cross(a, b)[j] = p * (a[k] * b[i] - a[i] * b[k])
        /\ Cross(a, b)[k] = p * (a[i] * b[j] - a[j] * b[i])
<1>4. /\ Crossed(1, 2, 3, 1) /\ Crossed(2, 3, 1, 1) /\ Crossed(3, 1, 2, 1)
      /\ Crossed(2, 1, 3, -1) /\ Crossed(3, 2, 1, -1) /\ Crossed(1, 3, 2, -1)
  BY <1>3 DEF Cross
<1>5. PICK i \in 1..3, j \in 1..3, k \in 1..3, p \in {-1, 1} :
          i # j /\ j # k /\ i # k /\ Turned(r, i, j, k, s, t, p * (s * t)) /\ Crossed(i, j, k, p)
  BY <1>1, <1>2, <1>4
<1>6. QED
  BY <1>5, TurnedKeeps

(* What is perpendicular along the axes. *)
LEMMA AxisCross ==
    ASSUME NEW a \in Axes, NEW b \in Axes
    PROVE  /\ Dot(a, b) = 0 => Cross(a, b) \in Axes
           /\ Dot(a, b) # 0 => Cross(a, b) = Missing /\ (a[2] = 0 <=> b[2] = 0)
           /\ Dot(a, b) = Dot(b, a)
           /\ Dot(a, Cross(b, a)) = 0
           /\ Missing \notin Axes
<1>1. Cross(a, b) = <<a[2] * b[3] - a[3] * b[2], a[3] * b[1] - a[1] * b[3],
                             a[1] * b[2] - a[2] * b[1]>>
  BY DEF Cross
<1>2. Missing \notin Axes
  BY DEF Axes, Missing
<1>3. Dot(a, b) = 0 => Cross(a, b) \in Axes
  BY DEF Axes, Cross, Dot
<1>4. Dot(a, b) # 0 => Cross(a, b) = Missing /\ (a[2] = 0 <=> b[2] = 0)
  BY DEF Axes, Cross, Dot, Missing
<1>5. /\ Dot(a, b) = Dot(b, a)
      /\ Dot(a, Cross(b, a)) = 0
  BY DEF Axes, Cross, Dot
<1>6. QED
  BY <1>2, <1>3, <1>4, <1>5

LEMMA DirectionsAre ==
    ASSUME NEW p, IsDirected(p)
    PROVE  Directions(p) \in AxisRotations
<1> DEFINE x == Identity[1]
           y == Identity[2]
           z == Identity[3]
           forward == Forward(p)
           up == Normalize(UnityToRos(p.up), z)
           left == Normalize(Cross(up, forward), y)
           above == Normalize(Cross(forward, left), z)
<1>1. x = <<1, 0, 0>> /\ y = <<0, 1, 0>> /\ z = <<0, 0, 1>>
  BY DEF Identity
<1>2. x \in Axes /\ y \in Axes /\ z \in Axes
  BY DEF Identity, Axes
<1>3. forward \in Axes /\ up \in Axes
  BY <1>2, DirectionType DEF IsDirected, IsPose, Forward
<1>4. forward[2] = 0 \/ up[2] = 0
  <2>1. p.forward \in Axes \cup {Missing} /\ p.up \in Axes \cup {Missing}
        /\ Dot(p.forward, p.up) = 0
    BY DEF IsDirected, IsPose
  <2>2. QED
    BY <2>1 DEF Axes, Missing, Dot, Normalize, UnityToRos, Identity, Forward
<1>5. Directions(p) = <<forward, left, above>>
  BY DEF Directions
<1> HIDE DEF forward, up
<1>6. left \in Axes /\ Dot(forward, left) = 0
  <2>1. CASE Dot(up, forward) = 0
    BY <1>3, <2>1, AxisCross DEF Normalize
  <2>2. CASE Dot(up, forward) # 0
    <3>1. left = y /\ forward[2] = 0
      BY <1>3, <1>4, <2>2, AxisCross DEF Normalize
    <3>2. forward[1] \in Int /\ forward[3] \in Int
      BY <1>3 DEF Axes
    <3>3. QED
      BY <1>1, <1>2, <3>1, <3>2 DEF Dot
  <2>3. QED
    BY <2>1, <2>2
<1> HIDE DEF left
<1>7. above = Cross(forward, left) /\ above \in Axes
  BY <1>3, <1>6, AxisCross DEF Normalize
<1> HIDE DEF above
<1>8. <<forward, left, above>> \in [1..3 -> Axes]
  BY <1>3, <1>6, <1>7, Triple
<1>9. QED
  BY <1>5, <1>6, <1>7, <1>8 DEF AxisRotations

(* Rotations along the axes are rotations, and so is one as another sees it.   *)
LEMMA AxisRotationIs ==
    ASSUME NEW r \in AxisRotations
    PROVE  IsRotation(r)
<1>1. r[1] \in Axes /\ r[2] \in Axes /\ r[3] = Cross(r[1], r[2])
      /\ Dot(r[1], r[2]) = 0
  BY DEF AxisRotations
<1> DEFINE a == r[1]
           b == r[2]
<1> HIDE DEF a, b
<1>2. /\ Dot(a, a) = 1 /\ Dot(b, b) = 1
      /\ Dot(a, b) = 0 /\ Dot(b, a) = 0
  BY <1>1, AxisCross DEF Axes, Dot, a, b
<1>3. LET c == Cross(a, b)
      IN Dot(c, c) = 1
  BY <1>1 DEF Axes, Dot, Cross, a, b
<1>4. LET c == Cross(a, b)
      IN /\ Dot(a, c) = 0 /\ Dot(c, a) = 0
         /\ Dot(b, c) = 0 /\ Dot(c, b) = 0
  BY <1>1 DEF Axes, Dot, Cross, a, b
<1>5. QED
  BY <1>1, <1>2, <1>3, <1>4 DEF IsRotation, a, b

LEMMA SeenFromIs ==
    ASSUME NEW r \in AxisRotations, NEW s \in AxisRotations
    PROVE  IsRotation(Multiply(Inverted(r), s))
<1> DEFINE m == Multiply(Inverted(r), s)
<1>1. \A i \in 1..3 : m[i] = Rotate(Inverted(r), s[i])
  BY DEF Multiply
<1>2. \A i \in 1..3 : s[i] \in Vectors
  BY ColumnsOf DEF Rotations
<1>3. IsRotation(s) /\ Cross(s[1], s[2]) = s[3]
  BY AxisRotationIs DEF IsRotation
<1> HIDE DEF m
<1>4. \A i, j \in 1..3 : Dot(m[i], m[j]) = IF i = j THEN 1 ELSE 0
  BY <1>1, <1>2, <1>3, TurnKeeps DEF IsRotation
<1>5. Cross(m[1], m[2]) = m[3]
  BY <1>1, <1>2, <1>3, TurnKeeps
<1>6. QED
  BY <1>4, <1>5 DEF IsRotation, m


(* The quaternions the code computes with, and how one is seen from another.    *)
Stands(q, r) == Turns(q, r) /\ r \in AxisRotations /\ Norm(q) \in {1, 2, 4, 8, 16}

LEMMA SeenFrom ==
    ASSUME NEW p, NEW q, NEW r, NEW s, Stands(p, r), Stands(q, s)
    PROVE  /\ MatrixOf(p) = r
           /\ MatrixOf(QuaternionMultiply(QuaternionInverse(p), q)) = Multiply(Inverted(r), s)
           /\ \A v \in Vectors : RotateVector(QuaternionInverse(p), v) = Rotate(Inverted(r), v)
<1> DEFINE back == QuaternionInverse(p)
           seen == QuaternionMultiply(back, q)
<1>1. /\ Turns(p, r) /\ Turns(q, s)
      /\ Norm(p) \in {1, 2, 4, 8, 16} /\ Norm(q) \in {1, 2, 4, 8, 16}
  BY DEF Stands
<1>2. Turns(back, Inverted(r)) /\ Norm(back) = Norm(p)
  BY <1>1, InverseTurns
<1> HIDE DEF back
<1>3. Turns(seen, Multiply(Inverted(r), s)) /\ Norm(seen) = Norm(p) * Norm(q)
  BY <1>1, <1>2, ProductTurns
<1>4. \A m, n \in {1, 2, 4, 8, 16} : m * n \in Norms
  BY DEF Norms
<1>5. Norm(seen) \in Norms /\ Norm(back) \in Norms /\ Norm(p) \in Norms
  BY <1>1, <1>2, <1>3, <1>4 DEF Norms
<1>6. MatrixOf(seen) = Multiply(Inverted(r), s) /\ MatrixOf(p) = r
  BY <1>1, <1>3, <1>5, MatrixOfTurn
<1>7. \A v \in Vectors : RotateVector(back, v) = Rotate(Inverted(r), v)
  BY <1>2, <1>5, VectorTurns
<1> QED BY <1>6, <1>7 DEF back

LEMMA OrientationStands ==
    ASSUME NEW p, IsDirected(p)
    PROVE  Stands(Orientation(p), Directions(p)) /\ Orientation(p) \in Quaternions
<1>1. Directions(p) \in AxisRotations
  BY DirectionsAre
<1>2. /\ Turns(Orientation(p), Directions(p))
      /\ Norm(Orientation(p)) \in {4, 8, 16}
  BY <1>1, AxisTurns DEF Orientation
<1> QED BY <1>1, <1>2 DEF Stands, Turns

LEMMA YawStands ==
    ASSUME NEW p, IsPose(p)
    PROVE  Stands(YawRotation(p), Yaw(p))
BY YawTurns DEF Stands

(* The directions of a pose are those it gives. *)
LEMMA DirectionsFace ==
    ASSUME NEW p, IsDirected(p)
    PROVE  Faces(Directions(p), p)
<1> DEFINE r == Directions(p)
           forward == UnityToRos(p.forward)
           up == UnityToRos(p.up)
<1>1. IsRotation(r)
  BY DirectionsAre, AxisRotationIs
<1>2. Missing \notin Axes /\ \A v \in Axes : UnityToRos(v) \in Axes
  <2>1. Missing \notin Axes
    BY DEF Axes, Missing
  <2>2. ASSUME NEW v \in Axes PROVE UnityToRos(v) \in Axes
    BY DEF Axes, UnityToRos
  <2> QED BY <2>1, <2>2
<1>3. /\ p.forward \in Axes \cup {Missing} /\ p.up \in Axes \cup {Missing}
      /\ Dot(p.forward, p.up) = 0
  BY DEF IsDirected, IsPose
<1>4. ASSUME p.forward # Missing
      PROVE  Forward(p) = forward /\ r[1] = forward /\ forward \in Axes
  <2>1. forward \in Axes
    BY <1>2, <1>3, <1>4
  <2>2. Forward(p) = forward
    BY <1>2, <2>1 DEF Forward, Normalize
  <2> HIDE DEF forward
  <2> QED BY <2>1, <2>2 DEF Directions
<1>5. ASSUME p.forward # Missing, p.up # Missing
      PROVE  r[3] = up
  <2>1. p.forward \in Axes /\ p.up \in Axes /\ forward \in Axes /\ up \in Axes
    BY <1>2, <1>3, <1>5
  <2>2. Dot(up, forward) = 0
    BY <1>3, <2>1 DEF Axes, Dot, UnityToRos
  <2>3. \A a, b \in Axes : Dot(a, b) = 0 =>
            Cross(a, b) \in Axes /\ Cross(b, Cross(a, b)) = a
    BY DEF Axes, Dot, Cross
  <2>4. Normalize(up, Identity[3]) = up /\ Forward(p) = forward
    BY <1>2, <1>4, <1>5, <2>1 DEF Normalize
  <2> HIDE DEF forward, up
  <2>5. /\ Cross(up, forward) \in Axes
        /\ Cross(forward, Cross(up, forward)) = up
    BY <2>1, <2>2, <2>3
  <2>6. Normalize(Cross(up, forward), Identity[2]) = Cross(up, forward)
    BY <1>2, <2>5 DEF Normalize
  <2>7. Normalize(Cross(forward, Cross(up, forward)), Identity[3]) = up
    BY <1>2, <2>1, <2>5 DEF Normalize
  <2>8. Directions(p) = <<forward, Cross(up, forward), up>>
    BY <2>4, <2>6, <2>7 DEF Directions, up
  <2> QED BY <2>8
<1> QED BY <1>1, <1>4, <1>5 DEF Faces

(* What was broadcast for the last payload. *)
Broadcast ==
    /\ payload \in Payloads
    /\ transforms = {BaseTransform(payload), CameraTransform(payload)}
                    \cup UNION {HandTransforms(payload, h) : h \in Hands(payload)}

HandTransform(h) ==
    FromBase(payload, HandFrame(h.hand), h.position, h.rotation)

JointTransform(h, j) ==
    Transform(HandFrame(h.hand), JointFrame(h.hand, j.name),
                     RotateVector(QuaternionInverse(h.rotation), Minus(j.position, h.position)),
                     QuaternionMultiply(QuaternionInverse(h.rotation), j.rotation))

FlatTransform(h, j) ==
    FromBase(payload, FlatJointFrame(h.hand, j.name), j.position, j.rotation)

(* The hands and joints that are parsed: no two alike, and each with the        *)
(* position and rotation it was sent with.                                     *)
Parsed(k) ==
    [hand |-> k.hand, position |-> UnityToRos(k.position), rotation |-> Orientation(k),
     joints |-> Joints(k)]

ParsedJoint(l) ==
    [name |-> l.name, position |-> UnityToRos(l.position), rotation |-> Orientation(l)]

TrackedHands == {k \in payload.hands : k.tracked /\ k.located}
NamedJoints(k) == {l \in k.joints : l.named /\ l.located}

LEMMA PoseParsed ==
    ASSUME NEW p, IsDirected(p)
    PROVE  /\ UnityToRos(p.position) \in Vectors
           /\ Stands(Orientation(p), Directions(p))
BY OrientationStands, VectorTypes DEF IsDirected, IsPose

LEMMA HandsParsed ==
    ASSUME payload \in Payloads
    PROVE  /\ IsDirected(payload)
           /\ Hands(payload) = {Parsed(k) : k \in TrackedHands}
           /\ \A k \in TrackedHands :
                  /\ IsDirected(k)
                  /\ Joints(k) = {ParsedJoint(l) : l \in NamedJoints(k)}
                  /\ \A l \in NamedJoints(k) : IsDirected(l)
           /\ \A h \in Hands(payload) : \A i, j \in h.joints : i.name = j.name => i = j
           /\ \A g, h \in Hands(payload) : g.hand = h.hand => g = h
           /\ \A h \in payload.hands, g \in Hands(payload) :
                  ~(h.tracked /\ h.located) => g.hand # h.hand
<1>1. /\ IsDirected(payload)
      /\ \A h \in payload.hands : IsHand(h)
      /\ \A g, h \in payload.hands : g.hand = h.hand => g = h
  BY HandAssumption DEF Payloads
<1>2. Hands(payload) = {Parsed(k) : k \in TrackedHands}
  BY DEF Hands, Parsed, TrackedHands
<1>3. ASSUME NEW k \in TrackedHands
      PROVE  /\ IsDirected(k) /\ Parsed(k).hand = k.hand /\ Parsed(k).joints = Joints(k)
             /\ Joints(k) = {ParsedJoint(l) : l \in NamedJoints(k)}
             /\ \A l \in NamedJoints(k) : IsDirected(l)
             /\ \A i, j \in Joints(k) : i.name = j.name => i = j
  <2>1. IsHand(k) /\ IsDirected(k)
    BY <1>1 DEF IsHand, TrackedHands
  <2>2. Joints(k) = {ParsedJoint(l) : l \in NamedJoints(k)}
    BY DEF Joints, ParsedJoint, NamedJoints
  <2>3. /\ \A l \in NamedJoints(k) : IsDirected(l) /\ ParsedJoint(l).name = l.name
        /\ \A l, m \in NamedJoints(k) : l.name = m.name => l = m
    BY <2>1 DEF IsHand, NamedJoints, ParsedJoint
  <2>4. \A i, j \in Joints(k) : i.name = j.name => i = j
    BY <2>2, <2>3
  <2>5. Parsed(k).hand = k.hand /\ Parsed(k).joints = Joints(k)
    BY DEF Parsed
  <2> QED BY <2>1, <2>2, <2>3, <2>4, <2>5
<1>4. \A h \in Hands(payload) : \E k \in TrackedHands :
          h = Parsed(k) /\ h.hand = k.hand /\ h.joints = Joints(k)
  BY <1>2, <1>3
<1>5. \A g, h \in Hands(payload) : g.hand = h.hand => g = h
  BY <1>1, <1>4 DEF TrackedHands
<1>6. \A h \in payload.hands, g \in Hands(payload) :
          ~(h.tracked /\ h.located) => g.hand # h.hand
  BY <1>1, <1>4 DEF TrackedHands
<1> QED BY <1>1, <1>2, <1>3, <1>4, <1>5, <1>6

(* The names of the frames. *)
LEMMA FrameNames ==
    /\ BaseFrame # CameraFrame
    /\ \A g, h : /\ HandFrame(h) # BaseFrame /\ HandFrame(h) # CameraFrame
                 /\ HandFrame(g) = HandFrame(h) => g = h
    /\ \A g, h, m, n :
           /\ JointFrame(h, n) # BaseFrame /\ JointFrame(h, n) # CameraFrame
           /\ JointFrame(h, n) # HandFrame(g)
           /\ JointFrame(h, n) # FlatJointFrame(g, m)
           /\ JointFrame(g, m) = JointFrame(h, n) => g = h /\ m = n
           /\ FlatJointFrame(h, n) # BaseFrame
           /\ FlatJointFrame(h, n) # CameraFrame
           /\ FlatJointFrame(h, n) # HandFrame(g)
           /\ FlatJointFrame(g, m) = FlatJointFrame(h, n) => g = h /\ m = n
<1>1. ASSUME NEW g, NEW h, NEW m, NEW n
      PROVE  /\ HandFrame(h) # BaseFrame /\ HandFrame(h) # CameraFrame
             /\ HandFrame(g) = HandFrame(h) => g = h
             /\ JointFrame(h, n) # BaseFrame /\ JointFrame(h, n) # CameraFrame
             /\ JointFrame(h, n) # HandFrame(g)
             /\ JointFrame(h, n) # FlatJointFrame(g, m)
             /\ JointFrame(g, m) = JointFrame(h, n) => g = h /\ m = n
             /\ FlatJointFrame(h, n) # BaseFrame
             /\ FlatJointFrame(h, n) # CameraFrame
             /\ FlatJointFrame(h, n) # HandFrame(g)
             /\ FlatJointFrame(g, m) = FlatJointFrame(h, n) => g = h /\ m = n
  BY DEF HandFrame, JointFrame, FlatJointFrame, BaseFrame,
         CameraFrame
<1>2. BaseFrame # CameraFrame
  BY DEF BaseFrame, CameraFrame
<1>3. QED
  BY <1>1, <1>2

(* The transforms, by what they show. *)
LEMMA TransformKinds ==
    ASSUME Broadcast
    PROVE  \A t :
        t \in transforms <=>
            \/ t = BaseTransform(payload) \/ t = CameraTransform(payload)
            \/ \E h \in Hands(payload) :
                   \/ t = HandTransform(h)
                   \/ \E j \in h.joints : t = JointTransform(h, j) \/ t = FlatTransform(h, j)
<1>1. ASSUME NEW h
      PROVE  HandTransforms(payload, h)
                 = {HandTransform(h)} \cup {JointTransform(h, j) : j \in h.joints}
                   \cup {FlatTransform(h, j) : j \in h.joints}
  BY DEF HandTransforms, HandTransform, JointTransform, FlatTransform
<1>2. QED
  BY <1>1 DEF Broadcast

LEMMA Children ==
    /\ BaseTransform(payload).child = BaseFrame
    /\ CameraTransform(payload).child = CameraFrame
    /\ \A h : HandTransform(h).child = HandFrame(h.hand)
    /\ \A h, j : /\ JointTransform(h, j).child = JointFrame(h.hand, j.name)
                 /\ FlatTransform(h, j).child = FlatJointFrame(h.hand, j.name)
BY DEF BaseTransform, CameraTransform, HandTransform, JointTransform, FlatTransform,
       FromBase, Transform

LEMMA KindOf ==
    ASSUME Broadcast, NEW t \in transforms
    PROVE  \/ t = BaseTransform(payload) /\ t.child = BaseFrame
           \/ t = CameraTransform(payload) /\ t.child = CameraFrame
           \/ \E h \in Hands(payload) :
                  t = HandTransform(h) /\ t.child = HandFrame(h.hand)
           \/ \E h \in Hands(payload) : \E j \in h.joints :
                  t = JointTransform(h, j) /\ t.child = JointFrame(h.hand, j.name)
           \/ \E h \in Hands(payload) : \E j \in h.joints :
                  t = FlatTransform(h, j) /\ t.child = FlatJointFrame(h.hand, j.name)
BY TransformKinds, Children

(* What the transforms show of the base and the camera. *)
LEMMA HeadTransforms ==
    ASSUME Broadcast
    PROVE  /\ At(BaseFrame) = BaseTransform(payload)
           /\ At(CameraFrame) = CameraTransform(payload)
           /\ \A t \in transforms :
                  /\ t.child = BaseFrame => t = BaseTransform(payload)
                  /\ t.child = CameraFrame => t = CameraTransform(payload)
<1>1. \A t \in transforms :
          /\ t.child = BaseFrame => t = BaseTransform(payload)
          /\ t.child = CameraFrame => t = CameraTransform(payload)
  BY KindOf, FrameNames
<1>2. /\ BaseTransform(payload) \in transforms
      /\ CameraTransform(payload) \in transforms
  BY TransformKinds
<1>3. QED
  BY <1>1, <1>2, Children DEF At

(* Of the camera they show its orientation, and the position that was sent, if  *)
(* the camera can be there; and it is above the base by its full height.        *)
CameraSeen ==
    /\ InMap(CameraFrame) \in Views
    /\ InMap(CameraFrame).rotation = Directions(payload)
    /\ InMap(CameraFrame).position
           = Plus(BasePosition(payload), <<0, 0, camera_height>>)
    /\ Upright(payload)
           => InMap(CameraFrame).position = UnityToRos(payload.position)

LEMMA BaseIsPlaced ==
    ASSUME Broadcast
    PROVE  /\ BasePosition(payload) \in Vectors
           /\ UnityToRos(payload.position) \in Vectors
           /\ <<0, 0, camera_height>> \in Vectors
           /\ IsPose(payload) /\ IsDirected(payload)
<1> DEFINE head == UnityToRos(payload.position)
<1>1. IsPose(payload)
  BY PoseAssumption DEF Broadcast, Payloads
<1>2. head \in Vectors /\ <<0, 0, camera_height>> \in Vectors
  BY <1>1, VectorTypes, Triple, PoseAssumption DEF IsPose, Vectors
<1>3. \A i \in 1..3 : head[i] \in Int
  BY <1>2 DEF Vectors
<1>4. Highest(floor_height, head[3] - camera_height) \in Int
  BY <1>3, PoseAssumption DEF Highest
<1> HIDE DEF head
<1>5. BasePosition(payload) \in Vectors
  BY <1>2, <1>3, <1>4, Triple DEF BasePosition, Vectors, head
<1>6. QED
  BY <1>1, <1>2, <1>5, HandsParsed DEF head, Broadcast

LEMMA CameraShown == Broadcast => CameraSeen
<1> SUFFICES ASSUME Broadcast PROVE CameraSeen
  OBVIOUS
<1> DEFINE p == payload
           yaw == Yaw(p)
           seen == Directions(p)
           base == BaseTransform(p)
           camera == CameraTransform(p)
           head == UnityToRos(p.position)
           up == <<0, 0, camera_height>>
<1>1. /\ yaw \in AxisRotations /\ yaw \in Rotations /\ yaw[3] = <<0, 0, 1>>
      /\ seen \in Rotations
      /\ Stands(YawRotation(p), yaw) /\ Stands(Orientation(p), seen)
  BY BaseIsPlaced, YawTurns, YawStands, ColumnsOf, DirectionsAre, OrientationStands
<1>2. /\ base.translation = BasePosition(p) /\ MatrixOf(base.rotation) = yaw
      /\ camera.translation = up /\ MatrixOf(camera.rotation) = Multiply(Inverted(yaw), seen)
  <2>1. /\ base.rotation = YawRotation(p) /\ base.translation = BasePosition(p)
        /\ camera.rotation
               = QuaternionMultiply(QuaternionInverse(YawRotation(p)), Orientation(p))
        /\ camera.translation = up
    BY DEF BaseTransform, CameraTransform, Transform
  <2> QED BY <1>1, <2>1, SeenFrom
<1>3. InMap(CameraFrame)
          = [position |-> Plus(BasePosition(p), Rotate(yaw, up)),
             rotation |-> Multiply(yaw, Multiply(Inverted(yaw), seen))]
  BY <1>2, HeadTransforms DEF InMap, BaseInMap, Below
<1>4. Multiply(yaw, Multiply(Inverted(yaw), seen)) = seen
  BY <1>1, TurnRotationBack
<1>5. Rotate(yaw, up) = up
  <2>1. \A i \in 1..3 : yaw[1][i] \in Int /\ yaw[2][i] \in Int
    BY <1>1 DEF Rotations, Vectors
  <2>2. camera_height \in Int
    BY PoseAssumption
  <2> HIDE DEF yaw
  <2>3. \A i \in 1..3 : yaw[1][i] * 0 + yaw[2][i] * 0 + yaw[3][i] * camera_height = up[i]
    BY <1>1, <2>1, <2>2
  <2>4. up = [i \in 1..3 |-> up[i]]
    OBVIOUS
  <2>5. QED
    BY <2>3, <2>4 DEF Rotate
<1>6. Upright(p) => Plus(BasePosition(p), up) = head
  <2> SUFFICES ASSUME Upright(p) PROVE Plus(BasePosition(p), up) = head
    OBVIOUS
  <2>1. \A i \in 1..3 : head[i] \in Int
    BY BaseIsPlaced DEF Vectors
  <2>2. Highest(floor_height, head[3] - camera_height) = head[3] - camera_height
    BY <2>1, PoseAssumption DEF Highest, Upright
  <2>3. BasePosition(p) = <<head[1], head[2], head[3] - camera_height>>
    BY <2>2 DEF BasePosition, Upright
  <2>4. head = [i \in 1..3 |-> head[i]]
    BY BaseIsPlaced DEF Vectors
  <2> HIDE DEF head
  <2>5. \A i \in 1..3 : <<head[1], head[2], head[3] - camera_height>>[i] + up[i] = head[i]
    BY <2>1, PoseAssumption
  <2>6. QED
    BY <2>3, <2>4, <2>5 DEF Plus
<1>7. Plus(BasePosition(p), up) \in Vectors
  BY BaseIsPlaced, VectorTypes
<1>8. InMap(CameraFrame)
          = [position |-> Plus(BasePosition(p), up), rotation |-> seen]
  BY <1>3, <1>4, <1>5
<1> HIDE DEF seen, head, up
<1>9. QED
  BY <1>1, <1>6, <1>7, <1>8 DEF CameraSeen, Views, seen, head, up

(* Publishing a payload broadcasts it. *)
LEMMA BroadcastNext ==
    ASSUME payload' \in Payloads, UNCHANGED pose_origin,
           transforms' = {BaseTransform(payload'), CameraTransform(payload')}
                         \cup UNION {HandTransforms(payload', h) : h \in Hands(payload')}
    PROVE  Broadcast'
<1>1. BasePosition(payload)' = BasePosition(payload')
  BY DEF BasePosition
<1>2. /\ BaseTransform(payload)' = BaseTransform(payload')
      /\ CameraTransform(payload)' = CameraTransform(payload')
      /\ Hands(payload)' = Hands(payload')
  BY <1>1 DEF BaseTransform, CameraTransform, Hands
<1>3. ASSUME NEW h
      PROVE  HandTransforms(payload, h)' = HandTransforms(payload', h)
  BY <1>1 DEF HandTransforms, FromBase
<1>4. QED
  BY <1>2, <1>3 DEF Broadcast

(* No frame has two transforms. *)
LEMMA OneTransform ==
    ASSUME Broadcast
    PROVE  /\ \A h \in Hands(payload) :
                  /\ At(HandFrame(h.hand)) = HandTransform(h)
                  /\ \A j \in h.joints :
                         /\ At(JointFrame(h.hand, j.name)) = JointTransform(h, j)
                         /\ At(FlatJointFrame(h.hand, j.name)) = FlatTransform(h, j)
           /\ \A s, t \in transforms : s.child = t.child => s = t
           /\ \A h \in payload.hands : ~(h.tracked /\ h.located) =>
                  \A t \in transforms : t.child # HandFrame(h.hand)
<1>1. /\ \A g, h \in Hands(payload) : g.hand = h.hand => g = h
      /\ \A h \in Hands(payload) : \A i, j \in h.joints : i.name = j.name => i = j
      /\ \A h \in payload.hands, g \in Hands(payload) : ~(h.tracked /\ h.located) => g.hand # h.hand
  BY HandsParsed DEF Broadcast
<1>2. ASSUME NEW t \in transforms
      PROVE  \/ t = BaseTransform(payload) /\ t.child = BaseFrame
             \/ t = CameraTransform(payload) /\ t.child = CameraFrame
             \/ \E h \in Hands(payload) :
                    t = HandTransform(h) /\ t.child = HandFrame(h.hand)
             \/ \E h \in Hands(payload) : \E j \in h.joints :
                    t = JointTransform(h, j) /\ t.child = JointFrame(h.hand, j.name)
             \/ \E h \in Hands(payload) : \E j \in h.joints :
                    t = FlatTransform(h, j) /\ t.child = FlatJointFrame(h.hand, j.name)
  BY KindOf
<1>3. \A t \in transforms :
          /\ t.child = BaseFrame => t = BaseTransform(payload)
          /\ t.child = CameraFrame => t = CameraTransform(payload)
  BY HeadTransforms
<1>4. ASSUME NEW h \in Hands(payload), NEW t \in transforms,
             t.child = HandFrame(h.hand)
      PROVE  t = HandTransform(h)
  <2>1. PICK g \in Hands(payload) : t = HandTransform(g) /\ t.child = HandFrame(g.hand)
    <3>1. /\ t.child # BaseFrame /\ t.child # CameraFrame
          /\ \A g, n : /\ t.child # JointFrame(g, n)
                       /\ t.child # FlatJointFrame(g, n)
      BY <1>4, FrameNames
    <3>2. QED
      BY <1>2, <3>1, Zenon
  <2>2. QED
    BY <1>1, <1>4, <2>1, FrameNames
<1>5. ASSUME NEW h \in Hands(payload), NEW j \in h.joints, NEW t \in transforms,
             t.child = JointFrame(h.hand, j.name)
      PROVE  t = JointTransform(h, j)
  <2>1. PICK g \in Hands(payload) : \E i \in g.joints :
            t = JointTransform(g, i) /\ t.child = JointFrame(g.hand, i.name)
    <3>1. /\ t.child # BaseFrame /\ t.child # CameraFrame
          /\ \A g : t.child # HandFrame(g)
          /\ \A g, n : t.child # FlatJointFrame(g, n)
      BY <1>5, FrameNames
    <3>2. QED
      BY <1>2, <3>1, Zenon
  <2>2. PICK i \in g.joints :
            t = JointTransform(g, i) /\ t.child = JointFrame(g.hand, i.name)
    BY <2>1
  <2>3. g.hand = h.hand /\ i.name = j.name
    BY <1>5, <2>2, FrameNames
  <2>4. QED
    BY <1>1, <2>2, <2>3
<1>6. ASSUME NEW h \in Hands(payload), NEW j \in h.joints, NEW t \in transforms,
             t.child = FlatJointFrame(h.hand, j.name)
      PROVE  t = FlatTransform(h, j)
  <2>1. PICK g \in Hands(payload) : \E i \in g.joints :
            t = FlatTransform(g, i) /\ t.child = FlatJointFrame(g.hand, i.name)
    BY <1>2, <1>6, FrameNames
  <2>2. PICK i \in g.joints :
            t = FlatTransform(g, i) /\ t.child = FlatJointFrame(g.hand, i.name)
    BY <2>1
  <2>3. g.hand = h.hand /\ i.name = j.name
    BY <1>6, <2>2, FrameNames
  <2>4. QED
    BY <1>1, <2>2, <2>3
<1>7. \A s, t \in transforms : s.child = t.child => s = t
  BY <1>2, <1>3, <1>4, <1>5, <1>6, Children
<1>8. \A t \in transforms : At(t.child) = t
  BY <1>7 DEF At
<1>9. /\ BaseTransform(payload) \in transforms
      /\ CameraTransform(payload) \in transforms
      /\ \A h \in Hands(payload) :
             /\ HandTransform(h) \in transforms
             /\ \A j \in h.joints : JointTransform(h, j) \in transforms /\ FlatTransform(h, j) \in transforms
  BY TransformKinds
<1>10. ASSUME NEW h \in payload.hands, ~(h.tracked /\ h.located), NEW t \in transforms,
              t.child = HandFrame(h.hand)
       PROVE  FALSE
  <2>1. PICK g \in Hands(payload) : t.child = HandFrame(g.hand)
    BY <1>2, <1>10, FrameNames
  <2>2. g.hand = h.hand
    BY <1>10, <2>1, FrameNames
  <2>3. QED
    BY <1>1, <1>10, <2>2
<1>11. QED
  BY <1>7, <1>8, <1>9, <1>10, Children

(* What is seen from a base or hand, where it was sent. *)
LEMMA PlacedInMap ==
    ASSUME NEW parent, NEW child, NEW p, NEW q, NEW r, NEW s, Stands(p, r), Stands(q, s),
           NEW place \in Vectors, NEW position \in Vectors
    PROVE  Below([position |-> place, rotation |-> r],
                 Transform(parent, child,
                           RotateVector(QuaternionInverse(p), Minus(position, place)),
                           QuaternionMultiply(QuaternionInverse(p), q)))
               = [position |-> position, rotation |-> s]
<1>1. /\ Minus(position, place) \in Vectors /\ s \in Rotations
      /\ r \in AxisRotations
  BY VectorTypes, ColumnsOf DEF Stands
<1>2. /\ RotateVector(QuaternionInverse(p), Minus(position, place))
             = Rotate(Inverted(r), Minus(position, place))
      /\ MatrixOf(QuaternionMultiply(QuaternionInverse(p), q)) = Multiply(Inverted(r), s)
  BY <1>1, SeenFrom
<1>3. Rotate(r, Rotate(Inverted(r), Minus(position, place))) = Minus(position, place)
  BY <1>1, TurnBack
<1>4. Plus(place, Minus(position, place)) = position
  BY PlusMinus
<1>5. Multiply(r, Multiply(Inverted(r), s)) = s
  BY <1>1, TurnRotationBack
<1>6. QED
  BY <1>2, <1>3, <1>4, <1>5 DEF Below, Transform

(* Hands and joints, looked up through the tree of frames. *)
SentPose(p) == [position |-> UnityToRos(p.position), rotation |-> Directions(p)]

LEMMA HandsShown ==
    ASSUME Broadcast, NEW k \in TrackedHands
    PROVE  /\ InMap(HandFrame(k.hand)) = SentPose(k)
           /\ \A l \in NamedJoints(k) :
                  /\ JointInMap(k.hand, l.name) = SentPose(l)
                  /\ InMap(FlatJointFrame(k.hand, l.name)) = SentPose(l)
<1> DEFINE turn == YawRotation(payload)
           yaw == Yaw(payload)
           place == BasePosition(payload)
           h == Parsed(k)
<1>1. /\ IsDirected(k) /\ h \in Hands(payload)
      /\ h.hand = k.hand /\ h.position = UnityToRos(k.position) /\ h.rotation = Orientation(k)
      /\ h.joints = {ParsedJoint(l) : l \in NamedJoints(k)}
      /\ \A l \in NamedJoints(k) : IsDirected(l)
  BY HandsParsed DEF Broadcast, Parsed
<1>2. /\ Stands(turn, yaw) /\ place \in Vectors
      /\ UnityToRos(k.position) \in Vectors /\ Stands(Orientation(k), Directions(k))
      /\ \A l \in NamedJoints(k) :
             /\ UnityToRos(l.position) \in Vectors /\ Stands(Orientation(l), Directions(l))
             /\ ParsedJoint(l) \in h.joints /\ ParsedJoint(l).name = l.name
             /\ ParsedJoint(l).position = UnityToRos(l.position)
             /\ ParsedJoint(l).rotation = Orientation(l)
  BY <1>1, BaseIsPlaced, YawStands, PoseParsed DEF ParsedJoint
<1>3. BaseInMap = [position |-> place, rotation |-> yaw]
  <2>1. MatrixOf(turn) = yaw
    BY <1>2, SeenFrom
  <2> QED BY <2>1, HeadTransforms DEF BaseInMap, BaseTransform, Transform
<1> DEFINE Local(rotation, at, position, seen, parent, child) ==
        Transform(parent, child,
            RotateVector(QuaternionInverse(rotation), Minus(position, at)),
            QuaternionMultiply(QuaternionInverse(rotation), seen))
<1>4. /\ HandTransform(h) = Local(turn, place, h.position, h.rotation, BaseFrame,
                                  HandFrame(h.hand))
      /\ \A j : /\ FlatTransform(h, j) = Local(turn, place, j.position, j.rotation, BaseFrame,
                                               FlatJointFrame(h.hand, j.name))
                /\ JointTransform(h, j) = Local(h.rotation, h.position, j.position, j.rotation,
                                                HandFrame(h.hand),
                                                JointFrame(h.hand, j.name))
  BY DEF HandTransform, FlatTransform, JointTransform, FromBase
<1>5. ASSUME NEW p, NEW q, NEW r, NEW s, Stands(p, r), Stands(q, s),
             NEW at \in Vectors, NEW position \in Vectors, NEW parent, NEW child
      PROVE  Below([position |-> at, rotation |-> r], Local(p, at, position, q, parent, child))
                 = [position |-> position, rotation |-> s]
  BY <1>5, PlacedInMap
<1> HIDE DEF turn, yaw, place, Local, h
<1>6. InMap(HandFrame(k.hand)) = SentPose(k)
  <2>1. InMap(HandFrame(h.hand))
            = Below([position |-> place, rotation |-> yaw], HandTransform(h))
    BY <1>1, <1>3, OneTransform DEF InMap
  <2> QED BY <1>1, <1>2, <1>4, <1>5, <2>1 DEF SentPose
<1>7. ASSUME NEW l \in NamedJoints(k)
      PROVE  /\ InMap(FlatJointFrame(k.hand, l.name)) = SentPose(l)
             /\ JointInMap(k.hand, l.name) = SentPose(l)
  <2> DEFINE j == ParsedJoint(l)
  <2>1. /\ j \in h.joints /\ j.name = l.name /\ j.position = UnityToRos(l.position)
        /\ j.rotation = Orientation(l)
        /\ Stands(Orientation(l), Directions(l)) /\ UnityToRos(l.position) \in Vectors
    BY <1>2
  <2> HIDE DEF j
  <2>2. /\ At(FlatJointFrame(h.hand, j.name)) = FlatTransform(h, j)
        /\ At(JointFrame(h.hand, j.name)) = JointTransform(h, j)
    BY <1>1, <2>1, OneTransform
  <2>3. InMap(FlatJointFrame(k.hand, l.name))
            = Below([position |-> place, rotation |-> yaw], FlatTransform(h, j))
    BY <1>1, <1>3, <2>1, <2>2 DEF InMap
  <2>4. JointInMap(k.hand, l.name)
            = Below([position |-> UnityToRos(k.position), rotation |-> Directions(k)],
                    JointTransform(h, j))
    BY <1>1, <1>6, <2>1, <2>2 DEF JointInMap, SentPose
  <2>5. InMap(FlatJointFrame(k.hand, l.name)) = SentPose(l)
    BY <1>2, <1>4, <1>5, <2>1, <2>3 DEF SentPose
  <2>6. JointInMap(k.hand, l.name) = SentPose(l)
    BY <1>1, <1>2, <1>4, <1>5, <2>1, <2>4 DEF SentPose
  <2> QED BY <2>5, <2>6
<1> QED BY <1>6, <1>7

LEMMA TransformsRotate ==
    ASSUME Broadcast, NEW t \in transforms
    PROVE  IsRotation(MatrixOf(t.rotation))
<1> DEFINE Seen(p, q) == QuaternionMultiply(QuaternionInverse(p), q)
           Standing(q) == \E r : Stands(q, r)
           turn == YawRotation(payload)
           seen == Orientation(payload)
<1>1. Standing(turn) /\ Standing(seen)
  BY BaseIsPlaced, YawStands, OrientationStands
<1>2. /\ BaseTransform(payload).rotation = turn
      /\ CameraTransform(payload).rotation = Seen(turn, seen)
      /\ \A h : HandTransform(h).rotation = Seen(turn, h.rotation)
      /\ \A h, j : /\ FlatTransform(h, j).rotation = Seen(turn, j.rotation)
                   /\ JointTransform(h, j).rotation = Seen(h.rotation, j.rotation)
  BY DEF HandTransform, FlatTransform, JointTransform, FromBase, Transform,
         BaseTransform, CameraTransform
<1>3. \A h \in Hands(payload) :
          Standing(h.rotation) /\ \A j \in h.joints : Standing(j.rotation)
  <2> SUFFICES ASSUME NEW h \in Hands(payload)
               PROVE  Standing(h.rotation) /\ \A j \in h.joints : Standing(j.rotation)
    OBVIOUS
  <2>1. PICK k \in TrackedHands : h = Parsed(k)
    BY HandsParsed DEF Broadcast
  <2>2. /\ IsDirected(k) /\ h.rotation = Orientation(k)
        /\ h.joints = {ParsedJoint(l) : l \in NamedJoints(k)}
        /\ \A l \in NamedJoints(k) : IsDirected(l) /\ ParsedJoint(l).rotation = Orientation(l)
    BY <2>1, HandsParsed DEF Broadcast, Parsed, ParsedJoint
  <2>3. \A q : IsDirected(q) => Standing(Orientation(q))
    BY OrientationStands
  <2> HIDE DEF Standing
  <2> QED BY <2>2, <2>3
<1>4. \A q : Standing(q) => IsRotation(MatrixOf(q))
  BY SeenFrom, AxisRotationIs DEF Stands
<1>5. ASSUME NEW p, NEW q, Standing(p), Standing(q)
      PROVE  IsRotation(MatrixOf(Seen(p, q)))
  <2>1. PICK r, s : Stands(p, r) /\ Stands(q, s)
    BY <1>5
  <2>2. MatrixOf(Seen(p, q)) = Multiply(Inverted(r), s)
    BY <2>1, SeenFrom
  <2> QED BY <2>1, <2>2, SeenFromIs DEF Stands
<1> HIDE DEF turn, seen, Standing, Seen
<1>6. CASE t = BaseTransform(payload) \/ t = CameraTransform(payload)
  BY <1>1, <1>2, <1>4, <1>5, <1>6
<1>7. CASE \E h \in Hands(payload) : t = HandTransform(h)
  BY <1>1, <1>2, <1>3, <1>5, <1>7
<1>8. CASE \E h \in Hands(payload) : \E j \in h.joints :
               t = JointTransform(h, j) \/ t = FlatTransform(h, j)
  BY <1>1, <1>2, <1>3, <1>5, <1>8
<1>9. QED
  BY <1>6, <1>7, <1>8, TransformKinds

LEMMA BroadcastComposes ==
    ASSUME Broadcast
    PROVE  FramesCompose
<1>1. CameraSeen /\ IsDirected(payload)
  BY CameraShown, BaseIsPlaced
<1>2. /\ Faces(InMap(CameraFrame).rotation, payload)
      /\ Upright(payload)
             => InMap(CameraFrame).position = UnityToRos(payload.position)
      /\ pose_origin = "base"
             => InMap(CameraFrame).position
                    = Plus(UnityToRos(payload.position), <<0, 0, camera_height>>)
  BY <1>1, DirectionsFace DEF CameraSeen, BasePosition
<1>3. \A t \in transforms : IsRotation(MatrixOf(t.rotation))
  BY TransformsRotate
<1>4. /\ \A s, t \in transforms : s.child = t.child => s = t
      /\ \A h \in payload.hands : ~(h.tracked /\ h.located) =>
             \A t \in transforms : t.child # HandFrame(h.hand)
  BY OneTransform
<1>5. \A p : IsDirected(p) => Placed(SentPose(p), p)
  BY DirectionsFace DEF Placed, SentPose
<1>6. ASSUME NEW h \in payload.hands, h.tracked /\ h.located
      PROVE  /\ Placed(InMap(HandFrame(h.hand)), h)
             /\ \A j \in h.joints :
                    j.named /\ j.located =>
                        /\ Placed(JointInMap(h.hand, j.name), j)
                        /\ JointInMap(h.hand, j.name) = InMap(FlatJointFrame(h.hand, j.name))
  <2>1. h \in TrackedHands /\ IsDirected(h)
    BY <1>6, HandsParsed DEF TrackedHands, Broadcast
  <2>2. \A j \in NamedJoints(h) : IsDirected(j)
    BY <2>1, HandsParsed DEF Broadcast
  <2>3. /\ InMap(HandFrame(h.hand)) = SentPose(h)
        /\ \A l \in NamedJoints(h) :
               /\ JointInMap(h.hand, l.name) = SentPose(l)
               /\ InMap(FlatJointFrame(h.hand, l.name)) = SentPose(l)
    BY <2>1, HandsShown
  <2> QED BY <1>5, <2>1, <2>2, <2>3 DEF NamedJoints
<1>7. QED
  BY <1>2, <1>3, <1>4, <1>6, Zenon DEF FramesCompose

(* What is remembered of a pose. *)
Entries == [payload : Payloads, arrival : Int, shown : SUBSET Views]

SampleOf(entry) ==
    [timestamp |-> entry.payload.timestamp, arrival |-> entry.arrival,
     pose |-> PoseOf(entry.payload)]

(* The history, when so many poses had come: the end of what was sent, in its    *)
(* order, as far back as it reaches.                                           *)
IsEnd(samples, upto, ps) ==
    /\ samples \in Seq(Samples)
    /\ Len(samples) <= upto /\ Len(samples) <= HistorySize
    /\ Len(samples) = upto \/ Len(samples) = HistorySize
    /\ \A i \in 1..Len(samples) : samples[i] = SampleOf(ps[upto - Len(samples) + i])

(* That of now, and the copy of the video thread. *)
HistoryInv ==
    /\ incoming \in Seq(Payloads) /\ now \in Int
    /\ sending # <<>> => \E p \in Payloads : sending = <<p>>
    /\ poses \in Seq(Entries)
    /\ IsEnd(history, Len(poses), poses)
    /\ copied # NoFrame =>
           /\ copied.header.timestamp \in Nat
           /\ copied.upto \in 0..Len(poses)
           /\ IsEnd(copied.samples, copied.upto, poses)

(* What /tf showed of each pose, and why it has shown nothing of another.        *)
ShownWell(k) ==
    LET p == poses[k].payload
    IN /\ p.timestamp > 0
       /\ \A seen \in poses[k].shown :
              /\ seen.rotation = Directions(p)
              /\ Upright(p) => seen.position = UnityToRos(p.position)
       /\ poses[k].shown = {} => (k = Len(poses) /\ sending = <<p>>) \/ ~p.readable

ShownInv ==
    /\ \A k \in 1..Len(poses) : ShownWell(k)
    /\ \A p : sending = <<p>> /\ p.timestamp > 0 =>
                  Len(poses) > 0 /\ poses[Len(poses)].payload = p

(* What came from the headset. *)
LEMMA PayloadType ==
    ASSUME NEW p \in Payloads
    PROVE  /\ IsPose(p) /\ IsDirected(p) /\ p.timestamp \in Nat
           /\ PoseOf(p) \in CameraPoses
           /\ MatrixOf(Orientation(p)) = Directions(p) /\ Faces(Directions(p), p)
<1>1. IsPose(p) /\ IsDirected(p) /\ p.timestamp \in Nat
  BY PoseAssumption, HandAssumption DEF Payloads
<1>2. Stands(Orientation(p), Directions(p)) /\ Orientation(p) \in Quaternions
  BY <1>1, OrientationStands
<1>3. MatrixOf(Orientation(p)) = Directions(p)
  BY <1>2, SeenFrom
<1>4. UnityToRos(p.position) \in Vectors
  BY <1>1, VectorTypes DEF IsPose
<1>5. PoseOf(p) \in CameraPoses
  BY <1>2, <1>4 DEF PoseOf, CameraPoses
<1> QED BY <1>1, <1>3, <1>5, DirectionsFace

(* The places of "poses" a history stands for. *)
LEMMA RecentIsHistory ==
    ASSUME NEW samples, IsEnd(samples, frame.upto, poses), frame.upto \in Nat
    PROVE  Recent = {frame.upto - Len(samples) + i : i \in 1..Len(samples)}
<1> DEFINE upto == frame.upto
<1>1. /\ upto \in Nat /\ Len(samples) \in Nat /\ HistorySize \in Nat \ {0}
      /\ Len(samples) <= upto /\ Len(samples) <= HistorySize
      /\ Len(samples) = upto \/ Len(samples) = HistorySize
  BY HistoryAssumption DEF IsEnd
<1>2. Recent = {k \in 1..upto : k + HistorySize > upto}
  BY DEF Recent
<1> HIDE DEF upto
<1>3. ASSUME NEW k \in Recent
      PROVE  k \in {upto - Len(samples) + i : i \in 1..Len(samples)}
  <2>1. k - (upto - Len(samples)) \in 1..Len(samples)
    BY <1>1, <1>2
  <2>2. k = upto - Len(samples) + (k - (upto - Len(samples)))
    BY <1>1, <1>2
  <2> QED BY <2>1, <2>2
<1>4. ASSUME NEW i \in 1..Len(samples)
      PROVE  upto - Len(samples) + i \in Recent
  BY <1>1, <1>2
<1> QED BY <1>3, <1>4 DEF upto

(* A frame is published with a pose of the copied history, or with none; what    *)
(* is so published is what FramePosed says.                                    *)
Published(samples) ==
    /\ frame.header.timestamp \in Nat
    /\ frame.upto \in 0..Len(poses)
    /\ IsEnd(samples, frame.upto, poses)
    /\ frame.pose = FramePose(frame.header, samples)

(* An entry whose sample is published has the pose FramePosed asks for. *)
Given(k, pose) ==
    /\ pose.position = UnityToRos(poses[k].payload.position)
    /\ Faces(MatrixOf(pose.rotation), poses[k].payload)
    /\ ShownAs(k, pose)

LEMMA SampleGiven ==
    ASSUME HistoryInv, ShownInv, NEW k \in 1..Len(poses)
    PROVE  Given(k, SampleOf(poses[k]).pose)
<1> DEFINE p == poses[k].payload
           pose == SampleOf(poses[k]).pose
<1>1. p \in Payloads /\ ShownWell(k)
  <2>1. poses \in Seq(Entries)
    BY DEF HistoryInv
  <2>2. poses[k] \in Entries
    BY <2>1
  <2> QED BY <2>2 DEF Entries, ShownInv
<1>2. pose.position = UnityToRos(p.position) /\ pose.rotation = Orientation(p)
  BY DEF SampleOf, PoseOf
<1>3. MatrixOf(Orientation(p)) = Directions(p) /\ Faces(Directions(p), p)
  BY <1>1, PayloadType
<1> HIDE DEF pose
<1>4. ShownAs(k, pose)
  BY <1>1, <1>2, <1>3 DEF ShownAs, ShownWell
<1> QED BY <1>2, <1>3, <1>4 DEF Given, pose

LEMMA FrameGetsPose ==
    ASSUME HistoryInv, ShownInv, NEW samples, Published(samples)
    PROVE  FramePosed
<1> DEFINE t == frame.header.timestamp
           upto == frame.upto
           off == upto - Len(samples)
           near == Nearest(samples, t)
<1>1. /\ Len(poses) \in Nat /\ Len(samples) \in Nat /\ upto \in 0..Len(poses) /\ off \in Nat
      /\ DOMAIN samples = 1..Len(samples) /\ samples \in Seq(Samples) /\ t \in Nat
      /\ \A i \in 1..Len(samples) : samples[i] = SampleOf(poses[off + i])
      /\ \A i \in 1..Len(samples) : off + i \in 1..Len(poses)
  BY DEF HistoryInv, Published, IsEnd
<1>2. Recent = {off + i : i \in 1..Len(samples)}
  BY <1>1, RecentIsHistory DEF Published
<1>3. \A i \in 1..Len(samples) :
          /\ off + i \in Recent
          /\ Apart(poses[off + i].payload, t) = Apart(samples[i], t)
          /\ IsFresh(poses[off + i]) <=> IsFresh(samples[i])
          /\ Given(off + i, samples[i].pose)
  BY <1>1, <1>2, SampleGiven DEF SampleOf, Apart, IsFresh
<1>4. Close = {off + i : i \in {j \in 1..Len(samples) : t > 0 /\ Apart(samples[j], t) <= MaxDelta}}
  BY <1>2, <1>3 DEF Close
<1>5. frame.pose = IF near > 0 THEN samples[near].pose
                   ELSE IF samples # <<>> /\ IsFresh(samples[Len(samples)])
                        THEN samples[Len(samples)].pose ELSE NoPose
  BY DEF FramePose, Last, Published
<1>6. SUFFICES IF Candidates = {} THEN frame.pose = NoPose
               ELSE \E k \in Candidates : Given(k, frame.pose)
  BY DEF FramePosed, Given
<1> HIDE DEF off, near, upto
<1>7. CASE near > 0
  <2>1. /\ near \in 1..Len(samples) /\ t > 0
        /\ Apart(samples[near], t) <= MaxDelta
        /\ \A j \in 1..Len(samples) : Apart(samples[near], t) <= Apart(samples[j], t)
    BY <1>1, <1>7, NearestFound DEF near
  <2>2. off + near \in Close
    BY <1>4, <2>1
  <2>3. off + near \in Candidates
    <3>1. \A k \in Close : Apart(poses[off + near].payload, t) <= Apart(poses[k].payload, t)
      BY <1>3, <1>4, <2>1
    <3>2. QED
      BY <2>2, <3>1 DEF Candidates
  <2>4. Given(off + near, samples[near].pose)
    BY <1>3, <2>1
  <2>5. QED
    BY <1>5, <1>7, <2>3, <2>4
<1>8. CASE near = 0
  <2>1. Close = {}
    <3>1. t = 0 \/ \A j \in 1..Len(samples) : ~(Apart(samples[j], t) <= MaxDelta)
      BY <1>1, <1>8, NearestFound DEF near
    <3> QED BY <1>1, <1>4, <3>1
  <2>2. Candidates = {k \in Recent : k = upto /\ IsFresh(poses[k])}
    BY <2>1 DEF Candidates, upto
  <2>3. CASE samples # <<>> /\ IsFresh(samples[Len(samples)])
    <3>1. Len(samples) \in 1..Len(samples) /\ off + Len(samples) = upto
      BY <1>1, <2>3 DEF off
    <3>2. upto \in Candidates /\ Given(upto, samples[Len(samples)].pose)
      BY <1>3, <2>2, <2>3, <3>1
    <3>3. QED
      BY <1>5, <1>8, <2>3, <3>2
  <2>4. CASE ~(samples # <<>> /\ IsFresh(samples[Len(samples)]))
    <3>1. ASSUME NEW k \in Candidates PROVE FALSE
      <4>1. k = upto /\ IsFresh(poses[k]) /\ k \in Recent
        BY <2>2, <3>1
      <4>2. PICK i \in 1..Len(samples) : k = off + i
        BY <1>2, <4>1
      <4>3. i = Len(samples)
        <5>1. upto = off + i /\ i \in Int /\ off = upto - Len(samples) /\ upto \in Nat
          BY <1>1, <4>1, <4>2 DEF off
        <5>2. Len(samples) \in Nat
          BY <1>1
        <5> HIDE DEF off
        <5>3. QED
          BY <5>1, <5>2
      <4>4. IsFresh(samples[Len(samples)])
        BY <1>3, <4>1, <4>2, <4>3
      <4>5. samples # <<>>
        BY <1>1, <4>2
      <4>6. QED
        BY <2>4, <4>4, <4>5
    <3>2. frame.pose = NoPose
      BY <1>5, <1>8, <2>4
    <3>3. QED
      BY <3>1, <3>2
  <2>5. QED
    BY <2>3, <2>4
<1>9. QED
  BY <1>1, <1>7, <1>8, NearestFound DEF near

(* What a sequence is once its last entry is replaced, and once one is added. *)
LEMMA LastReplaced ==
    ASSUME NEW T, NEW s \in Seq(T), Len(s) > 0, NEW e
    PROVE  /\ Len([s EXCEPT ![Len(s)] = e]) = Len(s)
           /\ DOMAIN [s EXCEPT ![Len(s)] = e] = 1..Len(s)
           /\ \A k \in 1..Len(s) :
                  [s EXCEPT ![Len(s)] = e][k] = IF k = Len(s) THEN e ELSE s[k]
<1> DEFINE t == [s EXCEPT ![Len(s)] = e]
<1>1. Len(s) \in Nat /\ DOMAIN s = 1..Len(s) /\ \A k \in 1..Len(s) : s[k] \in T
  OBVIOUS
<1>2. /\ t \in [1..Len(s) -> T \cup {e}]
      /\ \A k \in 1..Len(s) : t[k] = IF k = Len(s) THEN e ELSE s[k]
  BY <1>1
<1>3. t \in Seq(T \cup {e}) /\ Len(t) = Len(s) /\ DOMAIN t = 1..Len(s)
  <2> HIDE DEF t
  <2>1. DOMAIN t = 1..Len(s) /\ t = [k \in 1..Len(s) |-> t[k]]
    BY <1>2
  <2>2. t \in Seq(T \cup {e})
    <3>1. \A k \in 1..Len(s) : t[k] \in T \cup {e}
      BY <1>2
    <3>2. QED
      BY <1>1, <2>1, <3>1
  <2>3. Len(t) \in Nat /\ DOMAIN t = 1..Len(t)
    BY <2>2
  <2>4. QED
    BY <1>1, <2>1, <2>2, <2>3
<1>4. QED
  BY <1>2, <1>3

LEMMA LastAdded ==
    ASSUME NEW T, NEW s \in Seq(T), NEW e \in T
    PROVE  /\ Len(Append(s, e)) = Len(s) + 1
           /\ \A k \in 1..Len(s) : Append(s, e)[k] = s[k]
           /\ Append(s, e)[Len(s) + 1] = e
OBVIOUS

(* Adding to what was sent leaves the end as it was there. *)
LEMMA EndKept ==
    ASSUME NEW samples, NEW upto \in Nat, NEW ps, NEW qs, IsEnd(samples, upto, ps),
           \A k \in 1..upto : SampleOf(qs[k]) = SampleOf(ps[k])
    PROVE  IsEnd(samples, upto, qs)
<1>1. Len(samples) \in Nat /\ Len(samples) <= upto
  BY DEF IsEnd
<1>2. \A i \in 1..Len(samples) : upto - Len(samples) + i \in 1..upto
  BY <1>1
<1> QED BY <1>1, <1>2 DEF IsEnd

(* Remembering a pose keeps the history the end of what was sent. *)
LEMMA RememberedLast ==
    ASSUME NEW samples, NEW ps \in Seq(Entries), IsEnd(samples, Len(ps), ps),
           NEW entry \in Entries, SampleOf(entry) \in Samples
    PROVE  IsEnd(Remember(samples, SampleOf(entry)), Len(ps) + 1, Append(ps, entry))
<1> DEFINE all == Append(samples, SampleOf(entry))
           qs == Append(ps, entry)
           kept == Remember(samples, SampleOf(entry))
<1>1. /\ samples \in Seq(Samples) /\ Len(samples) \in Nat /\ Len(ps) \in Nat
      /\ HistorySize \in Nat \ {0}
      /\ Len(samples) <= Len(ps) /\ Len(samples) <= HistorySize
      /\ Len(samples) = Len(ps) \/ Len(samples) = HistorySize
      /\ \A i \in 1..Len(samples) : samples[i] = SampleOf(ps[Len(ps) - Len(samples) + i])
  BY HistoryAssumption DEF IsEnd
<1>2. /\ all \in Seq(Samples) /\ Len(all) = Len(samples) + 1
      /\ \A i \in 1..Len(samples) : all[i] = samples[i]
      /\ all[Len(samples) + 1] = SampleOf(entry)
  BY <1>1
<1>3. /\ Len(qs) = Len(ps) + 1
      /\ \A i \in 1..Len(ps) : qs[i] = ps[i]
      /\ qs[Len(ps) + 1] = entry
  BY <1>1
<1>4. kept = IF Len(all) > HistorySize THEN Tail(all) ELSE all
  BY DEF Remember
<1> HIDE DEF all, qs, kept
<1>5. \A i \in 1..Len(all) : all[i] = SampleOf(qs[Len(ps) + 1 - Len(all) + i])
  <2> SUFFICES ASSUME NEW i \in 1..Len(all)
               PROVE  all[i] = SampleOf(qs[Len(ps) + 1 - Len(all) + i])
    OBVIOUS
  <2>1. Len(ps) + 1 - Len(all) = Len(ps) - Len(samples)
    BY <1>1, <1>2
  <2>2. CASE i = Len(samples) + 1
    <3>1. Len(ps) - Len(samples) + i = Len(ps) + 1
      BY <1>1, <2>2
    <3>2. QED
      BY <1>2, <1>3, <2>1, <2>2, <3>1
  <2>3. CASE i \in 1..Len(samples)
    <3>1. Len(ps) - Len(samples) + i \in 1..Len(ps)
      BY <1>1, <2>3
    <3>2. QED
      BY <1>1, <1>2, <1>3, <2>1, <2>3, <3>1
  <2>4. i = Len(samples) + 1 \/ i \in 1..Len(samples)
    <3>1. i \in 1..(Len(samples) + 1)
      BY <1>2
    <3>2. QED
      BY <1>1, <3>1
  <2>5. QED
    BY <2>2, <2>3, <2>4
<1>6. ASSUME Len(all) > HistorySize
      PROVE  IsEnd(kept, Len(ps) + 1, qs)
  <2>1. kept = Tail(all)
    BY <1>4, <1>6
  <2>2. /\ kept \in Seq(Samples) /\ Len(kept) = Len(all) - 1
        /\ \A i \in 1..Len(kept) : kept[i] = all[i + 1]
    BY <1>1, <1>2, <2>1
  <2>3. Len(kept) = HistorySize /\ Len(kept) <= Len(ps) + 1
    BY <1>1, <1>2, <1>6, <2>2
  <2>4. \A i \in 1..Len(kept) : kept[i] = SampleOf(qs[Len(ps) + 1 - Len(kept) + i])
    <3> SUFFICES ASSUME NEW i \in 1..Len(kept)
                 PROVE  kept[i] = SampleOf(qs[Len(ps) + 1 - Len(kept) + i])
      OBVIOUS
    <3>1. i + 1 \in 1..Len(all)
      BY <1>1, <1>2, <2>2
    <3>2. Len(ps) + 1 - Len(kept) + i = Len(ps) + 1 - Len(all) + (i + 1)
      BY <1>1, <1>2, <2>2
    <3>3. QED
      BY <1>5, <2>2, <3>1, <3>2
  <2>5. QED
    BY <1>1, <2>2, <2>3, <2>4 DEF IsEnd
<1>7. ASSUME ~(Len(all) > HistorySize)
      PROVE  IsEnd(kept, Len(ps) + 1, qs)
  <2>1. kept = all
    BY <1>4, <1>7
  <2>2. /\ Len(all) <= Len(ps) + 1 /\ Len(all) <= HistorySize
        /\ Len(all) = Len(ps) + 1 \/ Len(all) = HistorySize
    BY <1>1, <1>2, <1>7
  <2>3. QED
    BY <1>2, <1>5, <2>1, <2>2 DEF IsEnd
<1>8. QED
  BY <1>6, <1>7 DEF kept, qs

(* A broadcast shows the camera where the payload says it is. *)
LEMMA BroadcastShows ==
    ASSUME HistoryInv, BroadcastPose
    PROVE  /\ payload' \in Payloads /\ sending = <<payload'>> /\ payload'.readable
           /\ Broadcast'
           /\ InMap(CameraFrame)' \in Views
           /\ InMap(CameraFrame)'.rotation = Directions(payload')
           /\ Upright(payload')
                  => InMap(CameraFrame)'.position = UnityToRos(payload'.position)
<1>1. PICK p \in Payloads : sending = <<p>>
  BY DEF HistoryInv, BroadcastPose
<1>2. payload' = p /\ p.readable
  BY <1>1 DEF BroadcastPose
<1>3. Broadcast' /\ pose_origin' = pose_origin
  BY <1>2, BroadcastNext DEF BroadcastPose
<1>4. CameraSeen'
  BY <1>3, CameraShown, PTL
<1>5. Upright(payload)' <=> Upright(payload')
  BY <1>3 DEF Upright
<1> QED BY <1>1, <1>2, <1>3, <1>4, <1>5 DEF CameraSeen

LEMMA RememberHistory ==
    ASSUME HistoryInv, RememberPose
    PROVE  HistoryInv'
<1> DEFINE p == Head(incoming)
           entry == [payload |-> p, arrival |-> now, shown |-> {}]
<1>1. p \in Payloads /\ incoming' \in Seq(Payloads) /\ sending' = <<p>>
  BY DEF HistoryInv, RememberPose
<1>2. /\ now \in Int /\ now' = now /\ copied' = copied
      /\ poses \in Seq(Entries) /\ Len(poses) \in Nat /\ IsEnd(history, Len(poses), poses)
      /\ copied # NoFrame => /\ copied.header.timestamp \in Nat
                             /\ copied.upto \in 0..Len(poses)
                             /\ IsEnd(copied.samples, copied.upto, poses)
  BY DEF HistoryInv, RememberPose
<1>3. CASE p.timestamp > 0
  <2>1. history' = Remember(history, TimedCameraPose(p)) /\ poses' = Append(poses, entry)
    BY <1>3 DEF RememberPose
  <2>2. entry \in Entries /\ TimedCameraPose(p) = SampleOf(entry)
    BY <1>1, <1>2 DEF Entries, TimedCameraPose, SampleOf
  <2>3. TimedCameraPose(p) \in Samples
    BY <1>1, <1>2, PayloadType DEF TimedCameraPose, Samples
  <2> HIDE DEF entry
  <2>4. /\ poses' \in Seq(Entries) /\ Len(poses') = Len(poses) + 1
        /\ \A k \in 1..Len(poses) : poses'[k] = poses[k]
    BY <1>2, <2>1, <2>2
  <2>5. IsEnd(history', Len(poses'), poses')
    BY <1>2, <2>1, <2>2, <2>3, <2>4, RememberedLast
  <2>6. copied # NoFrame => /\ copied.upto \in 0..Len(poses')
                           /\ IsEnd(copied.samples, copied.upto, poses')
    BY <1>2, <2>4, EndKept
  <2> QED BY <1>1, <1>2, <2>4, <2>5, <2>6 DEF HistoryInv
<1>4. CASE ~(p.timestamp > 0)
  <2>1. history' = history /\ poses' = poses
    BY <1>4 DEF RememberPose
  <2> QED BY <1>1, <1>2, <2>1 DEF HistoryInv
<1> QED BY <1>3, <1>4

LEMMA BroadcastHistory ==
    ASSUME HistoryInv, ShownInv, BroadcastPose
    PROVE  HistoryInv'
<1> DEFINE seen == InMap(CameraFrame)'
<1>1. /\ incoming' \in Seq(Payloads) /\ now' \in Int /\ sending' = <<>> /\ copied' = copied
      /\ history' = history
      /\ poses \in Seq(Entries) /\ Len(poses) \in Nat /\ IsEnd(history, Len(poses), poses)
      /\ copied # NoFrame => /\ copied.header.timestamp \in Nat
                             /\ copied.upto \in 0..Len(poses)
                             /\ IsEnd(copied.samples, copied.upto, poses)
  BY DEF HistoryInv, BroadcastPose
<1>2. /\ poses' \in Seq(Entries) /\ Len(poses') = Len(poses)
      /\ \A k \in 1..Len(poses) : SampleOf(poses'[k]) = SampleOf(poses[k])
  <2>1. CASE payload'.timestamp > 0
    <3>1. poses' = [poses EXCEPT ![Len(poses)].shown = {seen}] /\ seen \in Views
      BY <2>1, BroadcastShows DEF BroadcastPose
    <3>2. Len(poses) > 0
      BY <2>1, BroadcastShows DEF ShownInv
    <3> HIDE DEF seen
    <3>3. \A k \in 1..Len(poses) : poses[k] \in Entries
      BY <1>1
    <3>4. /\ Len(poses') = Len(poses) /\ DOMAIN poses' = 1..Len(poses)
          /\ \A k \in 1..Len(poses) :
                 poses'[k] = IF k = Len(poses) THEN [poses[k] EXCEPT !.shown = {seen}]
                             ELSE poses[k]
      BY <1>1, <3>1, <3>2, LastReplaced
    <3>5. ASSUME NEW k \in 1..Len(poses)
          PROVE  poses'[k] \in Entries /\ SampleOf(poses'[k]) = SampleOf(poses[k])
      <4>1. {seen} \in SUBSET Views
        BY <3>1
      <4>2. [poses[k] EXCEPT !.shown = {seen}] \in Entries
        BY <3>3, <4>1 DEF Entries
      <4>3. SampleOf([poses[k] EXCEPT !.shown = {seen}]) = SampleOf(poses[k])
        BY <3>3 DEF SampleOf, Entries
      <4> QED BY <3>3, <3>4, <4>2, <4>3
    <3>6. poses' \in Seq(Entries)
      <4>1. poses' = [k \in 1..Len(poses) |-> poses'[k]]
        BY <1>1, <3>1, <3>4
      <4> QED BY <1>1, <3>5, <4>1
    <3> QED BY <3>4, <3>5, <3>6
  <2>2. CASE ~(payload'.timestamp > 0)
    BY <1>1, <2>2 DEF BroadcastPose
  <2> QED BY <2>1, <2>2
<1>3. /\ IsEnd(history, Len(poses), poses')
      /\ copied # NoFrame => IsEnd(copied.samples, copied.upto, poses')
  BY <1>1, <1>2, EndKept
<1> QED BY <1>1, <1>2, <1>3 DEF HistoryInv

LEMMA HistoryKept ==
    ASSUME HistoryInv, ShownInv, [FramesNext]_framesVars
    PROVE  HistoryInv'
<1>1. CASE UNCHANGED <<incoming, sending, history, poses, copied>> /\ now' \in Int
  BY <1>1 DEF HistoryInv
<1>2. CASE RememberPose
  BY <1>2, RememberHistory
<1>3. CASE BroadcastPose
  BY <1>3, BroadcastHistory
<1>4. CASE BroadcastFails
  BY <1>4 DEF BroadcastFails, HistoryInv
<1>5. ASSUME NEW header \in Headers, CopyHistory(header)
      PROVE  HistoryInv'
  <2>1. header.timestamp \in Nat /\ Len(poses) \in 0..Len(poses)
    BY PoseAssumption DEF HistoryInv
  <2> QED BY <1>5, <2>1 DEF CopyHistory, HistoryInv
<1>6. ASSUME NEW header \in Headers, PublishOwnPose(header)
      PROVE  HistoryInv'
  BY <1>1, <1>6 DEF PublishOwnPose, HistoryInv
<1>7. CASE PublishFrame
  BY <1>7 DEF PublishFrame, HistoryInv
<1>8. CASE Tick
  BY <1>1, <1>8 DEF Tick, HistoryInv
<1>9. CASE UNCHANGED framesVars
  BY <1>1, <1>9 DEF framesVars, HistoryInv
<1> QED BY <1>2, <1>3, <1>4, <1>5, <1>6, <1>7, <1>8, <1>9 DEF FramesNext

LEMMA RememberShown ==
    ASSUME HistoryInv, ShownInv, RememberPose
    PROVE  ShownInv'
<1> DEFINE p == Head(incoming)
           entry == [payload |-> p, arrival |-> now, shown |-> {}]
<1>1. sending = <<>> /\ sending' = <<p>> /\ pose_origin' = pose_origin
  BY DEF RememberPose
<1>2. \A q : Upright(q)' <=> Upright(q)
  BY <1>1 DEF Upright
<1>3. \A k \in 1..Len(poses) : ShownWell(k) /\ (poses[k].shown = {} => ~poses[k].payload.readable)
  BY <1>1 DEF ShownInv, ShownWell
<1>4. Len(poses) \in Nat /\ poses \in Seq(Entries)
  BY DEF HistoryInv
<1>5. \A k \in 1..Len(poses) : poses'[k] = poses[k] => ShownWell(k)'
  BY <1>2, <1>3 DEF ShownWell
<1>6. CASE p.timestamp > 0
  <2>1. entry.payload = p /\ entry.shown = {} /\ entry \in Entries
    BY DEF HistoryInv, RememberPose, Entries
  <2>2. /\ Len(poses') = Len(poses) + 1
        /\ \A k \in 1..Len(poses) : poses'[k] = poses[k]
        /\ poses'[Len(poses) + 1] = entry
    <3>1. poses' = Append(poses, entry)
      BY <1>6 DEF RememberPose
    <3> HIDE DEF entry
    <3>2. QED
      BY <1>4, <2>1, <3>1, LastAdded
  <2> HIDE DEF entry
  <2>3. ASSUME NEW k, k = Len(poses) + 1
        PROVE  ShownWell(k)'
    <3>1. /\ poses'[k].payload = p /\ poses'[k].shown = {}
          /\ Len(poses') = k
      BY <2>1, <2>2, <2>3
    <3> HIDE DEF p
    <3>2. QED
      BY <1>1, <1>6, <3>1 DEF ShownWell
  <2>4. \A k \in 1..Len(poses') : k \in 1..Len(poses) \/ k = Len(poses) + 1
    BY <1>4, <2>2
  <2>5. \A q : sending' = <<q>> => q = p
    BY <1>1
  <2> HIDE DEF p
  <2>6. ASSUME NEW k \in 1..Len(poses')
        PROVE  ShownWell(k)'
    <3>1. CASE k \in 1..Len(poses)
      BY <1>5, <2>2, <3>1
    <3>2. CASE k = Len(poses) + 1
      BY <2>3, <3>2
    <3>3. QED
      BY <2>4, <3>1, <3>2
  <2>7. \A q : sending' = <<q>> /\ q.timestamp > 0 =>
                   Len(poses') > 0 /\ poses'[Len(poses')].payload = q
    BY <1>4, <2>1, <2>2, <2>5
  <2> QED BY <2>6, <2>7 DEF ShownInv
<1>7. CASE ~(p.timestamp > 0)
  <2>1. poses' = poses
    BY <1>7 DEF RememberPose
  <2>2. \A q : sending' = <<q>> => q = p
    BY <1>1
  <2>3. \A k \in 1..Len(poses') : ShownWell(k)'
    BY <1>5, <2>1
  <2> HIDE DEF p
  <2> QED BY <1>7, <2>1, <2>2, <2>3 DEF ShownInv
<1> QED BY <1>6, <1>7

LEMMA BroadcastShown ==
    ASSUME HistoryInv, ShownInv, BroadcastPose
    PROVE  ShownInv'
<1> DEFINE p == payload'
           seen == InMap(CameraFrame)'
<1>1. /\ sending = <<p>> /\ sending' = <<>> /\ pose_origin' = pose_origin
      /\ seen.rotation = Directions(p)
      /\ Upright(p) => seen.position = UnityToRos(p.position)
      /\ p.readable
  BY BroadcastShows DEF BroadcastPose
<1>2. \A q : Upright(q)' <=> Upright(q)
  BY <1>1 DEF Upright
<1>3. Len(poses) \in Nat /\ poses \in Seq(Entries)
  BY DEF HistoryInv
<1>4. ASSUME NEW k \in 1..Len(poses), k # Len(poses) \/ poses[k].payload # p, poses'[k] = poses[k]
      PROVE  ShownWell(k)'
  <2>1. ShownWell(k) /\ ~(k = Len(poses) /\ sending = <<poses[k].payload>>)
    BY <1>1, <1>4 DEF ShownInv
  <2>2. poses[k].shown = {} => ~poses[k].payload.readable
    BY <2>1 DEF ShownWell
  <2> QED BY <1>2, <1>4, <2>1, <2>2 DEF ShownWell
<1>5. CASE p.timestamp > 0
  <2>1. poses' = [poses EXCEPT ![Len(poses)].shown = {seen}]
    BY <1>5 DEF BroadcastPose
  <2>2. Len(poses) > 0 /\ poses[Len(poses)].payload = p
    BY <1>1, <1>5 DEF ShownInv
  <2> HIDE DEF seen, p
  <2>3. /\ Len(poses') = Len(poses)
        /\ \A k \in 1..Len(poses) : k # Len(poses) => poses'[k] = poses[k]
        /\ poses'[Len(poses)].payload = p /\ poses'[Len(poses)].shown = {seen}
    <3>1. poses[Len(poses)] \in Entries
      BY <1>3, <2>2
    <3> DEFINE last == [poses[Len(poses)] EXCEPT !.shown = {seen}]
    <3>2. poses'[Len(poses)] = last
      <4>1. poses' = [poses EXCEPT ![Len(poses)] = last]
        BY <2>1
      <4> HIDE DEF last
      <4>2. QED
        BY <1>3, <2>2, <4>1, LastReplaced
    <3>3. poses'[Len(poses)].payload = p /\ poses'[Len(poses)].shown = {seen}
      BY <2>2, <3>1, <3>2 DEF Entries
    <3>4. /\ Len(poses') = Len(poses)
          /\ \A k \in 1..Len(poses) : k # Len(poses) => poses'[k] = poses[k]
      BY <1>3, <2>1, <2>2, LastReplaced
    <3> QED BY <3>3, <3>4
  <2>4. ShownWell(Len(poses))'
    BY <1>1, <1>2, <1>5, <2>3 DEF ShownWell
  <2>5. \A k \in 1..Len(poses') : ShownWell(k)'
    BY <1>4, <2>3, <2>4
  <2> QED BY <1>1, <2>5 DEF ShownInv
<1>6. CASE ~(p.timestamp > 0)
  <2>1. poses' = poses
    BY <1>6 DEF BroadcastPose
  <2>2. \A k \in 1..Len(poses) : poses[k].payload # p
    BY <1>6 DEF ShownInv, ShownWell
  <2> HIDE DEF p
  <2>3. \A k \in 1..Len(poses') : ShownWell(k)'
    BY <1>4, <2>1, <2>2
  <2> QED BY <1>1, <2>3 DEF ShownInv
<1> QED BY <1>5, <1>6

LEMMA ShownKept ==
    ASSUME HistoryInv, ShownInv, [FramesNext]_framesVars
    PROVE  ShownInv'
<1>1. ASSUME UNCHANGED <<pose_origin, sending, poses>>
      PROVE  ShownInv'
  BY <1>1 DEF ShownInv, ShownWell, Upright
<1>2. CASE RememberPose
  BY <1>2, RememberShown
<1>3. CASE BroadcastPose
  BY <1>3, BroadcastShown
<1>4. CASE BroadcastFails
  <2>1. /\ sending' = <<>> /\ UNCHANGED <<pose_origin, poses>>
        /\ \A p : sending = <<p>> => ~p.readable
    BY <1>4 DEF BroadcastFails
  <2>2. \A k \in 1..Len(poses) : ShownWell(k)'
    BY <2>1 DEF ShownInv, ShownWell, Upright
  <2> QED BY <2>1, <2>2 DEF ShownInv
<1>5. CASE \E header \in Headers : PublishOwnPose(header) \/ CopyHistory(header)
  BY <1>1, <1>5 DEF PublishOwnPose, CopyHistory
<1>6. CASE PublishFrame \/ Tick \/ UNCHANGED framesVars
  BY <1>1, <1>6 DEF PublishFrame, Tick, framesVars
<1> QED BY <1>2, <1>3, <1>4, <1>5, <1>6 DEF FramesNext

LEMMA PosedKept ==
    ASSUME HistoryInv, ShownInv, FramePosed, [FramesNext]_framesVars
    PROVE  FramePosed'
<1>1. CASE frame' = NoFrame
  BY <1>1 DEF FramePosed
<1>2. CASE PublishFrame
  <2>1. (HistoryInv /\ ShownInv)'
    BY HistoryKept, ShownKept
  <2>2. /\ frame'.header = copied.header /\ frame'.upto = copied.upto
        /\ frame'.pose = FramePose(copied.header, copied.samples)
        /\ now' = now /\ poses' = poses
    BY <1>2 DEF PublishFrame
  <2>3. /\ copied.header.timestamp \in Nat /\ copied.upto \in 0..Len(poses)
        /\ IsEnd(copied.samples, copied.upto, poses)
    BY <1>2 DEF PublishFrame, HistoryInv
  <2>4. PICK samples : samples = copied.samples
    OBVIOUS
  <2>5. FramePose(frame.header, samples)' = FramePose(copied.header, samples)
    BY <2>2 DEF FramePose, IsFresh
  <2>6. Published(samples)'
    BY <2>2, <2>3, <2>4, <2>5 DEF Published
  <2> QED BY <2>1, <2>6, FrameGetsPose, PTL
<1>3. ASSUME NEW header \in Headers, PublishOwnPose(header)
      PROVE  FramePosed'
  <2>1. HasPose(header) /\ frame'.header = header
    BY <1>3 DEF PublishOwnPose
  <2> QED BY <2>1 DEF FramePosed
<1>4. CASE UNCHANGED framesVars
  BY <1>4 DEF framesVars, FramePosed, Candidates, Close, Recent, IsFresh, ShownAs, Upright
<1>5. CASE RememberPose \/ BroadcastPose \/ BroadcastFails \/ Tick
  BY <1>1, <1>5 DEF RememberPose, BroadcastPose, BroadcastFails, Tick
<1>6. CASE \E header \in Headers : CopyHistory(header)
  BY <1>1, <1>6 DEF CopyHistory
<1> QED BY <1>2, <1>3, <1>4, <1>5, <1>6 DEF FramesNext

(* A session is a sequence of payloads. *)
LEMMA SessionPayloads ==
    ASSUME NEW s \in Sessions
    PROVE  s \in Seq(Payloads)
<1>1. Len(s) \in Nat /\ s = [k \in 1..Len(s) |-> s[k]]
  BY PoseAssumption
<1>2. \A k \in 1..Len(s) : s[k] \in Payloads
  BY <1>1 DEF Payloads
<1>3. QED
  BY <1>1, <1>2

(***************************************************************************)
(* A video frame without a pose of its own is published with a pose the    *)
(* headset sent: of those that had come when the history was copied, the   *)
(* remembered one closest to it, else the one that has just come, else     *)
(* none, whatever the pose thread does between the copy and the            *)
(* publication.  /tf showed the camera there, or is about to, or never     *)
(* does as the hands of that pose were unreadable                          *)
(* (_publish_frame_camera_pose, _nearest_camera_pose, _publish_pose).      *)
(***************************************************************************)
THEOREM FrameHasItsPose == FramesSpec => []FramePosed
<1> DEFINE Inv == HistoryInv /\ ShownInv /\ FramePosed
<1>1. FramesInit => Inv
  <2> SUFFICES ASSUME FramesInit PROVE Inv
    OBVIOUS
  <2>1. incoming \in Seq(Payloads)
    BY SessionPayloads DEF FramesInit
  <2>2. /\ sending = <<>> /\ now = 0 /\ copied = NoFrame /\ frame = NoFrame
        /\ poses = <<>> /\ history = <<>>
    BY DEF FramesInit
  <2>3. IsEnd(history, Len(poses), poses) /\ poses \in Seq(Entries)
    BY <2>2, HistoryAssumption DEF IsEnd
  <2>4. HistoryInv
    BY <2>1, <2>2, <2>3 DEF HistoryInv
  <2>5. ShownInv
    BY <2>2 DEF ShownInv
  <2> QED BY <2>2, <2>4, <2>5 DEF FramePosed
<1>2. Inv /\ [FramesNext]_framesVars => Inv'
  BY HistoryKept, ShownKept, PosedKept
<1>3. Inv => FramePosed
  OBVIOUS
<1>4. QED
  BY <1>1, <1>2, <1>3, PTL DEF FramesSpec

(***************************************************************************)
(* The transforms of any payload form a tree through which head, hands and *)
(* joints are found with the position and directions the headset sent      *)
(* (_publish_pose), whatever the base's heading and height.  Directions    *)
(* are along the six axes, the two of one pose perpendicular, and          *)
(* positions are integers; within that, the quaternions are those of the   *)
(* code, multiplied, inverted and applied as it does.                      *)
(***************************************************************************)
THEOREM FramesAreATree == FramesSpec => []FramesCompose
<1> DEFINE Inv == /\ incoming \in Seq(Payloads)
                  /\ sending # <<>> => \E p \in Payloads : sending = <<p>>
                  /\ transforms = {} \/ Broadcast
<1>1. FramesInit => Inv
  BY SessionPayloads DEF FramesInit
<1>2. Inv /\ [FramesNext]_framesVars => Inv'
  <2> SUFFICES ASSUME Inv, [FramesNext]_framesVars PROVE Inv'
    OBVIOUS
  <2>1. ASSUME UNCHANGED <<pose_origin, payload, transforms>>
        PROVE  (transforms = {} \/ Broadcast)'
    <3>1. CASE transforms = {}
      BY <2>1, <3>1
    <3>2. CASE Broadcast
      <4>1. /\ payload' \in Payloads
            /\ transforms' = {BaseTransform(payload'), CameraTransform(payload')}
                             \cup UNION {HandTransforms(payload', h) : h \in Hands(payload')}
        BY <2>1, <3>2 DEF Broadcast
      <4>2. QED
        BY <2>1, <4>1, BroadcastNext
    <3>3. QED
      BY <3>1, <3>2
  <2>2. CASE RememberPose
    <3>1. Head(incoming) \in Payloads /\ incoming' \in Seq(Payloads)
          /\ sending' = <<Head(incoming)>>
      BY <2>2 DEF RememberPose
    <3>2. UNCHANGED <<pose_origin, payload, transforms>>
      BY <2>2 DEF RememberPose
    <3> QED BY <2>1, <3>1, <3>2
  <2>3. CASE BroadcastPose
    <3>1. PICK p \in Payloads : sending = <<p>>
      BY <2>3 DEF BroadcastPose
    <3>2. /\ payload' \in Payloads /\ pose_origin' = pose_origin
          /\ incoming' = incoming /\ sending' = <<>>
      BY <2>3, <3>1 DEF BroadcastPose
    <3>3. Broadcast'
      BY <2>3, <3>2, BroadcastNext DEF BroadcastPose
    <3> QED BY <3>2, <3>3
  <2>4. CASE BroadcastFails
    <3>1. UNCHANGED <<pose_origin, payload, transforms>> /\ incoming' = incoming
          /\ sending' = <<>>
      BY <2>4 DEF BroadcastFails
    <3> QED BY <2>1, <3>1
  <2>5. ASSUME UNCHANGED <<pose_origin, payload, transforms, incoming, sending>>
        PROVE  Inv'
    BY <2>1, <2>5
  <2>6. CASE \E header \in Headers : PublishOwnPose(header) \/ CopyHistory(header)
    BY <2>5, <2>6 DEF PublishOwnPose, CopyHistory
  <2>7. CASE PublishFrame \/ Tick \/ UNCHANGED framesVars
    BY <2>5, <2>7 DEF PublishFrame, Tick, framesVars
  <2> QED BY <2>2, <2>3, <2>4, <2>6, <2>7 DEF FramesNext
<1>3. Inv => FramesCompose
  BY BroadcastComposes DEF FramesCompose
<1>4. QED
  BY <1>1, <1>2, <1>3, PTL DEF FramesSpec
==============================================================================
