----------------------------- MODULE HoloLensRelay -----------------------------
(***************************************************************************)
(* The field teammate's relay, scripts/field_teammate_hololens_relay.py:   *)
(* one process that dials three ports of a HoloLens.  A thread per port    *)
(* connects, reads a greeting, works until the stream ends and dials again *)
(* after a delay; the ROS executor queues guidance for the control thread; *)
(* stop() closes the sockets it knows of and joins the threads.            *)
(*                                                                         *)
(* The headset is outside the repository: it greets a connection, answers  *)
(* each control command with one line, may add a line of its own, and may  *)
(* vanish, or be slow, at any moment.                                      *)
(***************************************************************************)
EXTENDS Naturals, Sequences, FiniteSets

CONSTANTS
    Streams,        \* the threads that only read: the pose and the video one
    QueueSize,      \* commands the control queue holds (32 in the code)
    VoiceEnabled,   \* --disable-voice is absent
    MaxGuidance,    \* guidance messages the ROS side sends (a bound)
    MaxConnections  \* control connections that succeed (a bound)

ASSUME StreamsAssumption == "control" \notin Streams
ASSUME QueueAssumption == QueueSize \in Nat \ {0}
ASSUME BoundAssumption == MaxGuidance \in Nat /\ MaxConnections \in Nat
ASSUME VoiceAssumption == VoiceEnabled \in BOOLEAN

Threads == Streams \cup {"control"}

(* A command, numbered in the order of its kind: the one video profile, a   *)
(* voice configuration per connection, the guidance messages.               *)
Commands == [kind : {"video_profile"}, n : {0}]
            \cup [kind : {"voice_config"}, n : 1 .. MaxConnections]
            \cup [kind : {"guidance"}, n : 1 .. MaxGuidance]

Profile == [kind |-> "video_profile", n |-> 0]
Voice(n) == [kind |-> "voice_config", n |-> n]
Guidance(n) == [kind |-> "guidance", n |-> n]
NoCommand == [kind |-> "none", n |-> 0]

(* A line of the control stream that answers no command.                    *)
Stray == [kind |-> "stray", n |-> 0]

(* An enqueuer is idle or between two calls on the queue of one             *)
(* _enqueue_control: it found the queue full, or it has made room.          *)
Enqueuers == {"ros", "control"}
Idle == [stage |-> "idle", command |-> NoCommand]
Puts == {Idle} \cup [stage : {"full", "evicted"}, command : Commands]

VARIABLES
    main,         \* the main thread: spinning, or inside stop()
    closing,      \* the sockets of stop()'s snapshot still to close
    joining,      \* the threads still to join
    thread,       \* where each thread is
    tracked,      \* _sockets, by the thread that owns the socket
    alive,        \* the threads whose socket still carries data
    queue,        \* _control_queue
    put,          \* what each enqueuer is in the middle of
    outstanding,  \* the command the control thread waits to see answered
    conn,         \* control connections opened so far
    wire,         \* commands on their way to the headset, with their connection
    acks,         \* lines on their way back, on the current connection
    strayed,      \* a line of the current connection answered no command
    acknowledged, \* the kinds with a recorded acknowledgement
    guided,       \* guidance messages received from ROS
    sent,         \* the guidance sent, in order
    late          \* what each thread published or sent after the stop event

mainVars == <<main, closing, joining>>
controlVars == <<outstanding, conn, wire, acks, strayed, acknowledged, sent>>
counts == <<guided, late>>
vars == <<mainVars, thread, tracked, alive, queue, put, controlVars, counts>>

Stopping == main # "spin"

TypeOK ==
    /\ main \in {"spin", "stopping", "closing", "joining", "destroyed"}
    /\ closing \subseteq Threads /\ joining \subseteq Threads
    /\ thread \in [Threads -> {"top", "connecting", "connected", "greeting",
                               "loop", "reading", "publishing", "getting",
                               "waiting", "sleep", "done"}]
    /\ tracked \subseteq Threads /\ alive \subseteq Threads
    /\ queue \in Seq(Commands) /\ Len(queue) <= QueueSize
    /\ put \in [Enqueuers -> Puts]
    /\ outstanding \in Commands \cup {NoCommand}
    /\ conn \in 0 .. MaxConnections
    /\ wire \subseteq [command : Commands, conn : 1 .. MaxConnections]
    /\ acks \in Seq(Commands \cup {Stray}) /\ strayed \in BOOLEAN
    /\ acknowledged \subseteq {"video_profile", "voice_config"}
    /\ guided \in 0 .. MaxGuidance
    /\ sent \in Seq(1 .. MaxGuidance)
    /\ late \in [Threads -> Nat]

(* The node is built, its threads started; a video profile, when one is     *)
(* asked for, is queued before they run.                                    *)
Init ==
    /\ main = "spin" /\ closing = {} /\ joining = {}
    /\ thread = [t \in Threads |-> "top"]
    /\ tracked = {} /\ alive = {}
    /\ queue \in {<<>>, <<Profile>>}
    /\ put = [e \in Enqueuers |-> Idle]
    /\ outstanding = NoCommand /\ conn = 0
    /\ wire = {} /\ acks = <<>> /\ strayed = FALSE /\ acknowledged = {}
    /\ guided = 0 /\ sent = <<>> /\ late = [t \in Threads |-> 0]

-----------------------------------------------------------------------------
(* The control queue.                                                       *)

(* Mutant: the queue has no bound. *)
MutantEnqueue(e, command) == queue' = Append(queue, command) /\ UNCHANGED put

(* put_nowait, the first call: a full queue is noticed, not yet changed.    *)
Enqueue(e, command) ==
    IF Len(queue) < QueueSize
    THEN queue' = Append(queue, command) /\ UNCHANGED put
    ELSE /\ put' = [put EXCEPT ![e] = [stage |-> "full", command |-> command]]
         /\ UNCHANGED queue

(* Mutant: the put waits for room, also in the thread that makes it. *)
MutantEvictOldest(e) ==
    /\ put[e].stage = "full"
    /\ Len(queue) < QueueSize
    /\ put' = [put EXCEPT ![e].stage = "evicted"]
    /\ UNCHANGED <<queue, mainVars, thread, tracked, alive, controlVars, counts>>

(* get_nowait: the oldest command goes, whatever happened since.            *)
EvictOldest(e) ==
    /\ put[e].stage = "full"
    /\ queue' = IF queue = <<>> THEN queue ELSE Tail(queue)
    /\ put' = [put EXCEPT ![e].stage = "evicted"]
    /\ UNCHANGED <<mainVars, thread, tracked, alive, controlVars, counts>>

(* The second put_nowait; a queue filled meanwhile drops the new command.   *)
PutAgain(e) ==
    /\ put[e].stage = "evicted"
    /\ queue' = IF Len(queue) < QueueSize THEN Append(queue, put[e].command)
                ELSE queue
    /\ put' = [put EXCEPT ![e] = Idle]
    /\ UNCHANGED <<mainVars, thread, tracked, alive, controlVars, counts>>

(* A guidance message from ROS: _build_guidance_command and _enqueue_control. *)
OnGuidance ==
    /\ main = "spin"
    /\ put["ros"] = Idle
    /\ guided < MaxGuidance
    /\ guided' = guided + 1
    /\ Enqueue("ros", Guidance(guided + 1))
    /\ UNCHANGED <<mainVars, thread, tracked, alive, controlVars, late>>

-----------------------------------------------------------------------------
(* Steps the three loops share.                                             *)

Goto(t, phase) == thread' = [thread EXCEPT ![t] = phase]

(* What a thread publishes or sends once the stop event is set is counted.  *)
Acts(t) == late' = IF Stopping THEN [late EXCEPT ![t] = @ + 1] ELSE late

(* while not self._stop.is_set(): the top of a loop.                        *)
Top(t) ==
    /\ thread[t] = "top"
    /\ Goto(t, IF Stopping THEN "done" ELSE "connecting")
    /\ UNCHANGED <<mainVars, tracked, alive, queue, put, controlVars, counts>>

(* _connect_stream: a connection, or an OSError after the timeout.          *)
Connect(t) ==
    /\ thread[t] = "connecting"
    /\ t = "control" => conn < MaxConnections
    /\ Goto(t, "connected")
    /\ alive' = alive \cup {t}
    /\ conn' = IF t = "control" THEN conn + 1 ELSE conn
    /\ UNCHANGED <<mainVars, tracked, queue, put, counts>>
    /\ UNCHANGED <<outstanding, wire, acks, strayed, acknowledged, sent>>

ConnectFails(t) ==
    /\ thread[t] = "connecting"
    /\ Goto(t, "sleep")
    /\ UNCHANGED <<mainVars, tracked, alive, queue, put, controlVars, counts>>

Track(t) ==
    /\ thread[t] = "connected"
    /\ tracked' = tracked \cup {t}
    /\ Goto(t, "greeting")
    /\ UNCHANGED <<mainVars, alive, queue, put, controlVars, counts>>

(* A stream that ends, an exception or a break: the finally clause untracks *)
(* the socket and the with statement closes it.                             *)
Hangup(t) ==
    /\ Goto(t, "sleep")
    /\ tracked' = tracked \ {t}
    /\ alive' = alive \ {t}
    /\ IF t = "control" THEN outstanding' = NoCommand /\ acks' = <<>> /\ strayed' = FALSE
                        ELSE UNCHANGED <<outstanding, acks, strayed>>
    /\ UNCHANGED <<mainVars, queue, put, conn, wire, acknowledged, counts, sent>>

(* A read of a socket that stop() or the headset has closed: an exception,  *)
(* or, past the greeting, the end of the stream.                            *)
ReadEnds(t) ==
    /\ thread[t] \in {"greeting", "reading", "waiting"}
    /\ t \notin alive
    /\ thread[t] = "waiting" => acks = <<>>
    /\ Hangup(t)

(* _sleep_reconnect, cut short by the stop event.                           *)
Wake(t) ==
    /\ thread[t] = "sleep"
    /\ Goto(t, "top")
    /\ UNCHANGED <<mainVars, tracked, alive, queue, put, controlVars, counts>>

-----------------------------------------------------------------------------
(* The pose and the video loop.                                             *)

(* The greeting is read.  Neither another one nor the end of the stream     *)
(* keeps the loop from going on: the next read finds the end.               *)
Greeted(t) ==
    /\ t \in Streams
    /\ thread[t] = "greeting"
    /\ Goto(t, "loop")
    /\ UNCHANGED <<mainVars, tracked, alive, queue, put, controlVars, counts>>

(* Mutant: the stop event is looked at before a connection only. *)
MutantTestStop(t) ==
    /\ t \in Streams /\ thread[t] = "loop"
    /\ Goto(t, "reading")
    /\ UNCHANGED <<mainVars, tracked, alive, queue, put, controlVars, counts>>

(* The inner while: the stop event is looked at before every read.          *)
TestStop(t) ==
    /\ t \in Streams /\ thread[t] = "loop"
    /\ IF Stopping THEN Hangup(t)
       ELSE /\ Goto(t, "reading")
            /\ UNCHANGED <<mainVars, tracked, alive, queue, put, controlVars, counts>>

(* A complete item.  One that was already buffered is still read after the  *)
(* socket was shut down.                                                    *)
ReadItem(t) ==
    /\ t \in Streams /\ thread[t] = "reading"
    /\ Goto(t, "publishing")
    /\ UNCHANGED <<mainVars, tracked, alive, queue, put, controlVars, counts>>

(* A line of another type, or a frame with an invalid length: skipped.      *)
SkipItem(t) ==
    /\ t \in Streams /\ thread[t] = "reading"
    /\ Goto(t, "loop")
    /\ UNCHANGED <<mainVars, tracked, alive, queue, put, controlVars, counts>>

(* A line that is no JSON, a short frame: an exception ends the connection. *)
ReadFails(t) ==
    /\ t \in Streams /\ thread[t] = "reading"
    /\ Hangup(t)

(* _publish_pose or _publish_video; on the destroyed node, or with content  *)
(* it cannot read, it raises and the connection ends.                       *)
Publish(t) ==
    /\ t \in Streams /\ thread[t] = "publishing"
    /\ main # "destroyed"
    /\ Goto(t, "loop")
    /\ Acts(t)
    /\ UNCHANGED <<mainVars, tracked, alive, queue, put, controlVars, guided>>

PublishFails(t) ==
    /\ t \in Streams /\ thread[t] = "publishing"
    /\ Hangup(t)

-----------------------------------------------------------------------------
(* The control loop.                                                        *)

(* The greeting, or the end of the stream in its place; the voice           *)
(* configuration of this connection is queued all the same.                 *)
ControlGreeted ==
    /\ thread["control"] = "greeting"
    /\ Goto("control", "loop")
    /\ IF VoiceEnabled THEN Enqueue("control", Voice(conn)) ELSE UNCHANGED <<queue, put>>
    /\ UNCHANGED <<mainVars, tracked, alive, controlVars, counts>>

(* The greeting does not come within the socket's timeout.                  *)
GreetingTimeout ==
    /\ thread["control"] = "greeting"
    /\ Hangup("control")

(* while not self._stop.is_set(): the stop event is looked at, then the     *)
(* queue for a tenth of a second.                                           *)
ControlTestsStop ==
    /\ thread["control"] = "loop" /\ put["control"] = Idle
    /\ IF Stopping THEN Hangup("control")
       ELSE /\ Goto("control", "getting")
            /\ UNCHANGED <<mainVars, tracked, alive, queue, put, controlVars, counts>>

NothingToSend ==
    /\ thread["control"] = "getting"
    /\ queue = <<>>
    /\ Goto("control", "loop")
    /\ UNCHANGED <<mainVars, tracked, alive, queue, put, controlVars, counts>>

(* get and sendall: the command has left the queue before it is sent, and   *)
(* is sent though stop() has begun meanwhile.                               *)
Send ==
    /\ thread["control"] = "getting"
    /\ queue # <<>>
    /\ LET command == Head(queue) IN
       /\ queue' = Tail(queue)
       /\ outstanding' = command
       /\ wire' = IF "control" \in alive
                  THEN wire \cup {[command |-> command, conn |-> conn]} ELSE wire
       /\ sent' = IF command.kind = "guidance" THEN Append(sent, command.n) ELSE sent
    /\ Goto("control", "waiting")
    /\ Acts("control")
    /\ UNCHANGED <<mainVars, tracked, alive, put, conn, acks, strayed, acknowledged, guided>>

(* _read_control_ack returns the next line that is a JSON object, or one    *)
(* that is no JSON and no greeting: whatever it says, the wait is over.     *)
Acknowledged ==
    /\ thread["control"] = "waiting"
    /\ acks # <<>>
    /\ acks' = Tail(acks)
    /\ acknowledged' = acknowledged \cup ({Head(acks).kind} \ {"guidance", "stray"})
    /\ outstanding' = NoCommand
    /\ Goto("control", "loop")
    /\ UNCHANGED <<mainVars, tracked, alive, queue, put, conn, wire, strayed, counts, sent>>

(* An empty object ends the connection.                                     *)
EmptyAck ==
    /\ thread["control"] = "waiting"
    /\ acks # <<>> /\ Head(acks) = Stray
    /\ Hangup("control")

(* Mutant: after a timeout the loop goes on with the next command. *)
MutantAckTimeout ==
    /\ thread["control"] = "waiting"
    /\ acks = <<>>
    /\ outstanding' = NoCommand
    /\ Goto("control", "loop")
    /\ UNCHANGED <<mainVars, tracked, alive, queue, put, counts>>
    /\ UNCHANGED <<conn, wire, acks, strayed, acknowledged, sent>>

(* Mutant: a command that was not acknowledged is queued again. *)
MutantAckRetry ==
    /\ thread["control"] = "waiting"
    /\ acks = <<>>
    /\ Len(queue) < QueueSize
    /\ queue' = Append(queue, outstanding)
    /\ outstanding' = NoCommand
    /\ Goto("control", "sleep")
    /\ tracked' = tracked \ {"control"} /\ alive' = alive \ {"control"}
    /\ strayed' = FALSE
    /\ UNCHANGED <<mainVars, put, conn, wire, acks, acknowledged, counts, sent>>

(* No acknowledgement in time: the connection is given up with the command, *)
(* and with an answer that waits behind lines that were skipped.            *)
AckTimeout ==
    /\ thread["control"] = "waiting"
    /\ Hangup("control")

-----------------------------------------------------------------------------
(* stop().                                                                  *)

RequestStop ==
    /\ main = "spin" /\ put["ros"] = Idle
    /\ main' = "stopping"
    /\ UNCHANGED <<closing, joining, thread, tracked, alive, queue, put, controlVars, counts>>

(* Mutant: stop() closes nothing. *)
MutantSnapshot ==
    /\ main = "stopping"
    /\ main' = "closing"
    /\ closing' = {}
    /\ UNCHANGED <<joining, thread, tracked, alive, queue, put, controlVars, counts>>

SnapshotSockets ==
    /\ main = "stopping"
    /\ main' = "closing"
    /\ closing' = tracked
    /\ UNCHANGED <<joining, thread, tracked, alive, queue, put, controlVars, counts>>

CloseSocket(t) ==
    /\ main = "closing" /\ t \in closing
    /\ closing' = closing \ {t}
    /\ alive' = alive \ {t}
    /\ UNCHANGED <<main, joining, thread, tracked, queue, put, controlVars, counts>>

StartJoin ==
    /\ main = "closing" /\ closing = {}
    /\ main' = "joining"
    /\ joining' = Threads
    /\ UNCHANGED <<closing, thread, tracked, alive, queue, put, controlVars, counts>>

(* join(timeout=1.0): it returns when the thread is done, or after a second *)
(* wherever the thread is.                                                  *)
Join(t) ==
    /\ main = "joining" /\ t \in joining
    /\ joining' = joining \ {t}
    /\ UNCHANGED <<main, closing, thread, tracked, alive, queue, put, controlVars, counts>>

DestroyNode ==
    /\ main = "joining" /\ joining = {}
    /\ main' = "destroyed"
    /\ UNCHANGED <<closing, joining, thread, tracked, alive, queue, put, controlVars, counts>>

-----------------------------------------------------------------------------
(* The headset.                                                             *)

(* It obeys a command, even one of a connection given up meanwhile, and     *)
(* answers it where somebody still listens.                                 *)
HeadsetObeys ==
    \E w \in wire :
        /\ wire' = wire \ {w}
        /\ acks' = IF w.conn = conn /\ "control" \in alive
                   THEN Append(acks, w.command) ELSE acks
        /\ UNCHANGED <<mainVars, thread, tracked, alive, queue, put, counts>>
        /\ UNCHANGED <<outstanding, conn, strayed, acknowledged, sent>>

(* A line after the greeting that answers nothing: one on a connection.     *)
StrayLine ==
    /\ "control" \in alive /\ ~strayed
    /\ thread["control"] \in {"loop", "getting", "waiting"}
    /\ acks' = Append(acks, Stray)
    /\ strayed' = TRUE
    /\ UNCHANGED <<mainVars, thread, tracked, alive, queue, put, counts>>
    /\ UNCHANGED <<outstanding, conn, wire, acknowledged, sent>>

(* A connection breaks, with what it carried.                               *)
LinkLost(t) ==
    /\ t \in alive
    /\ alive' = alive \ {t}
    /\ IF t = "control" THEN wire' = {w \in wire : w.conn # conn}
                        ELSE UNCHANGED wire
    /\ UNCHANGED <<mainVars, thread, tracked, queue, put, counts>>
    /\ UNCHANGED <<outstanding, conn, acks, strayed, acknowledged, sent>>

-----------------------------------------------------------------------------
StreamStep(t) == \/ Top(t) \/ Connect(t) \/ ConnectFails(t) \/ Track(t)
                 \/ ReadEnds(t) \/ Wake(t)
                 \/ Greeted(t) \/ TestStop(t) \/ Publish(t) \/ PublishFails(t)
Arrival(t) == ReadItem(t) \/ SkipItem(t) \/ ReadFails(t)
ControlStep == \/ Top("control") \/ Connect("control") \/ ConnectFails("control")
               \/ Track("control") \/ ReadEnds("control") \/ Wake("control")
               \/ ControlGreeted \/ GreetingTimeout \/ ControlTestsStop
               \/ NothingToSend \/ Send \/ Acknowledged \/ EmptyAck \/ AckTimeout
               \/ EvictOldest("control") \/ PutAgain("control")
RosStep == EvictOldest("ros") \/ PutAgain("ros")
StopStep == \/ SnapshotSockets \/ StartJoin \/ DestroyNode
            \/ \E t \in Threads : CloseSocket(t) \/ Join(t)

Next ==
    \/ \E t \in Streams : StreamStep(t) \/ Arrival(t)
    \/ ControlStep \/ RosStep \/ OnGuidance
    \/ RequestStop \/ StopStep
    \/ HeadsetObeys \/ StrayLine
    \/ \E t \in Threads : LinkLost(t)

Spec == Init /\ [][Next]_vars

(* Threads run and stop() is carried through; the headset obeys what it     *)
(* receives.  Nothing makes data arrive, a link break, or anyone stop.      *)
FairSpec ==
    /\ Spec
    /\ \A t \in Streams : WF_vars(StreamStep(t))
    /\ WF_vars(ControlStep) /\ WF_vars(RosStep) /\ WF_vars(StopStep)
    /\ WF_vars(HeadsetObeys)

-----------------------------------------------------------------------------
(* Properties.                                                              *)

(* Every answer that waits to be read answers the command the control       *)
(* thread is waiting for: _read_control_ack takes the next line, so a late  *)
(* answer left in the stream would acknowledge a command never obeyed.  A   *)
(* line nobody asked for shifts the answers behind it, but those of its own *)
(* connection only.                                                         *)
AckAnswersCommand ==
    ~strayed =>
        /\ Len(acks) <= 1
        /\ \A i \in DOMAIN acks : acks[i] = outstanding
        /\ thread["control"] = "waiting" /\ "control" \in alive =>
               \A w \in wire : w.conn = conn => w.command = outstanding

(* Guidance is sent in the order it came, each message at most once, over   *)
(* any number of reconnections, overflows and timeouts: no message leaves   *)
(* the relay after a newer one.                                             *)
GuidanceInOrder ==
    /\ \A i, j \in DOMAIN sent : i < j => sent[i] < sent[j]
    /\ \A i, j \in DOMAIN queue :
           i < j /\ queue[i].kind = "guidance" /\ queue[j].kind = "guidance"
               => queue[i].n < queue[j].n
    /\ \A i \in DOMAIN sent, j \in DOMAIN queue :
           queue[j].kind = "guidance" => sent[i] < queue[j].n

(* Joins give up after a second and threads go on behind stop(): none of    *)
(* them publishes or sends more than the one item it was about to when the  *)
(* stop event came.                                                         *)
OneItemAfterStop == \A t \in Threads : late[t] <= 1

(* A control connection that lasts works the queue off, voice configuration *)
(* included, however the enqueuers overflow it in between.                  *)
Linked == thread["control"] \in {"loop", "getting", "waiting"} /\ "control" \in alive
LastingLinkDrains == (<>[]Linked) => []<>(queue = <<>>)

(* stop() returns and every thread ends, a socket opened too late for the   *)
(* snapshot included: its thread finds the stop event after the greeting.   *)
StopEndsThreads ==
    Stopping ~> (main = "destroyed" /\ \A t \in Threads : thread[t] = "done")
================================================================================
