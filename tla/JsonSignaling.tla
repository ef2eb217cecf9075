---------------------------- MODULE JsonSignaling ----------------------------
(***************************************************************************)
(* An endpoint's side of the signalling connection: JsonSignaling and its  *)
(* two uses, ClientSignaling (the endpoint connects, and reconnects, to    *)
(* the relay) and ServerSignaling (the endpoint accepts connections, each  *)
(* on a thread of its own), of scripts/gst_webrtc_common.py.               *)
(*                                                                         *)
(* The threads of the process meet in this object: the reading thread of   *)
(* each connection, the one-second timer of a client's connection, and the *)
(* media threads that send.  connection_lock protects the generation,      *)
(* ready_lock the readiness; connected is an event anyone may read, and    *)
(* self.ws is written without a lock.                                      *)
(*                                                                         *)
(* ready stands for ready_notified and the event ready, which are set and  *)
(* cleared together.                                                       *)
(***************************************************************************)
EXTENDS Naturals, Sequences

CONSTANTS
    Conns,       \* connections
    None,
    Messages,    \* signals the media threads send
    MaxPending   \* HORUS_WEBRTC_SIGNAL_PENDING_MAX

ASSUME SignalingAssumption ==
    /\ None \notin Conns
    /\ MaxPending \in Nat \ {0}

VARIABLES
    server_mode, \* ServerSignaling, else ClientSignaling; never changes
    socket,      \* of each connection: "unused", "open" or "closed"
    loop,        \* where the connection's reading thread is
    reads,       \* the connection that thread reads from
    ws,          \* self.ws
    connection_generation,
    generation,  \* the generation of each connection, 0 before it begins
    connected,
    ready,
    notifying,   \* the thread that holds ready_lock to announce a connection
    calling,     \* threads that have let go of it and call on_connected
    timer,       \* connections whose one-second timer is running
    announced,   \* connections for which on_connected was called
    pending,     \* queued messages, oldest first
    message      \* where each message is

connectionVars == <<connection_generation, generation, connected>>
readyVars == <<ready, notifying, calling, announced>>
sendVars == <<pending, message>>
vars == <<socket, loop, reads, ws, connectionVars, readyVars, timer, sendVars>>

(***************************************************************************)
(* "flushing" is inside _begin_connection, "starting" and "announcing" are *)
(* before the loop; "ending" lies between the two locks of the finally     *)
(* clause.  A thread that fails outside the try statement is "done"        *)
(* without it.                                                             *)
(***************************************************************************)
Loops == {"none", "opened", "flushing", "starting", "announcing", "reading",
          "ending", "done"}

(* "committed": has seen connected; "timedOut": has waited for it in vain. *)
MessageStates == {"new", "committed", "timedOut", "queued", "sent", "lost"}

(* A connection is announced by its reading thread or by its timer's.        *)
Notifiers == [conn : Conns, thread : {"loop", "timer"}]

TypeOK ==
    /\ server_mode \in BOOLEAN
    /\ socket \in [Conns -> {"unused", "open", "closed"}]
    /\ loop \in [Conns -> Loops]
    /\ reads \in [Conns -> Conns \cup {None}]
    /\ ws \in Conns \cup {None}
    /\ connection_generation \in Nat
    /\ generation \in [Conns -> Nat]
    /\ connected \in BOOLEAN
    /\ ready \in BOOLEAN
    /\ notifying \in Notifiers \cup {None}
    /\ calling \subseteq Notifiers
    /\ timer \subseteq Conns
    /\ announced \subseteq Conns
    /\ pending \in Seq(Messages) /\ Len(pending) <= MaxPending
    /\ message \in [Messages -> MessageStates]

Init ==
    /\ server_mode \in BOOLEAN
    /\ socket = [c \in Conns |-> "unused"]
    /\ loop = [c \in Conns |-> "none"]
    /\ reads = [c \in Conns |-> None]
    /\ ws = None
    /\ connection_generation = 0
    /\ generation = [c \in Conns |-> 0]
    /\ connected = FALSE
    /\ ready = FALSE
    /\ notifying = None
    /\ calling = {}
    /\ timer = {}
    /\ announced = {}
    /\ pending = <<>>
    /\ message = [m \in Messages |-> "new"]

GoTo(c, place) == loop' = [loop EXCEPT ![c] = place]

-----------------------------------------------------------------------------
(* The reading thread of a connection. *)

(* A client has one thread and opens a connection when the last has ended.  *)
ClientOpens == ~server_mode /\ \A d \in Conns : loop[d] \in {"none", "done"}

(* A server runs its handler for every connection, on a thread of its own.  *)
ServerAccepts == server_mode

Open(c) ==
    /\ loop[c] = "none"
    /\ ClientOpens \/ ServerAccepts
    /\ socket' = [socket EXCEPT ![c] = "open"]
    /\ ws' = c
    /\ GoTo(c, "opened")
    /\ UNCHANGED <<reads, connectionVars, readyVars, timer, sendVars>>

SocketCloses(c) ==
    /\ socket[c] = "open"
    /\ socket' = [socket EXCEPT ![c] = "closed"]
    /\ UNCHANGED <<loop, reads, ws, connectionVars, readyVars, timer, sendVars>>

(* The registration cannot be sent: the client's thread tries another one.  *)
RegistrationFails(c) ==
    /\ ~server_mode
    /\ loop[c] = "opened"
    /\ socket[c] = "closed"
    /\ GoTo(c, "done")
    /\ UNCHANGED <<socket, reads, ws, connectionVars, readyVars, timer, sendVars>>

BeginConnection(c) ==
    /\ loop[c] = "opened"
    /\ connection_generation' = connection_generation + 1
    /\ generation' = [generation EXCEPT ![c] = connection_generation + 1]
    /\ connected' = TRUE
    /\ GoTo(c, "flushing")
    /\ UNCHANGED <<socket, reads, ws, readyVars, timer, sendVars>>

(* One round of _flush_pending.  A send on a closed socket raises: the      *)
(* message is lost, and the thread leaves without its finally clause, so    *)
(* that connected stays set.                                                *)
FlushOne(c) ==
    /\ loop[c] = "flushing"
    /\ pending # <<>>
    /\ pending' = Tail(pending)
    /\ IF socket[ws] = "open"
       THEN /\ message' = [message EXCEPT ![Head(pending)] = "sent"]
            /\ UNCHANGED loop
       ELSE /\ message' = [message EXCEPT ![Head(pending)] = "lost"]
            /\ GoTo(c, "done")
    /\ UNCHANGED <<socket, reads, ws, connectionVars, readyVars, timer>>

Flushed(c) ==
    /\ loop[c] = "flushing"
    /\ pending = <<>>
    /\ GoTo(c, "starting")
    /\ UNCHANGED <<socket, reads, ws, connectionVars, readyVars, timer, sendVars>>

IsCurrent(c) == generation[c] = connection_generation /\ connected

(* The reading thread goes on when its own announcement is over. *)
Announcing(c) == [conn |-> c, thread |-> "loop"] \in {notifying} \cup calling

(* A client starts the timer and reads. *)
StartTimer(c) ==
    /\ ~server_mode
    /\ loop[c] = "starting"
    /\ timer' = timer \cup {c}
    /\ reads' = [reads EXCEPT ![c] = ws]
    /\ GoTo(c, "reading")
    /\ UNCHANGED <<socket, ws, connectionVars, readyVars, sendVars>>

(* Mutant: no connection is refused for being replaced. *)
MutantNotifyEnters(c, thread) ==
    /\ notifying = None
    /\ notifying' = [conn |-> c, thread |-> thread]

(* _notify_ready takes ready_lock and goes on if the connection is current. *)
NotifyEnters(c, thread) ==
    /\ notifying = None
    /\ notifying' = IF IsCurrent(c) THEN [conn |-> c, thread |-> thread] ELSE None

(* A server announces the connection before it reads. *)
NotifyAtOnce(c) ==
    /\ server_mode
    /\ loop[c] = "starting"
    /\ NotifyEnters(c, "loop")
    /\ GoTo(c, "announcing")
    /\ UNCHANGED <<socket, reads, ws, connectionVars, ready, calling, announced, timer, sendVars>>

(* self.ws is read once, here, and another connection may have taken it.    *)
StartReading(c) ==
    /\ loop[c] = "announcing"
    /\ ~Announcing(c)
    /\ reads' = [reads EXCEPT ![c] = ws]
    /\ GoTo(c, "reading")
    /\ UNCHANGED <<socket, ws, connectionVars, readyVars, timer, sendVars>>

(* The relay has accepted the registration. *)
NotifyRegistered(c) ==
    /\ ~server_mode
    /\ loop[c] = "reading"
    /\ socket[c] = "open"
    /\ ~Announcing(c)
    /\ NotifyEnters(c, "loop")
    /\ UNCHANGED <<socket, loop, reads, ws, connectionVars, ready, calling, announced, timer, sendVars>>

TimerFires(c) ==
    /\ c \in timer
    /\ NotifyEnters(c, "timer")
    /\ timer' = timer \ {c}
    /\ UNCHANGED <<socket, loop, reads, ws, connectionVars, ready, calling, announced, sendVars>>

(* The rest of _notify_ready under ready_lock. *)
Notifies(c) ==
    /\ notifying # None
    /\ notifying.conn = c
    /\ notifying' = None
    /\ IF ~ready /\ connected
       THEN ready' = TRUE /\ calling' = calling \cup {notifying}
       ELSE UNCHANGED <<ready, calling>>
    /\ UNCHANGED <<socket, loop, reads, ws, connectionVars, announced, timer, sendVars>>

(* on_connected, called without a lock: by now a timer's connection may be  *)
(* lost again, a reading thread's has not been seen to be.                  *)
CallsBack(c) ==
    \E n \in calling :
        /\ n.conn = c
        /\ calling' = calling \ {n}
        /\ announced' = announced \cup {c}
        /\ UNCHANGED <<socket, loop, reads, ws, connectionVars, ready, notifying, timer, sendVars>>

(* The loop ends with its socket, when it sees that it was replaced, or     *)
(* because websockets allows one reader of a connection only.               *)
EndLoop(c) ==
    /\ loop[c] = "reading"
    /\ ~Announcing(c)
    /\ \/ socket[reads[c]] = "closed"
       \/ ~IsCurrent(c)
       \/ \E d \in Conns \ {c} : loop[d] = "reading" /\ reads[d] = reads[c]
    /\ IF generation[c] = connection_generation
       THEN connected' = FALSE /\ GoTo(c, "ending")
       ELSE UNCHANGED connected /\ GoTo(c, "done")
    /\ UNCHANGED <<socket, reads, ws, connection_generation, generation, readyVars, timer, sendVars>>

(* Mutant: the loop ends without clearing readiness. *)
MutantClearReady(c) ==
    /\ loop[c] = "ending"
    /\ notifying = None
    /\ GoTo(c, "done")
    /\ UNCHANGED <<socket, reads, ws, connectionVars, readyVars, timer, sendVars>>

(* _clear_ready, called without the generation.                              *)
ClearReady(c) ==
    /\ loop[c] = "ending"
    /\ notifying = None
    /\ ready' = FALSE
    /\ GoTo(c, "done")
    /\ UNCHANGED <<socket, reads, ws, connectionVars, notifying, calling, announced, timer, sendVars>>

-----------------------------------------------------------------------------
(* send, on a media thread. *)

Commit(m) ==
    /\ message[m] = "new"
    /\ connected
    /\ message' = [message EXCEPT ![m] = "committed"]
    /\ UNCHANGED <<socket, loop, reads, ws, connectionVars, readyVars, timer, pending>>

(* By now self.ws may be another connection, or closed: then the send       *)
(* raises in the caller.                                                    *)
SendNow(m) ==
    /\ message[m] = "committed"
    /\ message' = [message EXCEPT ![m] = IF socket[ws] = "open" THEN "sent" ELSE "lost"]
    /\ UNCHANGED <<socket, loop, reads, ws, connectionVars, readyVars, timer, pending>>

TimesOut(m) ==
    /\ message[m] = "new"
    /\ ~connected
    /\ message' = [message EXCEPT ![m] = "timedOut"]
    /\ UNCHANGED <<socket, loop, reads, ws, connectionVars, readyVars, timer, pending>>

(* Mutant: a full queue is extended. *)
MutantQueuePending(m) ==
    /\ message[m] = "timedOut"
    /\ pending' = Append(pending, m)
    /\ message' = [message EXCEPT ![m] = "queued"]
    /\ UNCHANGED <<socket, loop, reads, ws, connectionVars, readyVars, timer>>

(* A full queue drops its oldest message.                                    *)
QueuePending(m) ==
    /\ message[m] = "timedOut"
    /\ IF Len(pending) < MaxPending
       THEN /\ pending' = Append(pending, m)
            /\ message' = [message EXCEPT ![m] = "queued"]
       ELSE /\ pending' = Append(Tail(pending), m)
            /\ message' = [message EXCEPT ![m] = "queued", ![Head(pending)] = "lost"]
    /\ UNCHANGED <<socket, loop, reads, ws, connectionVars, readyVars, timer>>

-----------------------------------------------------------------------------
LoopStep(c) ==
    \/ BeginConnection(c)
    \/ RegistrationFails(c)
    \/ FlushOne(c)
    \/ Flushed(c)
    \/ StartTimer(c)
    \/ NotifyAtOnce(c)
    \/ StartReading(c)
    \/ EndLoop(c)
    \/ ClearReady(c)

Send(m) == Commit(m) \/ SendNow(m) \/ TimesOut(m) \/ QueuePending(m)

ConnectionStep(c) ==
    \/ Open(c)
    \/ SocketCloses(c)
    \/ LoopStep(c)
    \/ NotifyRegistered(c)
    \/ TimerFires(c)
    \/ Notifies(c)
    \/ CallsBack(c)

Next ==
    /\ (\E c \in Conns : ConnectionStep(c)) \/ (\E m \in Messages : Send(m))
    /\ UNCHANGED server_mode

Spec == Init /\ [][Next]_<<server_mode, vars>>

(* Every thread goes on while it can; a timer fires, and its thread gets    *)
(* ready_lock in the end however often others hold it.  Nothing is assumed  *)
(* of the network, the relay or the senders.                                *)
FairSpec ==
    Spec /\ \A c \in Conns :
        /\ WF_vars(LoopStep(c)) /\ SF_vars(TimerFires(c))
        /\ WF_vars(Notifies(c)) /\ WF_vars(CallsBack(c))

-----------------------------------------------------------------------------
(***************************************************************************)
(* Properties.                                                             *)
(***************************************************************************)

(* A client becomes ready, and goes on to call on_connected, for nothing    *)
(* but the connection that is current and up at that moment, although a     *)
(* timer may fire, and a registration be accepted, for one that has just    *)
(* been lost.  (A server's next connection may begin between the check and  *)
(* the setting.)                                                            *)
OnlyCurrentAnnounced ==
    [][~server_mode =>
          \A n \in calling' \ calling :
              generation[n.conn] = connection_generation /\ connected]_vars

(* Where the thread of the current connection may be while an endpoint is   *)
(* ready and connected.  A server keeps the readiness of the connection     *)
(* before, also past a flush that failed and ended the thread.              *)
ReadyLoops ==
    IF server_mode THEN {"flushing", "starting", "announcing", "reading", "done"}
                   ELSE {"reading"}

(* Readiness does not outlive its connection: the thread of the latest      *)
(* connection is about to take it back, or that connection is up, and a     *)
(* client's thread still reads it and will see it end, whatever became of   *)
(* threads that never reached their finally clause and of late timers.      *)
ReadyIsConnected ==
    ready => \E c \in Conns :
        /\ generation[c] = connection_generation
        /\ loop[c] = "ending" \/ (connected /\ loop[c] \in ReadyLoops)

Announced(c) ==
    loop[c] = "reading" /\ ws = c ~> c \in announced \/ socket[c] = "closed" \/ ws # c

(* A client's connection that lasts is announced, whatever became of those  *)
(* before it, so that the endpoint learns of every reconnection and         *)
(* negotiates anew.  A server's may not be: the thread of the connection it *)
(* replaced can clear its readiness.                                        *)
ClientConnectionAnnounced == \A c \in Conns : ~server_mode => Announced(c)

=============================================================================
