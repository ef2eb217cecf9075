----------------------------- MODULE SignalRelay -----------------------------
(***************************************************************************)
(* The WebRTC signalling relay (scripts/webrtc_signal_relay.py): one room  *)
(* with one robot and one machine.  Rooms share nothing but the process.   *)
(*                                                                         *)
(* The relay is a single-threaded asyncio program with one handler task    *)
(* per connection.  Its lock is never held across an await, and a send     *)
(* hands its message to the transport before it can suspend, so a handler  *)
(* gives way only where it awaits the close of a connection or, behind a   *)
(* full write buffer, the sends of queued signals.  The handlers below are *)
(* split at those points and at no other.                                  *)
(*                                                                         *)
(* An endpoint process opens a new connection, with the same session, each *)
(* time it loses the previous one; the relay may learn of the loss later   *)
(* than of the new connection.  Messages reach a connection in the order   *)
(* they are sent, so the model keeps of them what the last notice said     *)
(* about the counterpart (belief).                                         *)
(***************************************************************************)
EXTENDS Naturals, Sequences, SignalQueue

CONSTANTS
    Conns,       \* connections that endpoints ever open
    Sessions,    \* endpoint processes (session_id)
    NoSession,   \* no session_id: a legacy endpoint or message
    RoleOf,      \* [Conns -> Roles]
    SessionOf,   \* [Conns -> Sessions \cup {NoSession}]
    None,        \* no connection
    MaxSignals,  \* [Conns -> Nat] bounds what each sends after registering
    MaxPending,  \* max_pending_per_peer
    ResetRobotOnMachineJoin  \* HORUS_WEBRTC_RELAY_RESET_ROBOT_ON_MACHINE_JOIN

Roles == {"robot", "machine"}

ASSUME RelayAssumption ==
    /\ RoleOf \in [Conns -> Roles]
    /\ NoSession \notin Sessions
    /\ SessionOf \in [Conns -> Sessions \cup {NoSession}]
    /\ None \notin Conns
    /\ MaxSignals \in [Conns -> Nat]
    /\ MaxPending \in Nat \ {0}
    /\ ResetRobotOnMachineJoin \in BOOLEAN

VARIABLES
    link,      \* the relay's side of each connection
    handler,   \* where the connection's handler task is
    peers,     \* [role] the registered connection
    pending,   \* [role] signals queued while the role is absent, oldest first
    sent,      \* how many signals and new registrations each connection has sent
    awaiting,  \* the connection whose close a handler awaits
    notify,    \* the counterpart a registration found
    todo,      \* queued signals a registration still has to deliver
    belief,    \* what a connection was last told about its counterpart
    raced      \* auxiliary: connections whose counterpart came or went while
               \* their registration awaited the close of a replaced connection

registration == <<awaiting, notify, todo>>
vars == <<link, handler, peers, pending, sent, registration, belief, raced>>

(* Descriptions are offers and answers. *)
Signal == [type : {"description", "candidate"}, session : Sessions \cup {NoSession}]

Links == {"unused", "open", "closing", "closed"}

(***************************************************************************)
(* "fresh": has not registered; "replacing": awaits the replaced           *)
(* connection's close; "delivering": sends the queued signals; "resetting": *)
(* awaits the robot's close; "ejecting": awaits its own close; "leaving":  *)
(* an exception is about to end the handler.                               *)
(***************************************************************************)
Handlers == {"none", "fresh", "replacing", "delivering", "resetting", "reading",
             "ejecting", "leaving", "done"}

TypeOK ==
    /\ link \in [Conns -> Links]
    /\ handler \in [Conns -> Handlers]
    /\ peers \in [Roles -> Conns \cup {None}]
    /\ pending \in [Roles -> Seq(Signal)]
    /\ \A r \in Roles : Len(pending[r]) <= MaxPending
    /\ sent \in [Conns -> Nat]
    /\ \A c \in Conns : sent[c] <= MaxSignals[c]
    /\ awaiting \in [Conns -> Conns \cup {None}]
    /\ notify \in [Conns -> Conns \cup {None}]
    /\ todo \in [Conns -> Seq(Signal)]
    /\ belief \in [Conns -> {"untold", "present", "absent"}]
    /\ raced \subseteq Conns

Init ==
    /\ link = [c \in Conns |-> "unused"]
    /\ handler = [c \in Conns |-> "none"]
    /\ peers = [r \in Roles |-> None]
    /\ pending = [r \in Roles |-> <<>>]
    /\ sent = [c \in Conns |-> 0]
    /\ awaiting = [c \in Conns |-> None]
    /\ notify = [c \in Conns |-> None]
    /\ todo = [c \in Conns |-> <<>>]
    /\ belief = [c \in Conns |-> "untold"]
    /\ raced = {}

target_role(r) == IF r = "robot" THEN "machine" ELSE "robot"

Role(c) == RoleOf[c]
Counterpart(c) == peers[target_role(Role(c))]

-----------------------------------------------------------------------------
(* Connections, as the relay's transport sees them. *)

Connect(c) ==
    /\ handler[c] = "none"
    /\ link' = [link EXCEPT ![c] = "open"]
    /\ handler' = [handler EXCEPT ![c] = "fresh"]
    /\ UNCHANGED <<peers, pending, sent, registration, belief, raced>>

(* The endpoint closes the connection, or keepalive finds it dead. *)
ConnectionLost(c) ==
    /\ link[c] = "open"
    /\ link' = [link EXCEPT ![c] = "closed"]
    /\ UNCHANGED <<handler, peers, pending, sent, registration, belief, raced>>

(* A close that the relay began ends with the endpoint's answer or with the *)
(* close timeout of the websocket library.                                  *)
CloseCompletes(c) ==
    /\ link[c] = "closing"
    /\ link' = [link EXCEPT ![c] = "closed"]
    /\ UNCHANGED <<handler, peers, pending, sent, registration, belief, raced>>

(* The links once the relay has begun to close connection c. *)
Closing(c) == [link EXCEPT ![c] = IF @ = "open" THEN "closing" ELSE @]

(* A registered connection sends one more message. *)
Sends(c) ==
    /\ handler[c] = "reading"
    /\ sent[c] < MaxSignals[c]
    /\ sent' = [sent EXCEPT ![c] = @ + 1]

-----------------------------------------------------------------------------
(* register *)

(* _queued_signal_is_current: the sender's session is still in the room, as *)
(* far as the two say which it is.                                         *)
IsCurrent(signal, c) ==
    /\ Counterpart(c) # None
    /\ \/ NoSession \in {SessionOf[Counterpart(c)], signal.session}
       \/ SessionOf[Counterpart(c)] = signal.session

(* The queued signals that a registering connection is sent. *)
Current(c) == Kept(pending[Role(c)], {m \in Signal : IsCurrent(m, c)})

(* Registrations that await a close while their counterpart comes or goes. *)
RacedBy(c) == {d \in Conns : handler[d] = "replacing" /\ Role(d) = target_role(Role(c))}

(* The message that asks for it: a connection's first, or a later one of a  *)
(* connection that registers again.                                        *)
AsksToRegister(c) ==
    \/ handler[c] = "fresh" /\ UNCHANGED sent
    \/ Sends(c)

(* Mutant: the queue is copied, not popped. *)
MutantEnterRoom(c) ==
    /\ AsksToRegister(c)
    /\ peers' = [peers EXCEPT ![Role(c)] = c]
    /\ notify' = [notify EXCEPT ![c] = Counterpart(c)]
    /\ todo' = [todo EXCEPT ![c] = Current(c)]
    /\ raced' = raced \cup RacedBy(c)
    /\ UNCHANGED pending

(* What register does under the lock. *)
EnterRoom(c) ==
    /\ AsksToRegister(c)
    /\ peers' = [peers EXCEPT ![Role(c)] = c]
    /\ notify' = [notify EXCEPT ![c] = Counterpart(c)]
    /\ todo' = [todo EXCEPT ![c] = Current(c)]
    /\ pending' = [pending EXCEPT ![Role(c)] = <<>>]
    /\ raced' = raced \cup RacedBy(c)

(* The "registered" reply says what the registration found under the lock,  *)
(* however long ago that was.  On a connection that is closed the send      *)
(* raises and the handler ends.                                             *)
Accept(c, counterpart) ==
    IF link[c] = "open"
    THEN /\ belief' = [belief EXCEPT ![c] = IF counterpart = None THEN "absent" ELSE "present"]
         /\ handler' = [handler EXCEPT ![c] = "delivering"]
    ELSE /\ handler' = [handler EXCEPT ![c] = "leaving"]
         /\ UNCHANGED belief

(* The role is free, or the connection's own. *)
Register(c) ==
    /\ peers[Role(c)] \in {None, c}
    /\ EnterRoom(c)
    /\ Accept(c, Counterpart(c))
    /\ UNCHANGED <<link, awaiting>>

(* Mutant: the replaced connection is left open. *)
MutantRegisterReplacing(c) ==
    /\ peers[Role(c)] \notin {None, c}
    /\ EnterRoom(c)
    /\ Accept(c, Counterpart(c))
    /\ UNCHANGED <<link, awaiting>>

(* The role is taken: the newer connection wins and the older one is closed. *)
RegisterReplacing(c) ==
    /\ peers[Role(c)] \notin {None, c}
    /\ EnterRoom(c)
    /\ link' = Closing(peers[Role(c)])
    /\ awaiting' = [awaiting EXCEPT ![c] = peers[Role(c)]]
    /\ handler' = [handler EXCEPT ![c] = "replacing"]
    /\ UNCHANGED belief

ReplacedClosed(c) ==
    /\ handler[c] = "replacing"
    /\ link[awaiting[c]] = "closed"
    /\ Accept(c, notify[c])
    /\ awaiting' = [awaiting EXCEPT ![c] = None]
    /\ UNCHANGED <<link, peers, pending, sent, notify, todo, raced>>

(* Tells connection d, if it can still be told.  Whatever d was told in a   *)
(* race is thereby mended, unless its own registration is still to reply.   *)
Tell(d, what) ==
    IF d # None /\ link[d] = "open"
    THEN /\ belief' = [belief EXCEPT ![d] = what]
         /\ raced' = IF handler[d] = "replacing" THEN raced \cup {d} ELSE raced \ {d}
    ELSE UNCHANGED <<belief, raced>>

(* The queued signals, then peer-ready to the counterpart found under the   *)
(* lock, then the optional reset of the robot.                              *)
Deliver(c) ==
    /\ handler[c] = "delivering"
    /\ link[c] = "open"
    /\ Tell(notify[c], "present")
    /\ IF Role(c) = "machine" /\ notify[c] # None /\ ResetRobotOnMachineJoin
       THEN /\ link' = Closing(notify[c])
            /\ awaiting' = [awaiting EXCEPT ![c] = notify[c]]
            /\ handler' = [handler EXCEPT ![c] = "resetting"]
       ELSE /\ handler' = [handler EXCEPT ![c] = "reading"]
            /\ UNCHANGED <<link, awaiting>>
    /\ notify' = [notify EXCEPT ![c] = None]
    /\ todo' = [todo EXCEPT ![c] = <<>>]
    /\ UNCHANGED <<peers, pending, sent>>

(* Mutant: a registration that fails does not unregister. *)
MutantDeliveryFails(c) ==
    /\ handler[c] = "delivering"
    /\ link[c] # "open"
    /\ handler' = [handler EXCEPT ![c] = "done"]
    /\ UNCHANGED <<link, peers, pending, sent, registration, belief, raced>>

(* Delivery behind a full write buffer finds the connection closed. *)
DeliveryFails(c) ==
    /\ handler[c] = "delivering"
    /\ link[c] # "open"
    /\ handler' = [handler EXCEPT ![c] = "leaving"]
    /\ UNCHANGED <<link, peers, pending, sent, registration, belief, raced>>

ResetDone(c) ==
    /\ handler[c] = "resetting"
    /\ link[awaiting[c]] = "closed"
    /\ handler' = [handler EXCEPT ![c] = "reading"]
    /\ awaiting' = [awaiting EXCEPT ![c] = None]
    /\ UNCHANGED <<link, peers, pending, sent, notify, todo, belief, raced>>

-----------------------------------------------------------------------------
(* handle: signals.  A handler goes on reading what its connection received *)
(* before it was closed or replaced.                                        *)

(* A description supersedes what its session queued before, and one without *)
(* a session whatever was queued.                                          *)
Superseded(m, signal) == signal.session \in {NoSession, m.session}

(* Mutant: a description supersedes the descriptions only. *)
MutantCoalesce(queue, signal) ==
    IF signal.type = "description"
    THEN Kept(queue, {m \in Signal : ~Superseded(m, signal) \/ m.type = "candidate"})
    ELSE queue

Coalesce(queue, signal) ==
    IF signal.type = "description"
    THEN Kept(queue, {m \in Signal : ~Superseded(m, signal)})
    ELSE queue

Suffixes(queue) == {SubSeq(queue, i, Len(queue)) : i \in 1..Len(queue) + 1}

(* Mutant: the bounds are enforced before the signal is appended. *)
MutantEnqueued(queue, signal) ==
    {Append(q, signal) : q \in
        {q \in UNION {Suffixes(Coalesce(fresh, signal)) : fresh \in Suffixes(queue)} :
            Len(q) <= MaxPending}}

(***************************************************************************)
(* What _queue_pending_locked may leave of a queue: the expired prefix is   *)
(* dropped, the signal coalesced and appended, and the oldest dropped      *)
(* until count and bytes are within bounds.  Ages and sizes are abstracted *)
(* to the prefixes they make the code drop.                                *)
(***************************************************************************)
Enqueued(queue, signal) ==
    {q \in UNION {Suffixes(Append(Coalesce(fresh, signal), signal)) : fresh \in Suffixes(queue)} :
        Len(q) <= MaxPending}

(* The signals a connection may send: it need not say its session. *)
SignalsOf(c) == {m \in Signal : m.session \in {SessionOf[c], NoSession}}

(* Mutant: a signal waits also for the successor of a connection that is    *)
(* closing.                                                                *)
MutantQueue(c, signal) ==
    /\ Sends(c)
    /\ Counterpart(c) # None => link[Counterpart(c)] # "open"
    /\ \E q \in Enqueued(pending[target_role(Role(c))], signal) :
          pending' = [pending EXCEPT ![target_role(Role(c))] = q]
    /\ UNCHANGED <<link, handler, peers, registration, belief, raced>>

(* The counterpart is absent: the signal waits for it. *)
Queue(c, signal) ==
    /\ Sends(c)
    /\ Counterpart(c) = None
    /\ \E q \in Enqueued(pending[target_role(Role(c))], signal) :
          pending' = [pending EXCEPT ![target_role(Role(c))] = q]
    /\ UNCHANGED <<link, handler, peers, registration, belief, raced>>

Forward(c) ==
    /\ Sends(c)
    /\ Counterpart(c) # None
    /\ link[Counterpart(c)] = "open"
    /\ UNCHANGED <<link, handler, peers, pending, registration, belief, raced>>

(* Forwarding to a counterpart that is closed but not yet unregistered      *)
(* raises ConnectionClosed in the sender's handler, which ends.             *)
ForwardFails(c) ==
    /\ Sends(c)
    /\ Counterpart(c) # None
    /\ link[Counterpart(c)] # "open"
    /\ handler' = [handler EXCEPT ![c] = "leaving"]
    /\ UNCHANGED <<link, peers, pending, registration, belief, raced>>

(* Unauthorised, an unknown role, no registration first, or a signal of     *)
(* another session: the relay closes the connection and stops reading it.   *)
Eject(c) ==
    /\ handler[c] \in {"fresh", "reading"}
    /\ link' = Closing(c)
    /\ handler' = [handler EXCEPT ![c] = "ejecting"]
    /\ UNCHANGED <<peers, pending, sent, registration, belief, raced>>

-----------------------------------------------------------------------------
(* Mutant: whatever connection holds the role is removed. *)
MutantUnregister(c) ==
    /\ \/ handler[c] = "leaving"
       \/ handler[c] \in {"fresh", "reading", "ejecting"} /\ link[c] = "closed"
    /\ peers' = [peers EXCEPT ![Role(c)] = None]
    /\ Tell(Counterpart(c), "absent")
    /\ handler' = [handler EXCEPT ![c] = "done"]
    /\ link' = Closing(c)
    /\ awaiting' = [awaiting EXCEPT ![c] = None]
    /\ notify' = [notify EXCEPT ![c] = None]
    /\ todo' = [todo EXCEPT ![c] = <<>>]
    /\ UNCHANGED <<pending, sent>>

(* The finally clause: a handler that ends unregisters its connection, and  *)
(* tells the counterpart, unless a newer connection holds the role.         *)
Unregister(c) ==
    /\ \/ handler[c] = "leaving"
       \/ handler[c] \in {"fresh", "reading", "ejecting"} /\ link[c] = "closed"
    /\ IF peers[Role(c)] = c
       THEN /\ peers' = [peers EXCEPT ![Role(c)] = None]
            /\ Tell(Counterpart(c), "absent")
       ELSE UNCHANGED <<peers, belief, raced>>
    /\ handler' = [handler EXCEPT ![c] = "done"]
    /\ link' = Closing(c)
    /\ awaiting' = [awaiting EXCEPT ![c] = None]
    /\ notify' = [notify EXCEPT ![c] = None]
    /\ todo' = [todo EXCEPT ![c] = <<>>]
    /\ UNCHANGED <<pending, sent>>

-----------------------------------------------------------------------------
HandlerStep(c) ==
    \/ ReplacedClosed(c)
    \/ Deliver(c)
    \/ DeliveryFails(c)
    \/ ResetDone(c)
    \/ Unregister(c)

Next ==
    \E c \in Conns :
        \/ Connect(c)
        \/ ConnectionLost(c)
        \/ CloseCompletes(c)
        \/ Register(c)
        \/ RegisterReplacing(c)
        \/ HandlerStep(c)
        \/ \E signal \in SignalsOf(c) : Queue(c, signal)
        \/ Forward(c)
        \/ ForwardFails(c)
        \/ Eject(c)

Spec == Init /\ [][Next]_vars

(***************************************************************************)
(* Fairness: the event loop runs every handler that can go on, and the     *)
(* websocket library bounds a close by its timeout.                        *)
(***************************************************************************)
FairSpec ==
    Spec /\ \A c \in Conns : WF_vars(HandlerStep(c)) /\ WF_vars(CloseCompletes(c))

-----------------------------------------------------------------------------
(***************************************************************************)
(* Properties.                                                             *)
(***************************************************************************)

Registered == {"replacing", "delivering", "resetting", "reading"}

(* At most one open registered connection per role, and it is the one that  *)
(* signals are forwarded to: replacing and unregistering, in whatever order *)
(* the handlers run, never drop an open connection from the room or leave a *)
(* replaced one in its place.                                               *)
OpenMeansPeer ==
    \A c \in Conns :
        /\ link[c] = "open" /\ handler[c] \in Registered => peers[Role(c)] = c
        /\ peers[Role(c)] = c => handler[c] \in Registered \cup {"ejecting", "leaving"}

(* A signal is queued only for an absent role: no signal stays behind in a  *)
(* queue, to be delivered after newer ones, once the role is registered.    *)
PendingForAbsent == \A r \in Roles : pending[r] # <<>> => peers[r] = None

(* A queued description is the first thing its session has in the queue,    *)
(* and one without a session the first of all: a counterpart that joins     *)
(* late gets the latest negotiation and only that.                         *)
LatestNegotiationOnly ==
    \A r \in Roles : \A i, j \in 1..Len(pending[r]) :
        i < j /\ pending[r][j].type = "description"
            => ~Superseded(pending[r][i], pending[r][j])

(* Queued signals never wait while a registration awaits the close of the   *)
(* connection it replaces, however long that takes: what it found current   *)
(* under the lock is sent at once, with a full write buffer as the only    *)
(* delay.                                                                  *)
NothingHeldOverClose == \A c \in Conns : handler[c] = "replacing" => todo[c] = <<>>

(* What an endpoint was last told about its counterpart agrees with the     *)
(* room once both registrations have completed, except that a counterpart   *)
(* which came or went while the endpoint's own registration awaited the     *)
(* close of a replaced connection leaves it misinformed until the next      *)
(* notice.                                                                  *)
PresenceAgrees ==
    \A c \in Conns \ raced :
        LET d == Counterpart(c)
        IN  (/\ handler[c] \in {"reading", "resetting"} /\ link[c] = "open"
             /\ d # None => handler[d] \in {"reading", "resetting", "ejecting"})
            => belief[c] = IF d = None THEN "absent" ELSE "present"

(* Every lost or closed connection leaves the room, whatever its handler    *)
(* was doing.                                                               *)
ClosedConnectionsLeave ==
    \A c \in Conns : link[c] = "closed" ~> handler[c] = "done" /\ peers[Role(c)] # c

=============================================================================
