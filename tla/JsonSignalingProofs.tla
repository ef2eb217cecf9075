------------------------- MODULE JsonSignalingProofs -------------------------
(***************************************************************************)
(* The endpoint's connection object, for any number of connections and     *)
(* messages: its types, that readiness does not outlive the connection,    *)
(* and that a client announces nothing but the connection it has.          *)
(***************************************************************************)
EXTENDS JsonSignaling, TLAPS

Active == {"opened", "flushing", "starting", "announcing", "reading", "ending"}
Begun == {"flushing", "starting", "reading", "ending"}

Running == {"flushing", "starting", "announcing", "reading"}

(* Generations are given out once, and in order.                             *)
GenerationsUsed ==
    \A c \in Conns :
        /\ generation[c] <= connection_generation
        /\ loop[c] \in Running \cup {"ending"} => generation[c] # 0
        /\ \A d \in Conns : d # c /\ generation[d] = generation[c] => generation[c] = 0

(* connected is set when and only when the latest connection is in use, or   *)
(* its thread has left without clearing it.                                  *)
ConnectedIsCurrent ==
    /\ connected => \E c \in Conns : /\ generation[c] = connection_generation
                                     /\ loop[c] \in Running \cup {"done"}
    /\ \A c \in Conns :
           generation[c] = connection_generation /\ loop[c] \in Running => connected

(* A client has one thread that connects.                                    *)
OneThread == \A c, d \in Conns : c # d /\ loop[c] \in Active => loop[d] \notin Active

(* The connection of that thread is the current one until the thread has     *)
(* cleared readiness, and connected is cleared before that.                  *)
ThreadIsCurrent ==
    \A c \in Conns :
        /\ loop[c] # "announcing"
        /\ loop[c] \in Begun => generation[c] = connection_generation
        /\ loop[c] = "ending" => ~connected

(* A timer outlives its connection, but not as that of a current one.        *)
TimersKnowTheirPlace ==
    \A c \in timer :
        /\ loop[c] \in {"reading", "ending", "done"}
        /\ IsCurrent(c) => loop[c] = "reading"

(* Whoever announces a connection holds back the thread that would end it.   *)
NotifierIsCurrent ==
    notifying # None =>
        /\ generation[notifying.conn] = connection_generation
        /\ loop[notifying.conn] \in {"reading", "ending"}

ClientInv ==
    ~server_mode => OneThread /\ ThreadIsCurrent /\ TimersKnowTheirPlace /\ NotifierIsCurrent

IInv == TypeOK /\ ReadyIsConnected /\ GenerationsUsed /\ ConnectedIsCurrent /\ ClientInv

(* The invariant holds before anything has connected.                        *)
LEMMA InitInv == Init => IInv
<1> SUFFICES ASSUME Init PROVE IInv
  OBVIOUS
<1>1. <<>> \in Seq(Messages) /\ Len(<<>>) <= MaxPending
  BY SignalingAssumption
<1>2. TypeOK
  BY <1>1 DEF Init, TypeOK, Loops, MessageStates
<1>3. ReadyIsConnected /\ GenerationsUsed /\ ConnectedIsCurrent
  BY DEF Init, ReadyIsConnected, GenerationsUsed, ConnectedIsCurrent, Running
<1>4. OneThread /\ ThreadIsCurrent
  BY DEF Init, OneThread, ThreadIsCurrent, Active, Begun
<1>5. TimersKnowTheirPlace /\ NotifierIsCurrent
  BY DEF Init, TimersKnowTheirPlace, NotifierIsCurrent
<1>6. QED
  BY <1>2, <1>3, <1>4, <1>5 DEF IInv, ClientInv

(* The queue stays a bounded sequence of messages, when it is flushed and    *)
(* when its oldest message makes room.                                       *)
LEMMA QueueFacts ==
    ASSUME NEW q \in Seq(Messages), Len(q) <= MaxPending, NEW m \in Messages
    PROVE  /\ q # <<>> => /\ Head(q) \in Messages
                           /\ Tail(q) \in Seq(Messages) /\ Len(Tail(q)) <= MaxPending
           /\ Len(q) < MaxPending => /\ Append(q, m) \in Seq(Messages)
                                      /\ Len(Append(q, m)) <= MaxPending
           /\ ~(Len(q) < MaxPending) => /\ q # <<>>
                                         /\ Append(Tail(q), m) \in Seq(Messages)
                                         /\ Len(Append(Tail(q), m)) <= MaxPending
<1>1. MaxPending \in Nat \ {0} /\ Len(q) \in Nat
  BY SignalingAssumption
<1>2. CASE q = <<>>
  BY <1>1, <1>2
<1>3. CASE q # <<>>
  <2>1. Head(q) \in Messages /\ Tail(q) \in Seq(Messages) /\ Len(Tail(q)) = Len(q) - 1
    BY <1>3
  <2>2. Append(Tail(q), m) \in Seq(Messages) /\ Len(Append(Tail(q), m)) = Len(q)
    BY <1>1, <2>1
  <2>3. QED
    BY <1>1, <1>3, <2>1, <2>2
<1>4. QED
  BY <1>2, <1>3

(* Every step of a connection's threads keeps the types. *)
LEMMA ConnectionTypes ==
    ASSUME TypeOK, NEW c \in Conns, ConnectionStep(c), UNCHANGED server_mode
    PROVE  TypeOK'
<1>1. CASE Open(c)
  BY <1>1 DEF TypeOK, Open, GoTo, Loops, connectionVars, readyVars, sendVars
<1>2. CASE SocketCloses(c)
  BY <1>2 DEF TypeOK, SocketCloses, GoTo, Loops, connectionVars, readyVars, sendVars
<1>3. CASE RegistrationFails(c)
  BY <1>3 DEF TypeOK, RegistrationFails, GoTo, Loops, connectionVars, readyVars, sendVars
<1>4. CASE BeginConnection(c)
  BY <1>4 DEF TypeOK, BeginConnection, GoTo, Loops, connectionVars, readyVars, sendVars
<1>5. CASE FlushOne(c)
  <2>1. pending \in Seq(Messages) /\ Len(pending) <= MaxPending /\ pending # <<>>
    BY <1>5 DEF TypeOK, FlushOne
  <2>2. Head(pending) \in Messages /\ Tail(pending) \in Seq(Messages)
        /\ Len(Tail(pending)) <= MaxPending
    BY <2>1, QueueFacts
  <2>3. QED
    BY <1>5, <2>2 DEF TypeOK, FlushOne, GoTo, Loops, MessageStates, connectionVars, readyVars
<1>6. CASE Flushed(c)
  BY <1>6 DEF TypeOK, Flushed, GoTo, Loops, connectionVars, readyVars, sendVars
<1>7. CASE StartTimer(c)
  BY <1>7 DEF TypeOK, StartTimer, GoTo, Loops, connectionVars, readyVars, sendVars
<1>8. CASE NotifyAtOnce(c)
  BY <1>8 DEF TypeOK, NotifyAtOnce, GoTo, Loops, connectionVars, readyVars, sendVars, NotifyEnters, Notifiers
<1>9. CASE StartReading(c)
  BY <1>9 DEF TypeOK, StartReading, GoTo, Loops, connectionVars, readyVars, sendVars
<1>10. CASE EndLoop(c)
  BY <1>10 DEF TypeOK, EndLoop, GoTo, Loops, connectionVars, readyVars, sendVars
<1>11. CASE ClearReady(c)
  BY <1>11 DEF TypeOK, ClearReady, GoTo, Loops, connectionVars, readyVars, sendVars
<1>12. CASE NotifyRegistered(c)
  BY <1>12 DEF TypeOK, NotifyRegistered, GoTo, Loops, connectionVars, readyVars, sendVars, NotifyEnters, Notifiers
<1>13. CASE TimerFires(c)
  BY <1>13 DEF TypeOK, TimerFires, GoTo, Loops, connectionVars, readyVars, sendVars, NotifyEnters, Notifiers
<1>14. CASE Notifies(c)
  BY <1>14 DEF TypeOK, Notifies, GoTo, Loops, connectionVars, readyVars, sendVars
<1>15. CASE CallsBack(c)
  BY <1>15 DEF TypeOK, CallsBack, connectionVars, sendVars
<1>16. QED
  BY <1>1, <1>2, <1>3, <1>4, <1>5, <1>6, <1>7, <1>8, <1>9, <1>10, <1>11, <1>12, <1>13, <1>14, <1>15 DEF ConnectionStep, LoopStep

(* And so does every step of a sender, which touches nothing else. *)
LEMMA SendTypes ==
    ASSUME TypeOK, NEW m \in Messages, Send(m), UNCHANGED server_mode
    PROVE  TypeOK'
<1>1. CASE Commit(m) \/ SendNow(m) \/ TimesOut(m)
  BY <1>1 DEF Commit, SendNow, TimesOut, TypeOK, MessageStates, connectionVars, readyVars
<1>2. CASE QueuePending(m)
  <2>1. pending \in Seq(Messages) /\ Len(pending) <= MaxPending
    BY DEF TypeOK
  <2>2. pending' \in Seq(Messages) /\ Len(pending') <= MaxPending
    BY <1>2, <2>1, QueueFacts DEF QueuePending
  <2>3. message' \in [Messages -> MessageStates]
    BY <1>2 DEF QueuePending, TypeOK, MessageStates
  <2>4. QED
    BY <1>2, <2>2, <2>3 DEF QueuePending, TypeOK, connectionVars, readyVars
<1>3. QED
  BY <1>1, <1>2 DEF Send

(* Only a connection that begins takes a generation, the next one.           *)
LEMMA GenerationStep ==
    ASSUME TypeOK, GenerationsUsed, NEW c \in Conns, ConnectionStep(c)
    PROVE  GenerationsUsed'
<1> USE DEF Running
<1>1. CASE BeginConnection(c)
  BY <1>1 DEF BeginConnection, TypeOK, GenerationsUsed, GoTo
<1>2. CASE Open(c)
  BY <1>2 DEF GenerationsUsed, Open, TypeOK, GoTo, connectionVars, readyVars, sendVars
<1>3. CASE SocketCloses(c)
  BY <1>3 DEF GenerationsUsed, SocketCloses, TypeOK, GoTo, connectionVars, readyVars, sendVars
<1>4. CASE RegistrationFails(c)
  BY <1>4 DEF GenerationsUsed, RegistrationFails, TypeOK, GoTo, connectionVars, readyVars, sendVars
<1>5. CASE FlushOne(c)
  BY <1>5 DEF GenerationsUsed, FlushOne, TypeOK, GoTo, connectionVars, readyVars, sendVars
<1>6. CASE Flushed(c)
  BY <1>6 DEF GenerationsUsed, Flushed, TypeOK, GoTo, connectionVars, readyVars, sendVars
<1>7. CASE StartTimer(c)
  BY <1>7 DEF GenerationsUsed, StartTimer, TypeOK, GoTo, connectionVars, readyVars, sendVars
<1>8. CASE NotifyAtOnce(c)
  BY <1>8 DEF GenerationsUsed, NotifyAtOnce, TypeOK, GoTo, connectionVars, readyVars, sendVars, NotifyEnters
<1>9. CASE StartReading(c)
  BY <1>9 DEF GenerationsUsed, StartReading, TypeOK, GoTo, connectionVars, readyVars, sendVars
<1>10. CASE EndLoop(c)
  BY <1>10 DEF GenerationsUsed, EndLoop, TypeOK, GoTo, connectionVars, readyVars, sendVars
<1>11. CASE ClearReady(c)
  BY <1>11 DEF GenerationsUsed, ClearReady, TypeOK, GoTo, connectionVars, readyVars, sendVars
<1>12. CASE NotifyRegistered(c)
  BY <1>12 DEF GenerationsUsed, NotifyRegistered, TypeOK, GoTo, connectionVars, readyVars, sendVars, NotifyEnters
<1>13. CASE TimerFires(c)
  BY <1>13 DEF GenerationsUsed, TimerFires, TypeOK, GoTo, connectionVars, readyVars, sendVars, NotifyEnters
<1>14. CASE Notifies(c)
  BY <1>14 DEF GenerationsUsed, Notifies, TypeOK, GoTo, connectionVars, readyVars, sendVars
<1>15. CASE CallsBack(c)
  BY <1>15 DEF GenerationsUsed, CallsBack, TypeOK, GoTo, connectionVars, readyVars, sendVars
<1>16. QED
  BY <1>1, <1>2, <1>3, <1>4, <1>5, <1>6, <1>7, <1>8, <1>9, <1>10, <1>11, <1>12, <1>13, <1>14, <1>15 DEF ConnectionStep, LoopStep

(* Whoever sets connected is the latest connection, and only the thread of   *)
(* the latest connection clears it, when it ends.                            *)
LEMMA ConnectedStep ==
    ASSUME TypeOK, GenerationsUsed, ConnectedIsCurrent, NEW c \in Conns, ConnectionStep(c)
    PROVE  ConnectedIsCurrent'
<1> USE DEF Running
<1>1. CASE Open(c)
  BY <1>1 DEF ConnectedIsCurrent, Open, TypeOK, GoTo, connectionVars, readyVars, sendVars
<1>2. CASE SocketCloses(c)
  BY <1>2 DEF ConnectedIsCurrent, SocketCloses, TypeOK, GoTo, connectionVars, readyVars, sendVars
<1>3. CASE RegistrationFails(c)
  BY <1>3 DEF ConnectedIsCurrent, RegistrationFails, TypeOK, GoTo, connectionVars, readyVars, sendVars
<1>4. CASE BeginConnection(c)
  BY <1>4 DEF ConnectedIsCurrent, GenerationsUsed, BeginConnection, TypeOK, GoTo, connectionVars, readyVars, sendVars
<1>5. CASE FlushOne(c)
  BY <1>5 DEF ConnectedIsCurrent, FlushOne, TypeOK, GoTo, connectionVars, readyVars, sendVars
<1>6. CASE Flushed(c)
  BY <1>6 DEF ConnectedIsCurrent, Flushed, TypeOK, GoTo, connectionVars, readyVars, sendVars
<1>7. CASE StartTimer(c)
  BY <1>7 DEF ConnectedIsCurrent, StartTimer, TypeOK, GoTo, connectionVars, readyVars, sendVars
<1>8. CASE NotifyAtOnce(c)
  BY <1>8 DEF ConnectedIsCurrent, NotifyAtOnce, TypeOK, GoTo, connectionVars, readyVars, sendVars, NotifyEnters
<1>9. CASE StartReading(c)
  BY <1>9 DEF ConnectedIsCurrent, StartReading, TypeOK, GoTo, connectionVars, readyVars, sendVars
<1>10. CASE EndLoop(c)
  BY <1>10 DEF ConnectedIsCurrent, GenerationsUsed, EndLoop, TypeOK, GoTo, connectionVars, readyVars, sendVars
<1>11. CASE ClearReady(c)
  BY <1>11 DEF ConnectedIsCurrent, ClearReady, TypeOK, GoTo, connectionVars, readyVars, sendVars
<1>12. CASE NotifyRegistered(c)
  BY <1>12 DEF ConnectedIsCurrent, NotifyRegistered, TypeOK, GoTo, connectionVars, readyVars, sendVars, NotifyEnters
<1>13. CASE TimerFires(c)
  BY <1>13 DEF ConnectedIsCurrent, TimerFires, TypeOK, GoTo, connectionVars, readyVars, sendVars, NotifyEnters
<1>14. CASE Notifies(c)
  BY <1>14 DEF ConnectedIsCurrent, Notifies, TypeOK, GoTo, connectionVars, readyVars, sendVars
<1>15. CASE CallsBack(c)
  BY <1>15 DEF ConnectedIsCurrent, CallsBack, TypeOK, GoTo, connectionVars, readyVars, sendVars
<1>16. QED
  BY <1>1, <1>2, <1>3, <1>4, <1>5, <1>6, <1>7, <1>8, <1>9, <1>10, <1>11, <1>12, <1>13, <1>14, <1>15 DEF ConnectionStep, LoopStep

(* Readiness is set while the latest connection is up, and whoever ends that *)
(* connection goes on to take it back.  A client opens a connection when no  *)
(* thread is left to do so, and is not ready then; a server does not wait.   *)
LEMMA ReadyStep ==
    ASSUME IInv, NEW c \in Conns, ConnectionStep(c), UNCHANGED server_mode
    PROVE  ReadyIsConnected'
<1> USE DEF IInv, ReadyLoops
<1>1. CASE Open(c)
  BY <1>1 DEF ReadyIsConnected, ClientInv, OneThread, Active, Open, TypeOK, GoTo, connectionVars, readyVars, sendVars
<1>2. CASE SocketCloses(c)
  BY <1>2 DEF ReadyIsConnected, SocketCloses, TypeOK, GoTo, connectionVars, readyVars, sendVars
<1>3. CASE RegistrationFails(c)
  BY <1>3 DEF ReadyIsConnected, ClientInv, OneThread, Active, RegistrationFails, TypeOK, GoTo, connectionVars, readyVars, sendVars
<1>4. CASE BeginConnection(c)
  BY <1>4 DEF ReadyIsConnected, ClientInv, OneThread, Active, GenerationsUsed, BeginConnection, TypeOK, GoTo, connectionVars, readyVars, sendVars
<1>5. CASE FlushOne(c)
  BY <1>5 DEF ReadyIsConnected, ClientInv, OneThread, Active, FlushOne, TypeOK, GoTo, connectionVars, readyVars, sendVars
<1>6. CASE Flushed(c)
  BY <1>6 DEF ReadyIsConnected, ClientInv, OneThread, Active, Flushed, TypeOK, GoTo, connectionVars, readyVars, sendVars
<1>7. CASE StartTimer(c)
  BY <1>7 DEF ReadyIsConnected, ClientInv, OneThread, Active, StartTimer, TypeOK, GoTo, connectionVars, readyVars, sendVars
<1>8. CASE NotifyAtOnce(c)
  BY <1>8 DEF ReadyIsConnected, ClientInv, OneThread, Active, NotifyAtOnce, TypeOK, GoTo, connectionVars, readyVars, sendVars, NotifyEnters
<1>9. CASE StartReading(c)
  BY <1>9 DEF ReadyIsConnected, ClientInv, OneThread, Active, StartReading, TypeOK, GoTo, connectionVars, readyVars, sendVars
<1>10. CASE EndLoop(c)
  BY <1>10 DEF ReadyIsConnected, EndLoop, TypeOK, GoTo, connectionVars, readyVars, sendVars
<1>11. CASE ClearReady(c)
  BY <1>11 DEF ReadyIsConnected, ClearReady, TypeOK, GoTo, connectionVars, readyVars, sendVars
<1>12. CASE NotifyRegistered(c)
  BY <1>12 DEF ReadyIsConnected, NotifyRegistered, TypeOK, GoTo, connectionVars, readyVars, sendVars, NotifyEnters
<1>13. CASE TimerFires(c)
  BY <1>13 DEF ReadyIsConnected, TimerFires, TypeOK, GoTo, connectionVars, readyVars, sendVars, NotifyEnters
<1>14. CASE Notifies(c)
  BY <1>14 DEF ReadyIsConnected, ConnectedIsCurrent, Running, ClientInv, ThreadIsCurrent, NotifierIsCurrent, Notifiers, Notifies, TypeOK, GoTo, connectionVars, readyVars, sendVars
<1>15. CASE CallsBack(c)
  BY <1>15 DEF ReadyIsConnected, CallsBack, TypeOK, GoTo, connectionVars, readyVars, sendVars
<1>16. QED
  BY <1>1, <1>2, <1>3, <1>4, <1>5, <1>6, <1>7, <1>8, <1>9, <1>10, <1>11, <1>12, <1>13, <1>14, <1>15 DEF ConnectionStep, LoopStep

(* The thread of a client.  Another connection is opened only when none is,  *)
(* and a connection that begins finds nobody announcing.                     *)
LEMMA ClientStep ==
    ASSUME IInv, NEW c \in Conns, ConnectionStep(c), ~server_mode, ~server_mode'
    PROVE  ClientInv'
<1> USE DEF IInv, ClientInv, Active, Begun
<1>1. CASE Open(c)
  <2>1. OneThread'
    BY <1>1 DEF Open, TypeOK, GoTo, connectionVars, readyVars, sendVars, OneThread, IsCurrent, ClientOpens, ServerAccepts
  <2>2. ThreadIsCurrent'
    BY <1>1 DEF Open, TypeOK, GoTo, connectionVars, readyVars, sendVars, ThreadIsCurrent, OneThread, IsCurrent, ClientOpens, ServerAccepts
  <2>3. TimersKnowTheirPlace'
    BY <1>1 DEF Open, TypeOK, GoTo, connectionVars, readyVars, sendVars, TimersKnowTheirPlace, ThreadIsCurrent, OneThread, GenerationsUsed, IsCurrent, ClientOpens, ServerAccepts
  <2>4. NotifierIsCurrent'
    BY <1>1 DEF Open, TypeOK, GoTo, connectionVars, readyVars, sendVars, NotifierIsCurrent, TimersKnowTheirPlace, ThreadIsCurrent, OneThread, IsCurrent, ClientOpens, ServerAccepts
  <2>5. QED
    BY <2>1, <2>2, <2>3, <2>4
<1>2. CASE SocketCloses(c)
  <2>1. OneThread'
    BY <1>2 DEF SocketCloses, TypeOK, GoTo, connectionVars, readyVars, sendVars, OneThread, IsCurrent
  <2>2. ThreadIsCurrent'
    BY <1>2 DEF SocketCloses, TypeOK, GoTo, connectionVars, readyVars, sendVars, ThreadIsCurrent, OneThread, IsCurrent
  <2>3. TimersKnowTheirPlace'
    BY <1>2 DEF SocketCloses, TypeOK, GoTo, connectionVars, readyVars, sendVars, TimersKnowTheirPlace, ThreadIsCurrent, OneThread, GenerationsUsed, IsCurrent
  <2>4. NotifierIsCurrent'
    BY <1>2 DEF SocketCloses, TypeOK, GoTo, connectionVars, readyVars, sendVars, NotifierIsCurrent, TimersKnowTheirPlace, ThreadIsCurrent, OneThread, IsCurrent
  <2>5. QED
    BY <2>1, <2>2, <2>3, <2>4
<1>3. CASE RegistrationFails(c)
  <2>1. OneThread'
    BY <1>3 DEF RegistrationFails, TypeOK, GoTo, connectionVars, readyVars, sendVars, OneThread, IsCurrent
  <2>2. ThreadIsCurrent'
    BY <1>3 DEF RegistrationFails, TypeOK, GoTo, connectionVars, readyVars, sendVars, ThreadIsCurrent, OneThread, IsCurrent
  <2>3. TimersKnowTheirPlace'
    BY <1>3 DEF RegistrationFails, TypeOK, GoTo, connectionVars, readyVars, sendVars, TimersKnowTheirPlace, ThreadIsCurrent, OneThread, GenerationsUsed, IsCurrent
  <2>4. NotifierIsCurrent'
    BY <1>3 DEF RegistrationFails, TypeOK, GoTo, connectionVars, readyVars, sendVars, NotifierIsCurrent, TimersKnowTheirPlace, ThreadIsCurrent, OneThread, IsCurrent
  <2>5. QED
    BY <2>1, <2>2, <2>3, <2>4
<1>4. CASE BeginConnection(c)
  <2>1. OneThread'
    BY <1>4 DEF BeginConnection, TypeOK, GoTo, connectionVars, readyVars, sendVars, OneThread, IsCurrent
  <2>2. ThreadIsCurrent'
    BY <1>4 DEF BeginConnection, TypeOK, GoTo, connectionVars, readyVars, sendVars, ThreadIsCurrent, OneThread, IsCurrent
  <2>3. TimersKnowTheirPlace'
    BY <1>4 DEF BeginConnection, TypeOK, GoTo, connectionVars, readyVars, sendVars, TimersKnowTheirPlace, ThreadIsCurrent, OneThread, GenerationsUsed, IsCurrent
  <2>4. NotifierIsCurrent'
    <3>1. notifying # None => notifying.conn \in Conns
      BY DEF TypeOK, Notifiers
    <3>2. loop[c] = "opened"
      BY <1>4 DEF BeginConnection
    <3>3. notifying = None
      BY <3>1, <3>2 DEF NotifierIsCurrent, OneThread
    <3>4. notifying' = None
      BY <1>4, <3>3 DEF BeginConnection, readyVars
    <3>5. QED
      BY <3>4 DEF NotifierIsCurrent
  <2>5. QED
    BY <2>1, <2>2, <2>3, <2>4
<1>5. CASE FlushOne(c)
  <2>1. OneThread'
    BY <1>5 DEF FlushOne, TypeOK, GoTo, connectionVars, readyVars, sendVars, OneThread, IsCurrent
  <2>2. ThreadIsCurrent'
    BY <1>5 DEF FlushOne, TypeOK, GoTo, connectionVars, readyVars, sendVars, ThreadIsCurrent, OneThread, IsCurrent
  <2>3. TimersKnowTheirPlace'
    BY <1>5 DEF FlushOne, TypeOK, GoTo, connectionVars, readyVars, sendVars, TimersKnowTheirPlace, ThreadIsCurrent, OneThread, GenerationsUsed, IsCurrent
  <2>4. NotifierIsCurrent'
    <3>1. notifying # None => notifying.conn \in Conns /\ notifying.conn # c
      BY <1>5 DEF FlushOne, TypeOK, Notifiers, NotifierIsCurrent
    <3>2. UNCHANGED <<notifying, generation, connection_generation>>
      BY <1>5 DEF FlushOne, readyVars, connectionVars
    <3>3. \A d \in Conns : d # c => loop'[d] = loop[d]
      BY <1>5 DEF FlushOne, GoTo, TypeOK
    <3>4. QED
      BY <3>1, <3>2, <3>3 DEF NotifierIsCurrent
  <2>5. QED
    BY <2>1, <2>2, <2>3, <2>4
<1>6. CASE Flushed(c)
  <2>1. OneThread'
    BY <1>6 DEF Flushed, TypeOK, GoTo, connectionVars, readyVars, sendVars, OneThread, IsCurrent
  <2>2. ThreadIsCurrent'
    BY <1>6 DEF Flushed, TypeOK, GoTo, connectionVars, readyVars, sendVars, ThreadIsCurrent, OneThread, IsCurrent
  <2>3. TimersKnowTheirPlace'
    BY <1>6 DEF Flushed, TypeOK, GoTo, connectionVars, readyVars, sendVars, TimersKnowTheirPlace, ThreadIsCurrent, OneThread, GenerationsUsed, IsCurrent
  <2>4. NotifierIsCurrent'
    BY <1>6 DEF Flushed, TypeOK, GoTo, connectionVars, readyVars, sendVars, NotifierIsCurrent, TimersKnowTheirPlace, ThreadIsCurrent, OneThread, IsCurrent
  <2>5. QED
    BY <2>1, <2>2, <2>3, <2>4
<1>7. CASE StartTimer(c)
  <2>1. OneThread'
    BY <1>7 DEF StartTimer, TypeOK, GoTo, connectionVars, readyVars, sendVars, OneThread, IsCurrent
  <2>2. ThreadIsCurrent'
    BY <1>7 DEF StartTimer, TypeOK, GoTo, connectionVars, readyVars, sendVars, ThreadIsCurrent, OneThread, IsCurrent
  <2>3. TimersKnowTheirPlace'
    BY <1>7 DEF StartTimer, TypeOK, GoTo, connectionVars, readyVars, sendVars, TimersKnowTheirPlace, ThreadIsCurrent, OneThread, GenerationsUsed, IsCurrent
  <2>4. NotifierIsCurrent'
    BY <1>7 DEF StartTimer, TypeOK, GoTo, connectionVars, readyVars, sendVars, NotifierIsCurrent, TimersKnowTheirPlace, ThreadIsCurrent, OneThread, IsCurrent
  <2>5. QED
    BY <2>1, <2>2, <2>3, <2>4
<1>8. CASE NotifyAtOnce(c)
  BY <1>8 DEF NotifyAtOnce
<1>9. CASE StartReading(c)
  <2>1. OneThread'
    BY <1>9 DEF StartReading, TypeOK, GoTo, connectionVars, readyVars, sendVars, OneThread, IsCurrent
  <2>2. ThreadIsCurrent'
    BY <1>9 DEF StartReading, TypeOK, GoTo, connectionVars, readyVars, sendVars, ThreadIsCurrent, OneThread, IsCurrent
  <2>3. TimersKnowTheirPlace'
    BY <1>9 DEF StartReading, TypeOK, GoTo, connectionVars, readyVars, sendVars, TimersKnowTheirPlace, ThreadIsCurrent, OneThread, GenerationsUsed, IsCurrent
  <2>4. NotifierIsCurrent'
    BY <1>9 DEF StartReading, TypeOK, GoTo, connectionVars, readyVars, sendVars, NotifierIsCurrent, TimersKnowTheirPlace, ThreadIsCurrent, OneThread, IsCurrent
  <2>5. QED
    BY <2>1, <2>2, <2>3, <2>4
<1>10. CASE EndLoop(c)
  <2>1. OneThread'
    BY <1>10 DEF EndLoop, Announcing, TypeOK, GoTo, connectionVars, readyVars, sendVars, OneThread, IsCurrent
  <2>2. ThreadIsCurrent'
    BY <1>10 DEF EndLoop, Announcing, TypeOK, GoTo, connectionVars, readyVars, sendVars, ThreadIsCurrent, OneThread, IsCurrent
  <2>3. TimersKnowTheirPlace'
    BY <1>10 DEF EndLoop, Announcing, TypeOK, GoTo, connectionVars, readyVars, sendVars, TimersKnowTheirPlace, ThreadIsCurrent, OneThread, GenerationsUsed, IsCurrent
  <2>4. NotifierIsCurrent'
    <3>1. notifying # None => notifying.conn \in Conns
      BY DEF TypeOK, Notifiers
    <3>2. UNCHANGED <<notifying, generation, connection_generation>>
      BY <1>10 DEF EndLoop, readyVars
    <3>3. loop' = [loop EXCEPT ![c] = "ending"]
      BY <1>10 DEF EndLoop, GoTo, ThreadIsCurrent
    <3>4. QED
      BY <3>1, <3>2, <3>3 DEF NotifierIsCurrent, TypeOK
  <2>5. QED
    BY <2>1, <2>2, <2>3, <2>4
<1>11. CASE ClearReady(c)
  <2>1. OneThread'
    BY <1>11 DEF ClearReady, TypeOK, GoTo, connectionVars, readyVars, sendVars, OneThread, IsCurrent
  <2>2. ThreadIsCurrent'
    BY <1>11 DEF ClearReady, TypeOK, GoTo, connectionVars, readyVars, sendVars, ThreadIsCurrent, OneThread, IsCurrent
  <2>3. TimersKnowTheirPlace'
    BY <1>11 DEF ClearReady, TypeOK, GoTo, connectionVars, readyVars, sendVars, TimersKnowTheirPlace, ThreadIsCurrent, OneThread, GenerationsUsed, IsCurrent
  <2>4. NotifierIsCurrent'
    BY <1>11 DEF ClearReady, TypeOK, GoTo, connectionVars, readyVars, sendVars, NotifierIsCurrent, TimersKnowTheirPlace, ThreadIsCurrent, OneThread, IsCurrent
  <2>5. QED
    BY <2>1, <2>2, <2>3, <2>4
<1>12. CASE NotifyRegistered(c)
  <2>1. OneThread'
    BY <1>12 DEF NotifyRegistered, Announcing, TypeOK, GoTo, connectionVars, readyVars, sendVars, OneThread, NotifyEnters, Notifiers, IsCurrent
  <2>2. ThreadIsCurrent'
    BY <1>12 DEF NotifyRegistered, Announcing, TypeOK, GoTo, connectionVars, readyVars, sendVars, ThreadIsCurrent, OneThread, NotifyEnters, Notifiers, IsCurrent
  <2>3. TimersKnowTheirPlace'
    BY <1>12 DEF NotifyRegistered, Announcing, TypeOK, GoTo, connectionVars, readyVars, sendVars, TimersKnowTheirPlace, ThreadIsCurrent, OneThread, GenerationsUsed, NotifyEnters, Notifiers, IsCurrent
  <2>4. NotifierIsCurrent'
    BY <1>12 DEF NotifyRegistered, Announcing, TypeOK, GoTo, connectionVars, readyVars, sendVars, NotifierIsCurrent, TimersKnowTheirPlace, ThreadIsCurrent, OneThread, NotifyEnters, Notifiers, IsCurrent
  <2>5. QED
    BY <2>1, <2>2, <2>3, <2>4
<1>13. CASE TimerFires(c)
  <2>1. OneThread'
    BY <1>13 DEF TimerFires, TypeOK, GoTo, connectionVars, readyVars, sendVars, OneThread, NotifyEnters, Notifiers, IsCurrent
  <2>2. ThreadIsCurrent'
    BY <1>13 DEF TimerFires, TypeOK, GoTo, connectionVars, readyVars, sendVars, ThreadIsCurrent, OneThread, NotifyEnters, Notifiers, IsCurrent
  <2>3. TimersKnowTheirPlace'
    BY <1>13 DEF TimerFires, TypeOK, GoTo, connectionVars, readyVars, sendVars, TimersKnowTheirPlace, ThreadIsCurrent, OneThread, GenerationsUsed, NotifyEnters, Notifiers, IsCurrent
  <2>4. NotifierIsCurrent'
    BY <1>13 DEF TimerFires, TypeOK, GoTo, connectionVars, readyVars, sendVars, NotifierIsCurrent, TimersKnowTheirPlace, ThreadIsCurrent, OneThread, NotifyEnters, Notifiers, IsCurrent
  <2>5. QED
    BY <2>1, <2>2, <2>3, <2>4
<1>14. CASE Notifies(c)
  <2>1. OneThread'
    BY <1>14 DEF Notifies, TypeOK, GoTo, connectionVars, readyVars, sendVars, OneThread, IsCurrent
  <2>2. ThreadIsCurrent'
    BY <1>14 DEF Notifies, TypeOK, GoTo, connectionVars, readyVars, sendVars, ThreadIsCurrent, OneThread, IsCurrent
  <2>3. TimersKnowTheirPlace'
    BY <1>14 DEF Notifies, TypeOK, GoTo, connectionVars, readyVars, sendVars, TimersKnowTheirPlace, ThreadIsCurrent, OneThread, GenerationsUsed, IsCurrent
  <2>4. NotifierIsCurrent'
    BY <1>14 DEF Notifies, TypeOK, GoTo, connectionVars, readyVars, sendVars, NotifierIsCurrent, TimersKnowTheirPlace, ThreadIsCurrent, OneThread, IsCurrent
  <2>5. QED
    BY <2>1, <2>2, <2>3, <2>4
<1>15. CASE CallsBack(c)
  <2>1. UNCHANGED <<loop, generation, connection_generation, connected, notifying, timer>>
    BY <1>15 DEF CallsBack, connectionVars
  <2>2. QED
    BY <2>1 DEF OneThread, ThreadIsCurrent, TimersKnowTheirPlace, NotifierIsCurrent, IsCurrent
<1>16. QED
  BY <1>1, <1>2, <1>3, <1>4, <1>5, <1>6, <1>7, <1>8, <1>9, <1>10, <1>11, <1>12, <1>13, <1>14, <1>15 DEF ConnectionStep, LoopStep

(* A sender reads the connection and changes none of it.                     *)
LEMMA SendStep ==
    ASSUME IInv, NEW m \in Messages, Send(m), UNCHANGED server_mode
    PROVE  IInv'
<1>1. TypeOK'
  BY SendTypes DEF IInv
<1>2. UNCHANGED <<server_mode, loop, generation, connection_generation, connected, ready,
                  notifying, timer>>
  BY DEF Send, Commit, SendNow, TimesOut, QueuePending, connectionVars, readyVars
<1>3. ReadyIsConnected' /\ GenerationsUsed' /\ ConnectedIsCurrent'
  BY <1>2 DEF IInv, ReadyIsConnected, ReadyLoops, GenerationsUsed, ConnectedIsCurrent
<1>4. OneThread' = OneThread /\ ThreadIsCurrent' = ThreadIsCurrent
  BY <1>2 DEF OneThread, ThreadIsCurrent
<1>5. TimersKnowTheirPlace' = TimersKnowTheirPlace /\ NotifierIsCurrent' = NotifierIsCurrent
  BY <1>2 DEF TimersKnowTheirPlace, NotifierIsCurrent, IsCurrent
<1>6. QED
  BY <1>1, <1>3, <1>4, <1>5 DEF IInv, ClientInv

(* Every step keeps the invariant. *)
LEMMA NextInv == IInv /\ [Next]_<<server_mode, vars>> => IInv'
<1> SUFFICES ASSUME IInv, [Next]_<<server_mode, vars>> PROVE IInv'
  OBVIOUS
<1>1. CASE UNCHANGED <<server_mode, vars>>
  <2>1. UNCHANGED <<server_mode, socket, loop, reads, ws, connection_generation, generation,
                    connected, ready, notifying, calling, announced, timer, pending,
                    message>>
    BY <1>1 DEF vars, connectionVars, readyVars, sendVars
  <2>2. TypeOK' /\ ReadyIsConnected' /\ GenerationsUsed' /\ ConnectedIsCurrent'
    BY <2>1 DEF IInv, TypeOK, ReadyIsConnected, ReadyLoops, GenerationsUsed, ConnectedIsCurrent
  <2>3. ClientInv'
    BY <2>1 DEF IInv, ClientInv, OneThread, ThreadIsCurrent, TimersKnowTheirPlace,
                NotifierIsCurrent, IsCurrent
  <2>4. QED
    BY <2>2, <2>3 DEF IInv
<1>2. ASSUME NEW c \in Conns, ConnectionStep(c), UNCHANGED server_mode
      PROVE  IInv'
  <2>1. TypeOK' /\ ReadyIsConnected' /\ GenerationsUsed' /\ ConnectedIsCurrent'
    BY <1>2, ConnectionTypes, ReadyStep, GenerationStep, ConnectedStep DEF IInv
  <2>2. ClientInv'
    BY <1>2, ClientStep DEF ClientInv
  <2>3. QED
    BY <2>1, <2>2 DEF IInv
<1>3. ASSUME NEW m \in Messages, Send(m), UNCHANGED server_mode
      PROVE  IInv'
  BY <1>3, SendStep
<1>4. QED
  BY <1>1, <1>2, <1>3 DEF Next

(* Every reachable state satisfies the invariant. *)
THEOREM Invariance == Spec => []IInv
<1>1. IInv /\ [Next]_<<server_mode, vars>> => IInv'
  BY NextInv
<1>2. QED
  BY <1>1, InitInv, PTL DEF Spec

(* Whatever the threads do, the connection object keeps its types; above all *)
(* its queue never exceeds HORUS_WEBRTC_SIGNAL_PENDING_MAX.                  *)
THEOREM TypeCorrect == Spec => []TypeOK
<1>1. IInv => TypeOK
  BY DEF IInv
<1>2. QED
  BY <1>1, Invariance, PTL

(* Readiness does not outlive the connection it was given for: while it      *)
(* stands, the thread of the latest connection is about to take it back, or  *)
(* that connection is up, and a client's thread reads it.  A server may keep *)
(* the readiness of an older connection past a flush that failed.            *)
THEOREM ReadinessEnds == Spec => []ReadyIsConnected
<1>1. IInv => ReadyIsConnected
  BY DEF IInv
<1>2. QED
  BY <1>1, Invariance, PTL

(* Only the thread that holds ready_lock announces, and what it holds it for *)
(* is the current connection.                                                *)
LEMMA AnnouncingStep ==
    ASSUME IInv, [Next]_<<server_mode, vars>>, ~server_mode, NEW n \in calling' \ calling
    PROVE  generation[n.conn] = connection_generation /\ connected
<1>1. PICK d \in Conns : Notifies(d)
  BY DEF Next, ConnectionStep, LoopStep, Send, Open, SocketCloses, BeginConnection,
         RegistrationFails, FlushOne, Flushed, StartTimer, NotifyAtOnce, StartReading, EndLoop,
         ClearReady, NotifyRegistered, TimerFires, CallsBack, Commit, SendNow, TimesOut, QueuePending,
         vars, readyVars
<1>2. n = notifying /\ connected /\ notifying # None
  BY <1>1 DEF Notifies
<1>3. generation[notifying.conn] = connection_generation
  BY <1>2 DEF IInv, ClientInv, NotifierIsCurrent
<1>4. QED
  BY <1>2, <1>3

(* A client becomes ready for nothing but the connection it has, although a  *)
(* timer may fire, and a registration be accepted, for one it has just lost. *)
THEOREM ClientsAnnounceCurrent == Spec => OnlyCurrentAnnounced
<1>1. IInv /\ [Next]_<<server_mode, vars>>
      => [~server_mode =>
            \A n \in calling' \ calling :
                generation[n.conn] = connection_generation /\ connected]_vars
  BY AnnouncingStep
<1>2. QED
  BY <1>1, Invariance, PTL DEF Spec, OnlyCurrentAnnounced

==============================================================================
