-------------------------- MODULE SignalRelayProofs --------------------------
(***************************************************************************)
(* The relay's room, for any number of connections of any sessions.        *)
(*                                                                         *)
(* Membership: OpenMeansPeer and PendingForAbsent are inductive given the  *)
(* types of the variables they speak of; what notices and queues contain   *)
(* plays no part.  Types and queues: what a handler keeps of a queue is a  *)
(* selection of its places, by induction over the queue, so that whatever  *)
(* the relay expires, coalesces, drops or delivers, the order within a     *)
(* session stays.  Presence: what is believed of the room agrees with it   *)
(* or is about to be mended by a handler that has yet to speak.            *)
(***************************************************************************)
EXTENDS SignalRelay, TLAPS, NaturalsInduction, WellFoundedInduction

RoomType ==
    /\ link \in [Conns -> Links]
    /\ handler \in [Conns -> Handlers]
    /\ peers \in [Roles -> Conns \cup {None}]
    /\ pending = [r \in Roles |-> pending[r]]

IInv == RoomType /\ OpenMeansPeer /\ PendingForAbsent

(* Every connection has one of the two roles, and the other is another.      *)
LEMMA RoleFacts ==
    \A c \in Conns : /\ Role(c) \in Roles
                     /\ target_role(Role(c)) \in Roles
                     /\ target_role(Role(c)) # Role(c)
                     /\ c # None
BY RelayAssumption DEF Role, Roles, target_role

(* Only a connection's own status changes when the relay closes it.          *)
LEMMA ClosingFacts ==
    ASSUME RoomType, NEW c
    PROVE  /\ Closing(c) \in [Conns -> Links]
           /\ \A d \in Conns : Closing(c)[d] = "open" => link[d] = "open" /\ d # c
BY DEF Closing, RoomType, Links

-----------------------------------------------------------------------------
(* Entering an empty room. *)
LEMMA RegisterStep ==
    ASSUME IInv, NEW c \in Conns, Register(c)
    PROVE  IInv'
<1>1. Role(c) \in Roles /\ c # None
  BY RoleFacts
<1>2. /\ peers' = [peers EXCEPT ![Role(c)] = c]
      /\ pending' = [pending EXCEPT ![Role(c)] = <<>>]
      /\ peers[Role(c)] \in {None, c}
      /\ link' = link
  BY DEF Register, EnterRoom
<1>3. \/ link[c] = "open" /\ handler' = [handler EXCEPT ![c] = "delivering"]
      \/ link[c] # "open" /\ handler' = [handler EXCEPT ![c] = "leaving"]
  BY DEF Register, Accept
<1>4. RoomType'
  BY <1>1, <1>2, <1>3 DEF IInv, RoomType, Handlers
<1>5. OpenMeansPeer'
  BY <1>1, <1>2, <1>3, RoleFacts DEF IInv, RoomType, OpenMeansPeer, Registered
<1>6. PendingForAbsent'
  BY <1>1, <1>2 DEF IInv, RoomType, PendingForAbsent
<1>7. QED
  BY <1>4, <1>5, <1>6 DEF IInv

(* Entering a room in place of an older connection. *)
LEMMA RegisterReplacingStep ==
    ASSUME IInv, NEW c \in Conns, RegisterReplacing(c)
    PROVE  IInv'
<1> DEFINE old == peers[Role(c)]
<1>1. Role(c) \in Roles /\ c # None
  BY RoleFacts
<1>2. /\ peers' = [peers EXCEPT ![Role(c)] = c]
      /\ pending' = [pending EXCEPT ![Role(c)] = <<>>]
      /\ link' = Closing(old)
      /\ handler' = [handler EXCEPT ![c] = "replacing"]
  BY DEF RegisterReplacing, EnterRoom
<1>3. /\ link' \in [Conns -> Links]
      /\ \A d \in Conns : link'[d] = "open" => link[d] = "open" /\ d # old
  BY <1>2, ClosingFacts DEF IInv
<1>4. RoomType'
  BY <1>1, <1>2, <1>3 DEF IInv, RoomType, Handlers
<1>5. OpenMeansPeer'
  <2> SUFFICES ASSUME NEW d \in Conns
               PROVE  /\ link'[d] = "open" /\ handler'[d] \in Registered => peers'[Role(d)] = d
                      /\ peers'[Role(d)] = d => handler'[d] \in Registered \cup {"ejecting", "leaving"}
    BY DEF OpenMeansPeer
  <2>1. CASE d = c
    BY <1>1, <1>2, <2>1 DEF IInv, RoomType, Registered
  <2>2. CASE d # c /\ Role(d) = Role(c)
    BY <1>1, <1>2, <1>3, <2>2 DEF IInv, RoomType, OpenMeansPeer
  <2>3. CASE Role(d) # Role(c)
    BY <1>1, <1>2, <1>3, <2>3, RoleFacts DEF IInv, RoomType, OpenMeansPeer
  <2>4. QED
    BY <2>1, <2>2, <2>3
<1>6. PendingForAbsent'
  BY <1>1, <1>2 DEF IInv, RoomType, PendingForAbsent
<1>7. QED
  BY <1>4, <1>5, <1>6 DEF IInv

(* A handler that goes on within its registration, ejects its connection or  *)
(* fails: the room stays as it is and no connection is opened.               *)
LEMMA StatusStep ==
    ASSUME IInv, NEW c \in Conns, UNCHANGED <<peers, pending>>,
           link' \in [Conns -> Links],
           \A d \in Conns : link'[d] = "open" => link[d] = "open",
           NEW status \in Handlers, handler' = [handler EXCEPT ![c] = status],
           \/ status \in Registered /\ handler[c] \in Registered
           \/ status = "leaving" /\ handler[c] \in Registered
           \/ /\ status = "ejecting"
              /\ handler[c] \in {"fresh", "reading"}
    PROVE  IInv'
<1>1. RoomType'
  BY DEF IInv, RoomType
<1>2. OpenMeansPeer'
  BY RoleFacts DEF IInv, RoomType, OpenMeansPeer, Registered
<1>3. PendingForAbsent'
  BY DEF IInv, PendingForAbsent
<1>4. QED
  BY <1>1, <1>2, <1>3 DEF IInv

(* The finally clause. *)
LEMMA UnregisterStep ==
    ASSUME IInv, NEW c \in Conns, Unregister(c)
    PROVE  IInv'
<1>1. Role(c) \in Roles /\ c # None
  BY RoleFacts
<1>2. /\ handler' = [handler EXCEPT ![c] = "done"]
      /\ link' = Closing(c)
      /\ pending' = pending
      /\ peers' = IF peers[Role(c)] = c THEN [peers EXCEPT ![Role(c)] = None] ELSE peers
  BY DEF Unregister
<1>3. /\ link' \in [Conns -> Links]
      /\ \A d \in Conns : link'[d] = "open" => link[d] = "open" /\ d # c
  BY <1>2, ClosingFacts DEF IInv
<1>4. RoomType'
  BY <1>1, <1>2, <1>3 DEF IInv, RoomType, Handlers
<1>5. OpenMeansPeer'
  <2> SUFFICES ASSUME NEW d \in Conns
               PROVE  /\ link'[d] = "open" /\ handler'[d] \in Registered => peers'[Role(d)] = d
                      /\ peers'[Role(d)] = d => handler'[d] \in Registered \cup {"ejecting", "leaving"}
    BY DEF OpenMeansPeer
  <2>1. Role(d) \in Roles /\ d # None
    BY RoleFacts
  <2>2. CASE d = c
    BY <1>1, <1>2, <2>2 DEF IInv, RoomType, Registered
  <2>3. CASE d # c
    BY <1>1, <1>2, <1>3, <2>1, <2>3 DEF IInv, RoomType, OpenMeansPeer
  <2>4. QED
    BY <2>2, <2>3
<1>6. PendingForAbsent'
  BY <1>1, <1>2 DEF IInv, RoomType, PendingForAbsent
<1>7. QED
  BY <1>4, <1>5, <1>6 DEF IInv

(* Who is in the room, and which queues are in use, for any connections.     *)
THEOREM Invariance == Spec => []IInv
<1>1. Init => IInv
  BY RelayAssumption DEF Init, IInv, RoomType, Links, Handlers, OpenMeansPeer, PendingForAbsent,
     Registered, Role, Roles
<1>2. IInv /\ [Next]_vars => IInv'
  <2> SUFFICES ASSUME IInv, [Next]_vars PROVE IInv'
    OBVIOUS
  <2>1. CASE UNCHANGED vars
    BY <2>1 DEF vars, IInv, RoomType, OpenMeansPeer, PendingForAbsent
  <2> SUFFICES ASSUME NEW c \in Conns,
                      \/ Connect(c) \/ ConnectionLost(c) \/ CloseCompletes(c)
                      \/ Register(c) \/ RegisterReplacing(c)
                      \/ HandlerStep(c)
                      \/ \E signal \in SignalsOf(c) : Queue(c, signal)
                      \/ Forward(c) \/ ForwardFails(c) \/ Eject(c)
               PROVE  IInv'
    BY <2>1 DEF Next
  <2>2. Role(c) \in Roles /\ target_role(Role(c)) \in Roles /\ c # None
    BY RoleFacts
  <2>3. CASE Connect(c)
    <3>1. handler[c] = "none" /\ UNCHANGED <<peers, pending>>
      BY <2>3 DEF Connect
    <3>2. \A r \in Roles : peers[r] = c => Role(c) # r
      BY <3>1 DEF IInv, OpenMeansPeer, Registered
    <3>3. RoomType'
      BY <2>3 DEF Connect, IInv, RoomType, Links, Handlers
    <3>4. OpenMeansPeer'
      BY <2>3, <3>1, <3>2, RoleFacts DEF Connect, IInv, RoomType, OpenMeansPeer, Registered
    <3>5. QED
      BY <3>1, <3>3, <3>4 DEF IInv, PendingForAbsent
  <2>4. CASE ConnectionLost(c) \/ CloseCompletes(c)
    <3>1. UNCHANGED <<handler, peers, pending>> /\ link' = [link EXCEPT ![c] = "closed"]
      BY <2>4 DEF ConnectionLost, CloseCompletes
    <3>2. RoomType'
      BY <3>1 DEF IInv, RoomType, Links
    <3>3. OpenMeansPeer'
      BY <3>1 DEF IInv, RoomType, OpenMeansPeer
    <3>4. QED
      BY <3>1, <3>2, <3>3 DEF IInv, PendingForAbsent
  <2>5. CASE Register(c)
    BY <2>5, RegisterStep
  <2>6. CASE RegisterReplacing(c)
    BY <2>6, RegisterReplacingStep
  <2>7. CASE ReplacedClosed(c)
    <3>1. /\ UNCHANGED <<peers, pending, link>> /\ handler[c] = "replacing"
          /\ \/ handler' = [handler EXCEPT ![c] = "delivering"]
             \/ handler' = [handler EXCEPT ![c] = "leaving"]
      BY <2>7 DEF ReplacedClosed, Accept
    <3>2. QED
      BY <3>1, StatusStep DEF IInv, RoomType, Handlers, Registered
  <2>8. CASE Deliver(c)
    <3>1. /\ UNCHANGED <<peers, pending>> /\ handler[c] = "delivering"
          /\ \/ link' = link /\ handler' = [handler EXCEPT ![c] = "reading"]
             \/ link' = Closing(notify[c]) /\ handler' = [handler EXCEPT ![c] = "resetting"]
      BY <2>8 DEF Deliver
    <3>2. link' \in [Conns -> Links] /\ \A d \in Conns : link'[d] = "open" => link[d] = "open"
      BY <3>1, ClosingFacts DEF IInv, RoomType
    <3>3. QED
      BY <3>1, <3>2, StatusStep DEF Handlers, Registered
  <2>9. CASE DeliveryFails(c) \/ ForwardFails(c)
    <3>1. /\ UNCHANGED <<peers, pending, link>> /\ handler[c] \in {"delivering", "reading"}
          /\ handler' = [handler EXCEPT ![c] = "leaving"]
      BY <2>9 DEF DeliveryFails, ForwardFails, Sends
    <3>2. QED
      BY <3>1, StatusStep DEF IInv, RoomType, Handlers, Registered
  <2>10. CASE ResetDone(c)
    <3>1. /\ UNCHANGED <<peers, pending, link>> /\ handler[c] = "resetting"
          /\ handler' = [handler EXCEPT ![c] = "reading"]
      BY <2>10 DEF ResetDone
    <3>2. QED
      BY <3>1, StatusStep DEF IInv, RoomType, Handlers, Registered
  <2>11. CASE Unregister(c)
    BY <2>11, UnregisterStep
  <2>12. ASSUME NEW signal \in SignalsOf(c), Queue(c, signal)
         PROVE  IInv'
    <3> DEFINE target == target_role(Role(c))
    <3>1. PICK q : pending' = [pending EXCEPT ![target] = q]
      BY <2>12 DEF Queue
    <3>2. peers[target] = None /\ UNCHANGED <<link, handler, peers>>
      BY <2>12 DEF Queue, Counterpart
    <3>3. PendingForAbsent'
      BY <2>2, <3>1, <3>2 DEF IInv, RoomType, PendingForAbsent
    <3>4. RoomType'
      BY <2>2, <3>1, <3>2 DEF IInv, RoomType
    <3>5. OpenMeansPeer'
      BY <3>2 DEF IInv, OpenMeansPeer
    <3>6. QED
      BY <3>3, <3>4, <3>5 DEF IInv
  <2>13. CASE Forward(c)
    BY <2>13 DEF Forward, IInv, RoomType, OpenMeansPeer, PendingForAbsent
  <2>14. CASE Eject(c)
    <3>1. /\ UNCHANGED <<peers, pending>> /\ handler[c] \in {"fresh", "reading"}
          /\ link' = Closing(c) /\ handler' = [handler EXCEPT ![c] = "ejecting"]
      BY <2>14 DEF Eject
    <3>2. link' \in [Conns -> Links] /\ \A d \in Conns : link'[d] = "open" => link[d] = "open"
      BY <3>1, ClosingFacts DEF IInv
    <3>3. QED
      BY <3>1, <3>2, StatusStep DEF Handlers
  <2>15. QED
    BY <2>3, <2>4, <2>5, <2>6, <2>7, <2>8, <2>9, <2>10, <2>11, <2>12, <2>13, <2>14 DEF HandlerStep
<1>3. QED
  BY <1>1, <1>2, PTL DEF Spec

(* An open registered connection is the one its role's signals go to, and a  *)
(* role is held by no connection whose handler has ended.                    *)
THEOREM RoomIsConsistent == Spec => []OpenMeansPeer
<1>1. IInv => OpenMeansPeer
  BY DEF IInv
<1>2. QED
  BY <1>1, Invariance, PTL

(* No signal is left in the queue of a role that is registered.              *)
THEOREM QueuesAreForAbsentRoles == Spec => []PendingForAbsent
<1>1. IInv => PendingForAbsent
  BY DEF IInv
<1>2. QED
  BY <1>1, Invariance, PTL

-----------------------------------------------------------------------------
(* The queues: what Kept keeps, by induction over the queue. *)

(* Induction over the numbers, for a set: the library's theorem takes an    *)
(* operator, and is of no use to the provers.                               *)
LEMMA Induction ==
    ASSUME NEW T \in SUBSET Nat, 0 \in T, \A n \in T : n + 1 \in T
    PROVE  T = Nat
<1> SUFFICES ASSUME Nat \ T # {} PROVE FALSE
  OBVIOUS
<1>1. PICK x \in Nat \ T : \A y \in Nat \ T : ~(<<y, x>> \in OpToRel(<, Nat))
  <2>1. IsWellFoundedOn(OpToRel(<, Nat), Nat)
    BY NatLessThanWellFounded
  <2>2. QED
    BY <2>1, WFMin
<1>2. x \in Nat \ T
  OBVIOUS
<1>3. x - 1 \in Nat \ T
  BY <1>2
<1>4. <<x - 1, x>> \in OpToRel(<, Nat)
  BY <1>2, <1>3 DEF OpToRel
<1>5. QED
  BY <1>1, <1>3, <1>4

(* The recursion of Kept, as an equation at one place of the queue. *)
Filtering(kept, queue, S, n) ==
    kept[n] = IF n = 0 THEN <<>>
              ELSE IF queue[n] \in S THEN Append(kept[n - 1], queue[n]) ELSE kept[n - 1]

(* The recursion has a solution on every initial part of the queue.        *)
LEMMA FilteringExists ==
    ASSUME NEW queue, NEW S, NEW n \in Nat
    PROVE  \E kept : \A i \in 0..n : Filtering(kept, queue, S, i)
<1> DEFINE T == {m \in Nat : \E kept : \A i \in 0..m : Filtering(kept, queue, S, i)}
<1>1. 0 \in T
  <2>1. \A i \in 0..0 : Filtering([j \in 0..0 |-> <<>>], queue, S, i)
    BY DEF Filtering
  <2>2. QED
    BY <2>1
<1>2. ASSUME NEW m \in T PROVE m + 1 \in T
  <2>1. PICK g : \A i \in 0..m : Filtering(g, queue, S, i)
    OBVIOUS
  <2> DEFINE last == IF queue[m + 1] \in S THEN Append(g[m], queue[m + 1]) ELSE g[m]
             h == [i \in 0..m + 1 |-> IF i = m + 1 THEN last ELSE g[i]]
  <2>2. \A i \in 0..m : h[i] = g[i]
    OBVIOUS
  <2>3. h[m + 1] = last
    OBVIOUS
  <2> HIDE DEF h
  <2>4. ASSUME NEW i \in 0..m + 1 PROVE Filtering(h, queue, S, i)
    <3>1. CASE i = m + 1
      BY <2>2, <2>3, <3>1 DEF Filtering
    <3>2. CASE i # m + 1
      <4>1. i \in 0..m /\ (i # 0 => i - 1 \in 0..m)
        BY <3>2
      <4>2. QED
        BY <2>1, <2>2, <4>1 DEF Filtering
    <3>3. QED
      BY <3>1, <3>2
  <2>5. QED
    BY <2>4
<1> HIDE DEF T
<1>3. T = Nat
  BY <1>1, <1>2, Induction DEF T
<1>4. QED
  BY <1>3 DEF T

(* Kept(queue, S) is the last value of a function that obeys the recursion. *)
LEMMA KeptIsFiltered ==
    ASSUME NEW queue, NEW S, Len(queue) \in Nat
    PROVE  \E kept : /\ \A n \in 0..Len(queue) : Filtering(kept, queue, S, n)
                     /\ Kept(queue, S) = kept[Len(queue)]
<1> DEFINE Is(g) == g = [n \in 0..Len(queue) |->
                           IF n = 0 THEN <<>>
                           ELSE IF queue[n] \in S THEN Append(g[n - 1], queue[n]) ELSE g[n - 1]]
           kept == CHOOSE g : Is(g)
<1>1. Kept(queue, S) = kept[Len(queue)]
  BY DEF Kept
<1>2. PICK g : \A i \in 0..Len(queue) : Filtering(g, queue, S, i)
  BY FilteringExists
<1> DEFINE h == [i \in 0..Len(queue) |-> g[i]]
<1>3. \A i \in 0..Len(queue) : /\ h[i] = g[i] 
                               /\ i # 0 => h[i - 1] = g[i - 1]
  OBVIOUS
<1>4. Is(h)
  <2> DEFINE f == [n \in 0..Len(queue) |->
                           IF n = 0 THEN <<>>
                           ELSE IF queue[n] \in S THEN Append(h[n - 1], queue[n]) ELSE h[n - 1]]
  <2>1. \A i \in 0..Len(queue) : f[i] = g[i]
    <3> HIDE DEF h
    <3>1. QED
    BY <1>2, <1>3 DEF Filtering
  <2> HIDE DEF f
  <2>2. f = [i \in 0..Len(queue) |-> f[i]]
    BY DEF f
  <2>3. h = f
    BY <2>1, <2>2
  <2>4. QED
    BY <2>3 DEF f
<1>5. Is(kept)
  <2> HIDE DEF Is
  <2> QED
  BY <1>4
<1> HIDE DEF kept
<1>6. \A n \in 0..Len(queue) : Filtering(kept, queue, S, n)
  BY <1>5 DEF Filtering
<1>7. QED
  BY <1>1, <1>6


(* Sequence s consists of members of S that the first n elements of the      *)
(* queue have at increasing places.                                          *)
Increasing(at, m) == \A j, k \in 1..m : j < k => at[j] < at[k]

Picked(s, queue, S, at) == \A k \in 1..Len(s) : s[k] = queue[at[k]] /\ queue[at[k]] \in S

Selection(s, queue, S, n) ==
    /\ Len(s) <= n
    /\ \E at \in [1..Len(s) -> 1..n] : Picked(s, queue, S, at) /\ Increasing(at, Len(s))

(* Of no elements, the empty sequence is a selection.                       *)
LEMMA EmptySelection ==
    ASSUME NEW queue, NEW S
    PROVE  Selection(<<>>, queue, S, 0)
<1> DEFINE at == [k \in 1..Len(<<>>) |-> 1]
<1>1. at \in [1..Len(<<>>) -> 1..0]
  OBVIOUS
<1>2. Picked(<<>>, queue, S, at) /\ Increasing(at, Len(<<>>))
  BY DEF Picked, Increasing
<1>3. Len(<<>>) <= 0
  OBVIOUS
<1> HIDE DEF at
<1>4. QED
  BY <1>1, <1>2, <1>3 DEF Selection

(* One element more is skipped, or appended if it is in S.                  *)
LEMMA SelectionGrows ==
    ASSUME NEW E, NEW queue \in Seq(E), NEW S, NEW s \in Seq(E), NEW n \in Nat,
           n + 1 <= Len(queue), Selection(s, queue, S, n)
    PROVE  /\ Selection(s, queue, S, n + 1)
           /\ queue[n + 1] \in S => Selection(Append(s, queue[n + 1]), queue, S, n + 1)
<1> DEFINE m == Len(s)
           t == Append(s, queue[n + 1])
<1>1. /\ m \in Nat /\ m <= n
      /\ t \in Seq(E) /\ Len(t) = m + 1
      /\ t[m + 1] = queue[n + 1] /\ \A k \in 1..m : t[k] = s[k]
  <2>1. queue[n + 1] \in E
    OBVIOUS
  <2>2. QED
    BY <2>1 DEF Selection
<1>2. PICK at \in [1..m -> 1..n] : Picked(s, queue, S, at) /\ Increasing(at, m)
  BY DEF Selection
<1> DEFINE to == [k \in 1..m + 1 |-> IF k = m + 1 THEN n + 1 ELSE at[k]]
<1>3. /\ \A k \in 1..m : to[k] = at[k] /\ at[k] \in 1..n
      /\ to[m + 1] = n + 1
      /\ to \in [1..m + 1 -> 1..n + 1]
  <2> HIDE DEF m
  <2> QED
    BY <1>1
<1>4. Selection(s, queue, S, n + 1)
  <2>1. at \in [1..m -> 1..n + 1]
    <3> HIDE DEF m
    <3> QED
    BY <1>1
  <2>2. m <= n + 1
    <3> HIDE DEF m
    <3> QED
    BY <1>1
  <2>3. QED
    BY <1>2, <2>1, <2>2 DEF Selection
<1>5. ASSUME queue[n + 1] \in S PROVE Selection(t, queue, S, n + 1)
  <2>1. Picked(t, queue, S, to)
    <3>1. \A k \in 1..m : t[k] = queue[to[k]] /\ queue[to[k]] \in S
      BY <1>1, <1>2, <1>3 DEF Picked
    <3> HIDE DEF m, t, to
    <3>2. QED
      BY <1>1, <1>3, <1>5, <3>1 DEF Picked
  <2>2. Increasing(to, m + 1)
    <3> HIDE DEF m, t, to
    <3>1. ASSUME NEW j \in 1..m + 1, NEW k \in 1..m + 1, j < k PROVE to[j] < to[k]
      <4>1. j \in 1..m
        BY <1>1, <3>1
      <4>2. CASE k = m + 1
        BY <1>1, <1>3, <4>1, <4>2
      <4>3. CASE k # m + 1
        <5>1. k \in 1..m
          BY <1>1, <4>3
        <5>2. QED
          BY <1>2, <1>3, <3>1, <4>1, <5>1 DEF Increasing
      <4>4. QED
        BY <4>2, <4>3
    <3>2. QED
      BY <3>1 DEF Increasing
  <2>3. m + 1 <= n + 1
    <3> HIDE DEF m
    <3> QED
    BY <1>1
  <2> HIDE DEF m, t, to
  <2>4. QED
    BY <1>1, <1>3, <2>1, <2>2, <2>3 DEF Selection
<1>6. QED
  BY <1>4, <1>5

(* What a handler keeps of a queue is some of its signals, all in S, in     *)
(* their order.                                                             *)
LEMMA KeptFacts ==
    ASSUME NEW E, NEW queue \in Seq(E), NEW S
    PROVE  /\ Kept(queue, S) \in Seq(E)
           /\ Selection(Kept(queue, S), queue, S, Len(queue))
<1>1. PICK kept : /\ \A n \in 0..Len(queue) : Filtering(kept, queue, S, n)
                  /\ Kept(queue, S) = kept[Len(queue)]
  BY KeptIsFiltered
<1> DEFINE T == {n \in Nat : n <= Len(queue) =>
                       kept[n] \in Seq(E) /\ Selection(kept[n], queue, S, n)}
<1>2. 0 \in T
  <2>1. kept[0] = <<>>
    BY <1>1 DEF Filtering
  <2>2. <<>> \in Seq(E)
    OBVIOUS
  <2>3. QED
    BY <2>1, <2>2, EmptySelection
<1>3. ASSUME NEW n \in T PROVE n + 1 \in T
  <2>1. n \in Nat
    OBVIOUS
  <2>2. ASSUME n + 1 <= Len(queue)
        PROVE  kept[n + 1] \in Seq(E) /\ Selection(kept[n + 1], queue, S, n + 1)
    <3>1. kept[n] \in Seq(E) /\ Selection(kept[n], queue, S, n)
      BY <2>1, <2>2
    <3>2. kept[n + 1] = IF queue[n + 1] \in S THEN Append(kept[n], queue[n + 1]) ELSE kept[n]
      BY <1>1, <2>1, <2>2 DEF Filtering
    <3>3. queue[n + 1] \in E
      BY <2>1, <2>2
    <3>4. /\ Selection(kept[n], queue, S, n + 1)
          /\ queue[n + 1] \in S => Selection(Append(kept[n], queue[n + 1]), queue, S, n + 1)
      BY <2>1, <2>2, <3>1, SelectionGrows
    <3>5. QED
      BY <3>1, <3>2, <3>3, <3>4
  <2>3. QED
    BY <2>1, <2>2
<1>4. T = Nat
  <2> HIDE DEF T
  <2> QED
    BY <1>2, <1>3, Induction DEF T
<1>5. Len(queue) \in T /\ Len(queue) \in Nat
  BY <1>4
<1>6. QED
  BY <1>1, <1>5

(* A suffix is the queue from some place on.                                *)
LEMMA SuffixFacts ==
    ASSUME NEW E, NEW queue \in Seq(E), NEW s \in Suffixes(queue)
    PROVE  /\ s \in Seq(E)
           /\ \E d \in Nat : /\ Len(s) + d = Len(queue)
                             /\ \A k \in 1..Len(s) : s[k] = queue[k + d]
<1>1. PICK i \in 1..Len(queue) + 1 : s = SubSeq(queue, i, Len(queue))
  BY DEF Suffixes
<1>2. /\ s \in Seq(E)
      /\ Len(s) = Len(queue) + 1 - i
      /\ \A k \in 1..Len(s) : s[k] = queue[k + (i - 1)]
  BY <1>1
<1>3. Len(s) + (i - 1) = Len(queue) /\ i - 1 \in Nat
  BY <1>2
<1>4. QED
  BY <1>2, <1>3

(* A description supersedes nothing that is in front of it.                 *)
Latest(queue) ==
    \A i, j \in 1..Len(queue) :
        i < j /\ queue[j].type = "description" => ~Superseded(queue[i], queue[j])

(* Dropping the oldest signals leaves the queue in order.                   *)
LEMMA SuffixLatest ==
    ASSUME NEW queue \in Seq(Signal), NEW s \in Suffixes(queue), Latest(queue)
    PROVE  Latest(s)
<1>1. PICK d \in Nat : /\ Len(s) + d = Len(queue)
                       /\ \A k \in 1..Len(s) : s[k] = queue[k + d]
  BY SuffixFacts
<1>2. s \in Seq(Signal)
  BY SuffixFacts
<1>3. ASSUME NEW i \in 1..Len(s), NEW j \in 1..Len(s), i < j, s[j].type = "description"
      PROVE  ~Superseded(s[i], s[j])
  <2>1. i + d \in 1..Len(queue) /\ j + d \in 1..Len(queue) /\ i + d < j + d
    BY <1>1, <1>2, <1>3
  <2>2. s[i] = queue[i + d] /\ s[j] = queue[j + d]
    BY <1>1
  <2>3. QED
    BY <1>3, <2>1, <2>2 DEF Latest
<1>4. QED
  BY <1>3 DEF Latest

(* So does keeping some of them.                                            *)
LEMMA KeptLatest ==
    ASSUME NEW queue \in Seq(Signal), NEW S, Latest(queue)
    PROVE  Latest(Kept(queue, S))
<1> DEFINE s == Kept(queue, S)
<1>1. s \in Seq(Signal) /\ Selection(s, queue, S, Len(queue))
  BY KeptFacts
<1> HIDE DEF s
<1>2. PICK at \in [1..Len(s) -> 1..Len(queue)] :
          Picked(s, queue, S, at) /\ Increasing(at, Len(s))
  BY <1>1 DEF Selection
<1>3. ASSUME NEW i \in 1..Len(s), NEW j \in 1..Len(s), i < j, s[j].type = "description"
      PROVE  ~Superseded(s[i], s[j])
  <2>1. at[i] \in 1..Len(queue) /\ at[j] \in 1..Len(queue) /\ at[i] < at[j]
    BY <1>1, <1>2, <1>3 DEF Increasing
  <2>2. s[i] = queue[at[i]] /\ s[j] = queue[at[j]]
    BY <1>2 DEF Picked
  <2>3. QED
    BY <1>3, <2>1, <2>2 DEF Latest
<1>4. QED
  BY <1>3 DEF Latest, s

(* A queue that has taken a signal is within its bound, and still holds the *)
(* latest negotiation only.                                                 *)
LEMMA EnqueuedFacts ==
    ASSUME NEW queue \in Seq(Signal), NEW signal \in Signal, NEW q \in Enqueued(queue, signal)
    PROVE  /\ q \in Seq(Signal)
           /\ Len(q) <= MaxPending
           /\ Latest(queue) => Latest(q)
<1>1. Len(q) <= MaxPending
  BY DEF Enqueued
<1>2. PICK fresh \in Suffixes(queue) : q \in Suffixes(Append(Coalesce(fresh, signal), signal))
  BY DEF Enqueued
<1> DEFINE rest == Coalesce(fresh, signal)
           others == {m \in Signal : ~Superseded(m, signal)}
<1>3. fresh \in Seq(Signal) /\ (Latest(queue) => Latest(fresh))
  BY SuffixFacts, SuffixLatest
<1>4. /\ rest \in Seq(Signal)
      /\ Latest(fresh) => Latest(rest)
      /\ signal.type = "description" => \A k \in 1..Len(rest) : ~Superseded(rest[k], signal)
  <2>1. CASE signal.type # "description"
    BY <1>3, <2>1 DEF Coalesce
  <2>2. CASE signal.type = "description"
    <3>1. rest = Kept(fresh, others)
      BY <2>2 DEF Coalesce
    <3> HIDE DEF rest
    <3>2. rest \in Seq(Signal) /\ Selection(rest, fresh, others, Len(fresh))
      BY <1>3, <3>1, KeptFacts
    <3>3. Latest(fresh) => Latest(rest)
      BY <1>3, <3>1, KeptLatest
    <3>4. \A k \in 1..Len(rest) : rest[k] \in others
      BY <3>2 DEF Selection, Picked
    <3>5. QED
      BY <3>2, <3>3, <3>4
  <2>3. QED
    BY <2>1, <2>2
<1> DEFINE longer == Append(rest, signal)
<1>5. /\ longer \in Seq(Signal) /\ Len(longer) = Len(rest) + 1
      /\ longer[Len(rest) + 1] = signal
      /\ \A k \in 1..Len(rest) : longer[k] = rest[k]
  <2> HIDE DEF rest
  <2> QED
    BY <1>4
<1>6. q \in Suffixes(longer)
  BY <1>2
<1> HIDE DEF longer, rest
<1>7. ASSUME Latest(rest) PROVE Latest(longer)
  <2>1. ASSUME NEW i \in 1..Len(longer), NEW j \in 1..Len(longer), i < j,
               longer[j].type = "description"
        PROVE  ~Superseded(longer[i], longer[j])
    <3>1. i \in 1..Len(rest)
      BY <1>4, <1>5, <2>1
    <3>2. CASE j = Len(rest) + 1
      BY <1>4, <1>5, <2>1, <3>1, <3>2
    <3>3. CASE j # Len(rest) + 1
      <4>1. j \in 1..Len(rest)
        BY <1>4, <1>5, <3>3
      <4>2. QED
        BY <1>5, <1>7, <2>1, <3>1, <4>1 DEF Latest
    <3>4. QED
      BY <3>2, <3>3
  <2>2. QED
    BY <2>1 DEF Latest
<1>8. QED
  BY <1>1, <1>3, <1>4, <1>5, <1>6, <1>7, SuffixFacts, SuffixLatest

-----------------------------------------------------------------------------
(* What the variables hold. *)

(* A message more is within the bound. *)
LEMMA SendsTypes ==
    ASSUME TypeOK, NEW c \in Conns, Sends(c)
    PROVE  /\ sent' \in [Conns -> Nat]
           /\ \A d \in Conns : sent'[d] <= MaxSignals[d]
<1>1. MaxSignals[c] \in Nat /\ sent[c] \in Nat /\ sent[c] < MaxSignals[c]
  BY RelayAssumption DEF TypeOK, Sends
<1>2. sent[c] + 1 \in Nat /\ sent[c] + 1 <= MaxSignals[c]
  BY <1>1
<1>3. QED
  BY <1>2 DEF Sends, TypeOK

(* Entering the room empties the role's queue and hands what is current of  *)
(* it to the handler.                                                       *)
LEMMA EnterRoomTypes ==
    ASSUME TypeOK, NEW c \in Conns, EnterRoom(c)
    PROVE  /\ peers' \in [Roles -> Conns \cup {None}]
           /\ pending' \in [Roles -> Seq(Signal)]
           /\ \A r \in Roles : Len(pending'[r]) <= MaxPending
           /\ sent' \in [Conns -> Nat]
           /\ \A d \in Conns : sent'[d] <= MaxSignals[d]
           /\ notify' \in [Conns -> Conns \cup {None}]
           /\ todo' \in [Conns -> Seq(Signal)]
           /\ raced' \subseteq Conns
<1>1. Role(c) \in Roles /\ target_role(Role(c)) \in Roles
  BY RoleFacts
<1>2. Current(c) \in Seq(Signal)
  BY <1>1, KeptFacts DEF Current, TypeOK
<1>3. pending' = [pending EXCEPT ![Role(c)] = <<>>]
  BY DEF EnterRoom
<1>4. /\ pending' \in [Roles -> Seq(Signal)]
      /\ \A r \in Roles : Len(pending'[r]) <= MaxPending
  <2>1. <<>> \in Seq(Signal) /\ Len(<<>>) = 0
    OBVIOUS
  <2>2. QED
    BY <1>1, <1>3, <2>1, RelayAssumption DEF TypeOK
<1>5. todo' \in [Conns -> Seq(Signal)]
  BY <1>2 DEF EnterRoom, TypeOK
<1>6. /\ sent' \in [Conns -> Nat]
      /\ \A d \in Conns : sent'[d] <= MaxSignals[d]
  BY SendsTypes DEF EnterRoom, AsksToRegister, TypeOK
<1>7. QED
  BY <1>1, <1>4, <1>5, <1>6 DEF EnterRoom, TypeOK, Counterpart, RacedBy

(* A notice changes what is believed, and who is misinformed.               *)
LEMMA TellTypes ==
    ASSUME TypeOK, NEW d \in Conns \cup {None}, NEW what \in {"present", "absent"}, Tell(d, what)
    PROVE  belief' \in [Conns -> {"untold", "present", "absent"}] /\ raced' \subseteq Conns
<1>1. CASE d # None /\ link[d] = "open"
  BY <1>1 DEF Tell, TypeOK
<1>2. CASE ~(d # None /\ link[d] = "open")
  BY <1>2 DEF Tell, TypeOK
<1>3. QED
  BY <1>1, <1>2

LEMMA ClosingTypes ==
    ASSUME TypeOK, NEW c
    PROVE  Closing(c) \in [Conns -> Links]
BY DEF Closing, TypeOK, Links

LEMMA AcceptTypes ==
    ASSUME TypeOK, NEW c \in Conns, NEW d, Accept(c, d)
    PROVE  /\ handler' \in [Conns -> Handlers]
           /\ belief' \in [Conns -> {"untold", "present", "absent"}]
BY DEF Accept, TypeOK, Handlers

LEMMA InitTypes == Init => TypeOK
<1>1. <<>> \in Seq(Signal) /\ Len(<<>>) = 0
  OBVIOUS
<1>2. QED
  BY <1>1, RelayAssumption DEF Init, TypeOK, Links, Handlers

LEMMA NextTypes == TypeOK /\ [Next]_vars => TypeOK'
<1> SUFFICES ASSUME TypeOK, [Next]_vars PROVE TypeOK'
  OBVIOUS
<1>1. CASE UNCHANGED vars
  BY <1>1 DEF vars, registration, TypeOK
<1> SUFFICES ASSUME NEW c \in Conns,
                    \/ Connect(c) \/ ConnectionLost(c) \/ CloseCompletes(c)
                    \/ Register(c) \/ RegisterReplacing(c)
                    \/ HandlerStep(c)
                    \/ \E signal \in SignalsOf(c) : Queue(c, signal)
                    \/ Forward(c) \/ ForwardFails(c) \/ Eject(c)
             PROVE  TypeOK'
  BY <1>1 DEF Next
<1>2. /\ Role(c) \in Roles /\ target_role(Role(c)) \in Roles
      /\ Counterpart(c) \in Conns \cup {None}
  BY RoleFacts DEF TypeOK, Counterpart
<1>3. CASE Connect(c)
  BY <1>3 DEF Connect, registration, TypeOK, Links, Handlers
<1>4. CASE ConnectionLost(c) \/ CloseCompletes(c)
  BY <1>4 DEF ConnectionLost, CloseCompletes, registration, TypeOK, Links
<1>5. CASE Register(c)
  <2>1. EnterRoom(c) /\ Accept(c, Counterpart(c)) /\ UNCHANGED <<link, awaiting>>
    BY <1>5 DEF Register
  <2>2. QED
    BY <2>1, EnterRoomTypes, AcceptTypes DEF TypeOK
<1>6. CASE RegisterReplacing(c)
  <2>1. /\ EnterRoom(c)
        /\ link' = Closing(peers[Role(c)])
        /\ awaiting' = [awaiting EXCEPT ![c] = peers[Role(c)]]
        /\ handler' = [handler EXCEPT ![c] = "replacing"]
        /\ belief' = belief
    BY <1>6 DEF RegisterReplacing
  <2>2. handler' \in [Conns -> Handlers] /\ awaiting' \in [Conns -> Conns \cup {None}]
    BY <1>2, <2>1 DEF TypeOK, Handlers
  <2>3. QED
    BY <2>1, <2>2, EnterRoomTypes, ClosingTypes DEF TypeOK
<1>7. CASE ReplacedClosed(c)
  <2>1. /\ Accept(c, notify[c])
        /\ awaiting' = [awaiting EXCEPT ![c] = None]
        /\ UNCHANGED <<link, peers, pending, sent, notify, todo, raced>>
    BY <1>7 DEF ReplacedClosed
  <2>2. QED
    BY <2>1, AcceptTypes DEF TypeOK
<1>8. CASE Deliver(c)
  <2>1. notify[c] \in Conns \cup {None}
    BY DEF TypeOK
  <2>2. belief' \in [Conns -> {"untold", "present", "absent"}] /\ raced' \subseteq Conns
    BY <1>8, <2>1, TellTypes DEF Deliver
  <2>3. /\ link' \in [Conns -> Links]
        /\ awaiting' \in [Conns -> Conns \cup {None}]
        /\ handler' \in [Conns -> Handlers]
    <3>1. \/ /\ link' = Closing(notify[c])
             /\ awaiting' = [awaiting EXCEPT ![c] = notify[c]]
             /\ handler' = [handler EXCEPT ![c] = "resetting"]
          \/ handler' = [handler EXCEPT ![c] = "reading"] /\ UNCHANGED <<link, awaiting>>
      BY <1>8 DEF Deliver
    <3>2. Closing(notify[c]) \in [Conns -> Links]
      BY ClosingTypes
    <3>3. [awaiting EXCEPT ![c] = notify[c]] \in [Conns -> Conns \cup {None}]
      BY <2>1 DEF TypeOK
    <3>4. handler' \in [Conns -> Handlers]
      BY <3>1 DEF TypeOK, Handlers
    <3>5. QED
      BY <3>1, <3>2, <3>3, <3>4 DEF TypeOK
  <2>4. <<>> \in Seq(Signal)
    OBVIOUS
  <2>5. /\ notify' \in [Conns -> Conns \cup {None}]
        /\ todo' \in [Conns -> Seq(Signal)]
        /\ UNCHANGED <<peers, pending, sent>>
    BY <1>8, <2>4 DEF Deliver, TypeOK
  <2>6. QED
    BY <2>2, <2>3, <2>5 DEF TypeOK
<1>9. CASE DeliveryFails(c) \/ ResetDone(c)
  BY <1>9 DEF DeliveryFails, ResetDone, registration, TypeOK, Handlers
<1>10. CASE Unregister(c)
  <2>1. belief' \in [Conns -> {"untold", "present", "absent"}] /\ raced' \subseteq Conns
    <3>1. CASE peers[Role(c)] = c
      BY <1>2, <1>10, <3>1, TellTypes DEF Unregister
    <3>2. CASE peers[Role(c)] # c
      BY <1>10, <3>2 DEF Unregister, TypeOK
    <3>3. QED
      BY <3>1, <3>2
  <2>2. peers' \in [Roles -> Conns \cup {None}]
    BY <1>10 DEF Unregister, TypeOK
  <2>3. <<>> \in Seq(Signal)
    OBVIOUS
  <2>4. /\ handler' \in [Conns -> Handlers]
        /\ awaiting' \in [Conns -> Conns \cup {None}]
        /\ notify' \in [Conns -> Conns \cup {None}]
        /\ todo' \in [Conns -> Seq(Signal)]
        /\ UNCHANGED <<pending, sent>>
    BY <1>10, <2>3 DEF Unregister, TypeOK, Handlers
  <2>5. link' \in [Conns -> Links]
    BY <1>10, ClosingTypes DEF Unregister
  <2>6. QED
    BY <2>1, <2>2, <2>4, <2>5 DEF TypeOK
<1>11. ASSUME NEW signal \in SignalsOf(c), Queue(c, signal)
       PROVE  TypeOK'
  <2> DEFINE target == target_role(Role(c))
  <2>1. PICK q \in Enqueued(pending[target], signal) : pending' = [pending EXCEPT ![target] = q]
    BY <1>11 DEF Queue
  <2>2. signal \in Signal /\ pending[target] \in Seq(Signal)
    BY <1>2 DEF SignalsOf, TypeOK
  <2> HIDE DEF target
  <2>3. q \in Seq(Signal) /\ Len(q) <= MaxPending
    BY <2>2, EnqueuedFacts
  <2>4. /\ pending' \in [Roles -> Seq(Signal)]
        /\ \A r \in Roles : Len(pending'[r]) <= MaxPending
    BY <2>1, <2>3 DEF TypeOK
  <2>5. sent' \in [Conns -> Nat] /\ \A d \in Conns : sent'[d] <= MaxSignals[d]
    BY <1>11, SendsTypes DEF Queue
  <2>6. QED
    BY <1>11, <2>4, <2>5 DEF Queue, registration, TypeOK
<1>12. CASE Forward(c) \/ ForwardFails(c)
  <2>1. /\ sent' \in [Conns -> Nat] /\ \A d \in Conns : sent'[d] <= MaxSignals[d]
        /\ handler' \in [Conns -> Handlers]
    BY <1>12, SendsTypes DEF Forward, ForwardFails, TypeOK, Handlers
  <2>2. QED
    BY <1>12, <2>1 DEF Forward, ForwardFails, registration, TypeOK
<1>13. CASE Eject(c)
  <2>1. link' \in [Conns -> Links] /\ handler' \in [Conns -> Handlers]
    BY <1>13, ClosingTypes DEF Eject, TypeOK, Handlers
  <2>2. QED
    BY <1>13, <2>1 DEF Eject, registration, TypeOK
<1>14. QED
  BY <1>3, <1>4, <1>5, <1>6, <1>7, <1>8, <1>9, <1>10, <1>11, <1>12, <1>13 DEF HandlerStep

(* The relay's variables hold what they are meant to; a queue is never      *)
(* longer than its bound.                                                   *)
THEOREM TypesHold == Spec => []TypeOK
BY InitTypes, NextTypes, PTL DEF Spec

-----------------------------------------------------------------------------
(* What the queues contain. *)

QueuesInv == TypeOK /\ LatestNegotiationOnly

(* Entering the room leaves the other role's queue as it is. *)
LEMMA EnterRoomQueues ==
    ASSUME QueuesInv, NEW c \in Conns, EnterRoom(c)
    PROVE  LatestNegotiationOnly'
<1>1. Role(c) \in Roles /\ <<>> \in Seq(Signal) /\ Len(<<>>) = 0
  BY RoleFacts
<1>2. pending' = [pending EXCEPT ![Role(c)] = <<>>]
  BY DEF EnterRoom
<1>3. ASSUME NEW r \in Roles, NEW i \in 1..Len(pending'[r]), NEW j \in 1..Len(pending'[r]),
             i < j, pending'[r][j].type = "description"
      PROVE  ~Superseded(pending'[r][i], pending'[r][j])
  <2>1. CASE r = Role(c)
    BY <1>1, <1>2, <1>3, <2>1 DEF QueuesInv, TypeOK
  <2>2. CASE r # Role(c)
    BY <1>2, <1>3, <2>2 DEF QueuesInv, TypeOK, LatestNegotiationOnly
  <2>3. QED
    BY <2>1, <2>2
<1>4. QED
  BY <1>3 DEF LatestNegotiationOnly

(* A signal of a connection takes its place in the counterpart's queue.     *)
LEMMA QueueLatest ==
    ASSUME QueuesInv, NEW c \in Conns, NEW signal \in SignalsOf(c), Queue(c, signal)
    PROVE  LatestNegotiationOnly'
<1> DEFINE target == target_role(Role(c))
<1>1. PICK q \in Enqueued(pending[target], signal) : pending' = [pending EXCEPT ![target] = q]
  BY DEF Queue
<1>2. signal \in Signal /\ target \in Roles /\ pending[target] \in Seq(Signal)
  BY RoleFacts DEF SignalsOf, QueuesInv, TypeOK
<1>3. Latest(pending[target])
  BY <1>2 DEF QueuesInv, LatestNegotiationOnly, Latest
<1> HIDE DEF target
<1>4. Latest(q)
  BY <1>2, <1>3, EnqueuedFacts
<1>5. ASSUME NEW r \in Roles PROVE Latest(pending'[r])
  <2>1. CASE r = target
    BY <1>1, <1>2, <1>4, <2>1 DEF QueuesInv, TypeOK
  <2>2. CASE r # target
    BY <1>1, <1>2, <2>2 DEF QueuesInv, TypeOK, LatestNegotiationOnly, Latest
  <2>3. QED
    BY <2>1, <2>2
<1>6. QED
  BY <1>5 DEF LatestNegotiationOnly, Latest

LEMMA QueuesInductive == Spec => []QueuesInv
<1>1. Init => QueuesInv
  <2>1. Len(<<>>) = 0
    OBVIOUS
  <2>2. Init => LatestNegotiationOnly
    BY <2>1 DEF Init, LatestNegotiationOnly
  <2>3. QED
    BY <2>2, InitTypes DEF QueuesInv
<1>2. QueuesInv /\ [Next]_vars => QueuesInv'
  <2> SUFFICES ASSUME QueuesInv, [Next]_vars PROVE LatestNegotiationOnly'
    BY NextTypes DEF QueuesInv
  <2>1. ASSUME UNCHANGED pending PROVE LatestNegotiationOnly'
    BY <2>1 DEF QueuesInv, LatestNegotiationOnly
  <2>2. CASE UNCHANGED vars
    BY <2>1, <2>2 DEF vars
  <2> SUFFICES ASSUME NEW c \in Conns,
                      \/ Connect(c) \/ ConnectionLost(c) \/ CloseCompletes(c)
                      \/ Register(c) \/ RegisterReplacing(c)
                      \/ HandlerStep(c)
                      \/ \E signal \in SignalsOf(c) : Queue(c, signal)
                      \/ Forward(c) \/ ForwardFails(c) \/ Eject(c)
               PROVE  LatestNegotiationOnly'
    BY <2>2 DEF Next
  <2>3. CASE \/ Connect(c) \/ ConnectionLost(c) \/ CloseCompletes(c) \/ HandlerStep(c)
             \/ Forward(c) \/ ForwardFails(c) \/ Eject(c)
    <3>1. UNCHANGED pending
      BY <2>3 DEF Connect, ConnectionLost, CloseCompletes, HandlerStep, ReplacedClosed, Deliver,
         DeliveryFails, ResetDone, Unregister, Forward, ForwardFails, Eject
    <3>2. QED
      BY <2>1, <3>1
  <2>4. CASE Register(c) \/ RegisterReplacing(c)
    BY <2>4, EnterRoomQueues DEF Register, RegisterReplacing
  <2>5. QED
    BY <2>3, <2>4, QueueLatest
<1>3. QED
  BY <1>1, <1>2, PTL DEF Spec

(* A late counterpart is sent the latest negotiation of each session, and   *)
(* only that, whatever was queued, expired or dropped before.               *)
THEOREM LateJoinerGetsLatest == Spec => []LatestNegotiationOnly
<1>1. QueuesInv => LatestNegotiationOnly
  BY DEF QueuesInv
<1>2. QED
  BY <1>1, QueuesInductive, PTL

(* What a registration takes from a queue is sent before the handler awaits *)
(* anything but the write buffer: a role that is taken has nothing queued,   *)
(* so that only a registration that replaces nobody has signals to deliver.  *)
THEOREM NothingWaitsForAClose == Spec => []NothingHeldOverClose
<1>1. Init => NothingHeldOverClose
  BY DEF Init, NothingHeldOverClose
<1>2. TypeOK /\ PendingForAbsent /\ NothingHeldOverClose /\ [Next]_vars => NothingHeldOverClose'
  <2> SUFFICES ASSUME TypeOK, PendingForAbsent, NothingHeldOverClose, [Next]_vars
               PROVE  NothingHeldOverClose'
    OBVIOUS
  <2>1. CASE UNCHANGED vars
    BY <2>1 DEF vars, registration, NothingHeldOverClose
  <2> SUFFICES ASSUME NEW c \in Conns,
                      \/ Connect(c) \/ ConnectionLost(c) \/ CloseCompletes(c)
                      \/ Register(c) \/ RegisterReplacing(c)
                      \/ HandlerStep(c)
                      \/ \E signal \in SignalsOf(c) : Queue(c, signal)
                      \/ Forward(c) \/ ForwardFails(c) \/ Eject(c)
               PROVE  NothingHeldOverClose'
    BY <2>1 DEF Next
  <2>2. ASSUME handler'[c] # "replacing",
               \A d \in Conns : d # c => handler'[d] = handler[d] /\ todo'[d] = todo[d]
        PROVE  NothingHeldOverClose'
    BY <2>2 DEF NothingHeldOverClose
  <2>3. CASE RegisterReplacing(c)
    <3>1. /\ todo' = [todo EXCEPT ![c] = Current(c)]
          /\ handler' = [handler EXCEPT ![c] = "replacing"]
          /\ peers[Role(c)] # None
      BY <2>3 DEF RegisterReplacing, EnterRoom
    <3>2. Role(c) \in Roles
      BY RoleFacts
    <3>3. pending[Role(c)] = <<>> /\ <<>> \in Seq(Signal)
      BY <3>1, <3>2 DEF PendingForAbsent
    <3>4. Current(c) = <<>>
      <4>1. /\ Current(c) \in Seq(Signal)
            /\ Selection(Current(c), <<>>, {m \in Signal : IsCurrent(m, c)}, Len(<<>>))
        BY <3>3, KeptFacts DEF Current
      <4>2. Len(Current(c)) <= Len(<<>>)
        BY <4>1 DEF Selection
      <4>3. QED
        BY <4>1, <4>2
    <3>5. QED
      BY <3>1, <3>4 DEF NothingHeldOverClose, TypeOK
  <2>4. CASE Register(c) \/ ReplacedClosed(c)
    <3>1. /\ \/ handler' = [handler EXCEPT ![c] = "delivering"]
             \/ handler' = [handler EXCEPT ![c] = "leaving"]
          /\ todo' = todo \/ todo' = [todo EXCEPT ![c] = Current(c)]
      BY <2>4 DEF Register, EnterRoom, ReplacedClosed, Accept
    <3>2. QED
      BY <2>2, <3>1 DEF TypeOK
  <2>5. CASE Deliver(c) \/ Unregister(c)
    <3>1. /\ \E status \in Handlers \ {"replacing"} : handler' = [handler EXCEPT ![c] = status]
          /\ todo' = [todo EXCEPT ![c] = <<>>]
      BY <2>5 DEF Deliver, Unregister, Handlers
    <3>2. QED
      BY <2>2, <3>1 DEF TypeOK
  <2>6. CASE \/ Connect(c) \/ DeliveryFails(c) \/ ResetDone(c) \/ ForwardFails(c) \/ Eject(c)
    <3>1. /\ \E status \in Handlers \ {"replacing"} : handler' = [handler EXCEPT ![c] = status]
          /\ todo' = todo
      BY <2>6 DEF Connect, DeliveryFails, ResetDone, ForwardFails, Eject, registration, Handlers
    <3>2. QED
      BY <2>2, <3>1 DEF TypeOK
  <2>7. CASE \/ ConnectionLost(c) \/ CloseCompletes(c) \/ Forward(c)
             \/ \E signal \in SignalsOf(c) : Queue(c, signal)
    BY <2>7 DEF ConnectionLost, CloseCompletes, Forward, Queue, registration, NothingHeldOverClose
  <2>8. QED
    BY <2>3, <2>4, <2>5, <2>6, <2>7 DEF HandlerStep
<1>3. QED
  BY <1>1, <1>2, TypesHold, QueuesAreForAbsentRoles, PTL DEF Spec

-----------------------------------------------------------------------------
(***************************************************************************)
(* What the endpoints are told.  PresenceAgrees speaks of the connections   *)
(* whose handler reads, and is not inductive: it says nothing of a         *)
(* registration under way.  Told does.                                     *)
(***************************************************************************)

(* A role is held by a connection of that role, and a handler notifies a    *)
(* connection of the other.                                                 *)
OfRole ==
    /\ \A r \in Roles : peers[r] # None => Role(peers[r]) = r
    /\ \A c \in Conns : notify[c] # None => Role(notify[c]) = target_role(Role(c))

(* Connection d is about to tell c that it is there, or that it has left.   *)
Untold(d, c) ==
    \/ handler[d] = "leaving"
    \/ handler[d] \in {"replacing", "delivering"} /\ notify[d] = c

(* What c believes of the room, or is still to reply with, is so; or its    *)
(* counterpart is about to mend it.                                         *)
Informed(c) ==
    /\ handler[c] = "replacing" => notify[c] = Counterpart(c)
    /\ handler[c] \in {"delivering", "resetting", "reading"} =>
          IF Counterpart(c) = None THEN belief[c] = "absent"
          ELSE belief[c] = "present" \/ Untold(Counterpart(c), c)

Told == \A c \in Conns \ raced : link[c] = "open" => Informed(c)

PresenceInv == TypeOK /\ OpenMeansPeer /\ OfRole /\ Told

LEMMA TargetFacts ==
    \A c \in Conns, d \in Conns :
        /\ Role(d) = Role(c) \/ Role(d) = target_role(Role(c))
        /\ target_role(target_role(Role(c))) = Role(c)
BY RelayAssumption DEF Role, Roles, target_role

(* The connection that c's signals go to has the other role.                *)
LEMMA CounterpartFacts ==
    ASSUME PresenceInv, NEW c \in Conns
    PROVE  /\ Counterpart(c) \in Conns \cup {None}
           /\ Counterpart(c) # None =>
                 /\ Role(Counterpart(c)) = target_role(Role(c))
                 /\ target_role(Role(Counterpart(c))) = Role(c)
                 /\ Counterpart(c) # c
<1>1. target_role(Role(c)) \in Roles /\ target_role(Role(c)) # Role(c) /\ c # None
  BY RoleFacts
<1>2. target_role(target_role(Role(c))) = Role(c)
  BY TargetFacts
<1>3. QED
  BY <1>1, <1>2 DEF Counterpart, PresenceInv, OfRole, TypeOK

(* An open connection past its registration is its counterpart's counterpart. *)
LEMMA Mutual ==
    ASSUME PresenceInv, NEW c \in Conns, NEW e \in Conns, Role(e) = target_role(Role(c)),
           link[e] = "open", handler[e] \in Registered
    PROVE  Counterpart(c) = e
BY DEF PresenceInv, OpenMeansPeer, Counterpart

(* A role changes hands as its connections require. *)
LEMMA RolesStay ==
    ASSUME PresenceInv, NEW c \in Conns,
           \/ peers' = [peers EXCEPT ![Role(c)] = c]
           \/ peers' = [peers EXCEPT ![Role(c)] = None]
           \/ peers' = peers,
           \/ notify' = [notify EXCEPT ![c] = Counterpart(c)]
           \/ notify' = [notify EXCEPT ![c] = None]
           \/ notify' = notify
    PROVE  OfRole'
<1>1. Role(c) \in Roles
  BY RoleFacts
<1>2. ASSUME NEW r \in Roles, peers'[r] # None PROVE Role(peers'[r]) = r
  BY <1>1, <1>2 DEF PresenceInv, OfRole, TypeOK
<1>3. ASSUME NEW d \in Conns, notify'[d] # None PROVE Role(notify'[d]) = target_role(Role(d))
  <2>1. CASE notify' = [notify EXCEPT ![c] = Counterpart(c)]
    <3>1. CASE d = c
      BY <1>3, <2>1, <3>1, CounterpartFacts DEF PresenceInv, TypeOK
    <3>2. CASE d # c
      BY <1>3, <2>1, <3>2 DEF PresenceInv, OfRole, TypeOK
    <3>3. QED
      BY <3>1, <3>2
  <2>2. CASE notify' = [notify EXCEPT ![c] = None] \/ notify' = notify
    BY <1>3, <2>2 DEF PresenceInv, OfRole, TypeOK
  <2>3. QED
    BY <2>1, <2>2
<1>4. QED
  BY <1>2, <1>3 DEF OfRole

(* A connection that enters the room: its counterpart is about to be told,  *)
(* and a counterpart whose own registration is not over is misinformed.     *)
LEMMA EnterRoomTold ==
    ASSUME PresenceInv, NEW c \in Conns, EnterRoom(c),
           \A e \in Conns : link'[e] = "open" => link[e] = "open",
           NEW status \in {"replacing", "delivering", "leaving"},
           handler' = [handler EXCEPT ![c] = status],
           \A e \in Conns : e # c => belief'[e] = belief[e],
           status = "delivering" =>
               belief'[c] = IF Counterpart(c) = None THEN "absent" ELSE "present"
    PROVE  Told'
<1> DEFINE r == Role(c)
           t == target_role(Role(c))
<1>1. r \in Roles /\ t \in Roles /\ t # r /\ c # None
  BY RoleFacts
<1>2. /\ peers' = [peers EXCEPT ![r] = c]
      /\ notify' = [notify EXCEPT ![c] = Counterpart(c)]
      /\ raced' = raced \cup RacedBy(c)
  BY DEF EnterRoom
<1>3. peers'[r] = c /\ peers'[t] = peers[t] /\ notify'[c] = Counterpart(c) /\ handler'[c] = status
  BY <1>1, <1>2 DEF PresenceInv, TypeOK
<1>4. \A e \in Conns : e # c => handler'[e] = handler[e] /\ notify'[e] = notify[e]
  BY <1>2 DEF PresenceInv, TypeOK
<1>5. ASSUME NEW e \in Conns \ raced', link'[e] = "open" PROVE Informed(e)'
  <2>1. e \notin raced /\ e \notin RacedBy(c) /\ link[e] = "open" /\ e # None
    BY <1>2, <1>5, RoleFacts
  <2>2. Informed(e)
    BY <2>1 DEF PresenceInv, Told
  <2>3. CASE e = c
    <3>1. Counterpart(e)' = Counterpart(c)
      BY <1>3, <2>3 DEF Counterpart
    <3>2. QED
      BY <1>3, <2>3, <3>1 DEF Informed
  <2>4. CASE e # c /\ Role(e) = r
    <3>1. Counterpart(e)' = Counterpart(e)
      BY <1>3, <2>4 DEF Counterpart
    <3>2. Counterpart(e) # None => Counterpart(e) # c /\ Counterpart(e) \in Conns
      BY <1>1, <2>4, CounterpartFacts
    <3>3. QED
      BY <1>4, <2>2, <2>4, <3>1, <3>2 DEF Informed, Untold
  <2>5. CASE Role(e) = t
    <3>1. Counterpart(e)' = c
      <4>1. target_role(Role(e)) = r
        BY <2>5, TargetFacts
      <4>2. QED
        BY <1>3, <4>1 DEF Counterpart
    <3>2. e # c
      BY <1>1, <2>5
    <3>3. handler[e] # "replacing"
      BY <2>1, <2>5 DEF RacedBy
    <3>4. ASSUME handler[e] \in {"delivering", "resetting", "reading"}
          PROVE  Untold(c, e)'
      <4>1. Counterpart(c) = e
        BY <2>1, <2>5, <3>4, Mutual DEF Registered
      <4>2. QED
        BY <1>3, <4>1 DEF Untold
    <3>5. handler'[e] = handler[e]
      BY <1>4, <3>2
    <3> HIDE DEF r, t
    <3>6. QED
      BY <1>1, <3>1, <3>3, <3>4, <3>5 DEF Informed
  <2>6. QED
    BY <2>3, <2>4, <2>5, TargetFacts
<1>6. QED
  BY <1>5 DEF Told

(* A handler that goes on or fails, and tells nobody: those it had still to *)
(* tell are told that it has left.                                          *)
LEMMA QuietTold ==
    ASSUME PresenceInv, NEW c \in Conns, UNCHANGED <<peers, raced, notify>>,
           \A e \in Conns : link'[e] = "open" => link[e] = "open",
           \A e \in Conns : e # c => belief'[e] = belief[e] /\ handler'[e] = handler[e],
           handler'[c] # "leaving" => \A e \in Conns : Untold(c, e) => Untold(c, e)',
           link'[c] = "open" => (Informed(c) => Informed(c)')
    PROVE  Told'
<1>1. ASSUME NEW e \in Conns \ raced', link'[e] = "open" PROVE Informed(e)'
  <2>1. Informed(e)
    BY <1>1 DEF PresenceInv, Told
  <2>2. Counterpart(e)' = Counterpart(e)
    BY DEF Counterpart
  <2>3. CASE e = c
    BY <1>1, <2>1, <2>3
  <2>4. CASE e # c
    <3>1. Counterpart(e) \in Conns \cup {None}
      BY CounterpartFacts
    <3>2. ASSUME NEW d \in Conns, Untold(d, e) PROVE Untold(d, e)'
      <4>1. CASE d = c
        BY <3>2, <4>1 DEF Untold
      <4>2. CASE d # c
        BY <3>2, <4>2 DEF Untold
      <4>3. QED
        BY <4>1, <4>2
    <3>3. belief'[e] = belief[e] /\ handler'[e] = handler[e] /\ notify'[e] = notify[e]
      BY <2>4
    <3>4. QED
      BY <2>1, <2>2, <3>1, <3>2, <3>3 DEF Informed
  <2>5. QED
    BY <2>3, <2>4
<1>2. QED
  BY <1>1 DEF Told

(* The queued signals are sent, and the counterpart is told. *)
LEMMA DeliverTold ==
    ASSUME PresenceInv, NEW c \in Conns, Deliver(c)
    PROVE  Told'
<1> DEFINE n == notify[c]
<1>1. /\ handler[c] = "delivering" /\ link[c] = "open"
      /\ Tell(n, "present")
      /\ peers' = peers
      /\ notify' = [notify EXCEPT ![c] = None]
  BY DEF Deliver
<1>2. \E status \in {"resetting", "reading"} : handler' = [handler EXCEPT ![c] = status]
  BY DEF Deliver
<1>3. \A e \in Conns : link'[e] = "open" => link[e] = "open"
  <2>1. link' = link \/ link' = Closing(n)
    BY DEF Deliver
  <2>2. QED
    BY <2>1 DEF Closing, PresenceInv, TypeOK
<1>4. handler'[c] \in {"resetting", "reading"} /\ \A e \in Conns : e # c => handler'[e] = handler[e]
  BY <1>2 DEF PresenceInv, TypeOK
<1>5. \A e \in Conns : e # c => notify'[e] = notify[e]
  BY <1>1 DEF PresenceInv, TypeOK
<1>6. n \in Conns \cup {None} /\ (n # None => Role(n) = target_role(Role(c)) /\ n # c)
  BY RoleFacts DEF PresenceInv, OfRole, TypeOK
<1>7. \A e \in Conns : e # n => /\ belief'[e] = belief[e]
                                /\ e \notin raced' => e \notin raced
  BY <1>1 DEF Tell, PresenceInv, TypeOK
<1>8. ASSUME NEW e \in Conns \ raced', link'[e] = "open" PROVE Informed(e)'
  <2>1. Counterpart(e)' = Counterpart(e) /\ Counterpart(e) \in Conns \cup {None}
    BY <1>1, CounterpartFacts DEF Counterpart
  <2>2. link[e] = "open" /\ e # None
    BY <1>3, <1>8, RoleFacts
  <2>3. CASE e = n
    <3>1. e \in Conns /\ belief'[e] = "present" /\ handler[e] # "replacing" /\ e # c
      BY <1>1, <1>6, <1>8, <2>2, <2>3 DEF Tell, PresenceInv, TypeOK
    <3>2. Counterpart(e) = c /\ c # None
      <4>1. Role(c) = target_role(Role(e))
        BY <1>6, <2>2, <2>3, TargetFacts
      <4>2. QED
        BY <1>1, <4>1, Mutual, RoleFacts DEF Registered
    <3>3. handler'[e] = handler[e]
      BY <1>4, <3>1
    <3>4. QED
      BY <2>1, <3>1, <3>2, <3>3 DEF Informed
  <2>4. CASE e = c
    <3>1. e \notin raced /\ belief'[e] = belief[e]
      BY <1>6, <1>7, <1>8, <2>2, <2>4
    <3>2. Informed(e)
      BY <2>2, <3>1 DEF PresenceInv, Told
    <3>3. Counterpart(e) # None => Counterpart(e) # c
      BY <2>4, CounterpartFacts
    <3>4. QED
      BY <1>1, <1>4, <1>5, <2>1, <2>4, <3>1, <3>2, <3>3 DEF Informed, Untold
  <2>5. CASE e # n /\ e # c
    <3>1. e \notin raced /\ belief'[e] = belief[e] /\ handler'[e] = handler[e] /\ notify'[e] = notify[e]
      BY <1>4, <1>5, <1>7, <1>8, <2>5
    <3>2. Informed(e)
      BY <2>2, <3>1 DEF PresenceInv, Told
    <3>3. Counterpart(e) # None /\ Untold(Counterpart(e), e) => Untold(Counterpart(e), e)'
      <4>1. CASE Counterpart(e) = c
        BY <1>1, <2>5, <4>1 DEF Untold
      <4>2. CASE Counterpart(e) # c
        BY <1>4, <1>5, <2>1, <4>2 DEF Untold
      <4>3. QED
        BY <4>1, <4>2
    <3>4. QED
      BY <2>1, <3>1, <3>2, <3>3 DEF Informed, Untold
  <2>6. QED
    BY <2>3, <2>4, <2>5
<1>9. QED
  BY <1>8 DEF Told

(* The finally clause: a connection that leaves the room says so. *)
LEMMA UnregisterTold ==
    ASSUME PresenceInv, NEW c \in Conns, Unregister(c)
    PROVE  Told'
<1> DEFINE r == Role(c)
           t == target_role(Role(c))
           n == Counterpart(c)
<1>1. r \in Roles /\ t \in Roles /\ t # r /\ c # None
  BY RoleFacts
<1>2. /\ handler' = [handler EXCEPT ![c] = "done"]
      /\ link' = Closing(c)
      /\ notify' = [notify EXCEPT ![c] = None]
      /\ IF peers[r] = c
         THEN peers' = [peers EXCEPT ![r] = None] /\ Tell(n, "absent")
         ELSE UNCHANGED <<peers, belief, raced>>
  BY DEF Unregister
<1>3. \A e \in Conns : link'[e] = "open" => link[e] = "open"
  BY <1>2 DEF Closing, PresenceInv, TypeOK
<1>4. /\ handler'[c] = "done"
      /\ \A e \in Conns : e # c => handler'[e] = handler[e] /\ notify'[e] = notify[e]
  BY <1>2 DEF PresenceInv, TypeOK
<1>5. peers'[t] = peers[t]
  BY <1>1, <1>2 DEF PresenceInv, TypeOK
<1>6. n \in Conns \cup {None} /\ (n # None => Role(n) = t /\ n # c)
  BY CounterpartFacts
<1>7. ASSUME NEW e \in Conns \ raced', link'[e] = "open" PROVE Informed(e)'
  <2>1. link[e] = "open" /\ e # None /\ target_role(Role(e)) \in Roles
    BY <1>3, <1>7, RoleFacts
  <2>2. CASE e = c
    BY <1>4, <2>2 DEF Informed
  <2>3. CASE e # c /\ Role(e) = r
    <3>1. Counterpart(e)' = Counterpart(e) /\ Counterpart(e) \in Conns \cup {None}
      BY <1>5, <2>3, CounterpartFacts DEF Counterpart
    <3>2. e # n
      BY <1>1, <1>6, <2>1, <2>3
    <3>3. e \notin raced /\ belief'[e] = belief[e]
      BY <1>2, <1>7, <3>2 DEF Tell, PresenceInv, TypeOK
    <3>4. Informed(e)
      BY <2>1, <3>3 DEF PresenceInv, Told
    <3>5. Counterpart(e) # None => Counterpart(e) # c
      BY <1>1, <2>3, CounterpartFacts
    <3> HIDE DEF r, t, n
    <3>6. QED
      BY <1>4, <2>3, <3>1, <3>3, <3>4, <3>5 DEF Informed, Untold
  <2>4. CASE Role(e) = t
    <3>1. target_role(Role(e)) = r /\ e # c
      BY <1>1, <2>4, TargetFacts
    <3>2. handler'[e] = handler[e] /\ notify'[e] = notify[e]
      BY <1>4, <3>1
    <3>3. CASE peers[r] = c
      <4>1. Counterpart(e)' = None
        BY <1>1, <1>2, <3>1, <3>3 DEF Counterpart, PresenceInv, TypeOK
      <4>2. CASE handler[e] \in Registered
        <5>1. n = e
          BY <2>1, <2>4, <4>2, Mutual
        <5>2. belief'[e] = "absent" /\ handler[e] # "replacing"
          BY <1>2, <1>7, <2>1, <3>3, <5>1 DEF Tell, PresenceInv, TypeOK
        <5>3. QED
          BY <3>2, <4>1, <5>2 DEF Informed
      <4>3. CASE handler[e] \notin Registered
        BY <3>2, <4>3 DEF Informed, Registered
      <4>4. QED
        BY <4>2, <4>3
    <3>4. CASE peers[r] # c
      <4>1. UNCHANGED <<peers, belief, raced>>
        BY <1>2, <3>4
      <4>2. Counterpart(e)' = Counterpart(e) /\ Counterpart(e) # c
        BY <3>1, <3>4, <4>1 DEF Counterpart
      <4>3. Counterpart(e) \in Conns \cup {None} /\ Informed(e)
        BY <1>7, <2>1, <4>1, CounterpartFacts DEF PresenceInv, Told
      <4>4. QED
        BY <1>4, <3>2, <4>1, <4>2, <4>3 DEF Informed, Untold
    <3>5. QED
      BY <3>3, <3>4
  <2>5. QED
    BY <2>2, <2>3, <2>4, TargetFacts
<1>8. QED
  BY <1>7 DEF Told

LEMMA InitPresence == Init => PresenceInv
<1> SUFFICES ASSUME Init PROVE PresenceInv
  OBVIOUS
<1>1. OpenMeansPeer
  BY RelayAssumption DEF Init, OpenMeansPeer, Registered, Role, Roles
<1>2. OfRole /\ Told
  BY RelayAssumption DEF Init, OfRole, Told
<1>3. QED
  BY <1>1, <1>2, InitTypes DEF PresenceInv

(* Every step leaves those it concerns informed, or about to be.            *)
LEMMA NextPresence == PresenceInv /\ OpenMeansPeer' /\ [Next]_vars => PresenceInv'
<1> SUFFICES ASSUME PresenceInv, OpenMeansPeer', [Next]_vars
             PROVE  OfRole' /\ Told'
  BY NextTypes DEF PresenceInv
<1>1. CASE UNCHANGED vars
  BY <1>1 DEF vars, registration, PresenceInv, OfRole, Told, Informed, Untold, Counterpart
<1> SUFFICES ASSUME NEW c \in Conns,
                    \/ Connect(c) \/ ConnectionLost(c) \/ CloseCompletes(c)
                    \/ Register(c) \/ RegisterReplacing(c)
                    \/ HandlerStep(c)
                    \/ \E signal \in SignalsOf(c) : Queue(c, signal)
                    \/ Forward(c) \/ ForwardFails(c) \/ Eject(c)
             PROVE  OfRole' /\ Told'
  BY <1>1 DEF Next
<1>2. TypeOK /\ c # None
  BY RoleFacts DEF PresenceInv
<1>3. CASE Connect(c)
  <2>1. /\ handler[c] = "none" /\ handler' = [handler EXCEPT ![c] = "fresh"]
        /\ link' = [link EXCEPT ![c] = "open"]
        /\ UNCHANGED <<peers, notify, belief, raced>>
    BY <1>3 DEF Connect, registration
  <2>2. handler'[c] = "fresh" /\ \A e \in Conns : e # c => handler'[e] = handler[e] /\ link'[e] = link[e]
    BY <1>2, <2>1 DEF TypeOK
  <2>3. ASSUME NEW e \in Conns \ raced', link'[e] = "open" PROVE Informed(e)'
    <3>1. CASE e = c
      BY <2>2, <3>1 DEF Informed
    <3>2. CASE e # c
      <4>1. Informed(e) /\ Counterpart(e)' = Counterpart(e)
        BY <2>1, <2>2, <2>3, <3>2 DEF PresenceInv, Told, Counterpart
      <4>2. Counterpart(e) # None => Counterpart(e) # c /\ Counterpart(e) \in Conns
        <5>1. peers[Role(c)] # c
          BY <2>1 DEF PresenceInv, OpenMeansPeer, Registered
        <5>2. Counterpart(e) = c => Role(c) = target_role(Role(e))
          BY <1>2, CounterpartFacts
        <5>3. QED
          BY <5>1, <5>2, CounterpartFacts DEF Counterpart
      <4>3. QED
        BY <2>1, <2>2, <3>2, <4>1, <4>2 DEF Informed, Untold
    <3>3. QED
      BY <3>1, <3>2
  <2>4. QED
    BY <2>1, <2>3, RolesStay DEF Told
<1>4. CASE ConnectionLost(c) \/ CloseCompletes(c)
  <2>1. /\ link' = [link EXCEPT ![c] = "closed"]
        /\ UNCHANGED <<handler, peers, notify, belief, raced>>
    BY <1>4 DEF ConnectionLost, CloseCompletes, registration
  <2>2. \A e \in Conns : link'[e] = "open" => link[e] = "open"
    BY <1>2, <2>1 DEF TypeOK
  <2>3. Told'
    BY <2>1, <2>2 DEF PresenceInv, Told, Informed, Untold, Counterpart
  <2>4. QED
    BY <2>1, <2>3, RolesStay
<1>5. CASE Register(c)
  <2>1. EnterRoom(c) /\ Accept(c, Counterpart(c)) /\ link' = link
    BY <1>5 DEF Register
  <2>2. OfRole'
    BY <2>1, RolesStay DEF EnterRoom
  <2>3. CASE link[c] = "open"
    <3>1. /\ handler' = [handler EXCEPT ![c] = "delivering"]
          /\ belief'[c] = IF Counterpart(c) = None THEN "absent" ELSE "present"
          /\ \A e \in Conns : e # c => belief'[e] = belief[e]
      BY <1>2, <2>1, <2>3 DEF Accept, TypeOK
    <3>2. QED
      BY <2>1, <2>2, <3>1, EnterRoomTold
  <2>4. CASE link[c] # "open"
    <3>1. handler' = [handler EXCEPT ![c] = "leaving"] /\ belief' = belief
      BY <2>1, <2>4 DEF Accept
    <3>2. QED
      BY <2>1, <2>2, <3>1, EnterRoomTold
  <2>5. QED
    BY <2>3, <2>4
<1>6. CASE RegisterReplacing(c)
  <2>1. /\ EnterRoom(c) /\ link' = Closing(peers[Role(c)])
        /\ handler' = [handler EXCEPT ![c] = "replacing"] /\ belief' = belief
    BY <1>6 DEF RegisterReplacing
  <2>2. \A e \in Conns : link'[e] = "open" => link[e] = "open"
    BY <1>2, <2>1 DEF Closing, TypeOK
  <2>3. OfRole'
    BY <2>1, RolesStay DEF EnterRoom
  <2>4. QED
    BY <2>1, <2>2, <2>3, EnterRoomTold
<1>7. CASE ReplacedClosed(c)
  <2>1. /\ handler[c] = "replacing" /\ Accept(c, notify[c])
        /\ UNCHANGED <<link, peers, notify, raced>>
    BY <1>7 DEF ReplacedClosed
  <2>2. /\ \A e \in Conns : e # c => belief'[e] = belief[e] /\ handler'[e] = handler[e]
        /\ handler'[c] = IF link[c] = "open" THEN "delivering" ELSE "leaving"
        /\ link[c] = "open" =>
              belief'[c] = IF notify[c] = None THEN "absent" ELSE "present"
    BY <1>2, <2>1 DEF Accept, TypeOK
  <2>3. ASSUME link'[c] = "open", Informed(c) PROVE Informed(c)'
    <3>1. notify[c] = Counterpart(c) /\ Counterpart(c)' = Counterpart(c)
      BY <2>1, <2>3 DEF Informed, Counterpart
    <3>2. QED
      BY <2>1, <2>2, <2>3, <3>1 DEF Informed
  <2>4. handler'[c] # "leaving" => \A e \in Conns : Untold(c, e) => Untold(c, e)'
    BY <2>1, <2>2 DEF Untold
  <2>5. Told'
    BY <2>1, <2>2, <2>3, <2>4, QuietTold
  <2>6. QED
    BY <2>1, <2>5, RolesStay
<1>8. CASE Deliver(c)
  <2>1. OfRole'
    BY <1>8, RolesStay DEF Deliver
  <2>2. QED
    BY <1>8, <2>1, DeliverTold
<1>9. CASE DeliveryFails(c) \/ ForwardFails(c)
  <2>1. /\ handler' = [handler EXCEPT ![c] = "leaving"]
        /\ UNCHANGED <<link, peers, notify, belief, raced>>
    BY <1>9 DEF DeliveryFails, ForwardFails, registration
  <2>2. handler'[c] = "leaving" /\ \A e \in Conns : e # c => handler'[e] = handler[e]
    BY <1>2, <2>1 DEF TypeOK
  <2>3. Informed(c)'
    BY <2>2 DEF Informed
  <2>4. Told'
    BY <2>1, <2>2, <2>3, QuietTold
  <2>5. QED
    BY <2>1, <2>4, RolesStay
<1>10. CASE ResetDone(c)
  <2>1. /\ handler[c] = "resetting" /\ handler' = [handler EXCEPT ![c] = "reading"]
        /\ UNCHANGED <<link, peers, notify, belief, raced>>
    BY <1>10 DEF ResetDone
  <2>2. handler'[c] = "reading" /\ \A e \in Conns : e # c => handler'[e] = handler[e]
    BY <1>2, <2>1 DEF TypeOK
  <2>3. \A e \in Conns : ~Untold(c, e)
    BY <2>1 DEF Untold
  <2>4. Informed(c) => Informed(c)'
    <3>1. Counterpart(c)' = Counterpart(c) /\ (Counterpart(c) # None => Counterpart(c) # c)
      BY <2>1, CounterpartFacts DEF Counterpart
    <3>2. Counterpart(c) \in Conns \cup {None}
      BY CounterpartFacts
    <3>3. QED
      BY <2>1, <2>2, <3>1, <3>2 DEF Informed, Untold
  <2>5. Told'
    BY <2>1, <2>2, <2>3, <2>4, QuietTold
  <2>6. QED
    BY <2>1, <2>5, RolesStay
<1>11. CASE Unregister(c)
  <2>1. OfRole'
    BY <1>11, RolesStay DEF Unregister
  <2>2. QED
    BY <1>11, <2>1, UnregisterTold
<1>12. CASE (\E signal \in SignalsOf(c) : Queue(c, signal)) \/ Forward(c)
  <2>1. UNCHANGED <<link, handler, peers, notify, belief, raced>>
    BY <1>12 DEF Queue, Forward, registration
  <2>2. QED
    BY <2>1 DEF PresenceInv, OfRole, Told, Informed, Untold, Counterpart
<1>13. CASE Eject(c)
  <2>1. /\ handler[c] \in {"fresh", "reading"} /\ handler' = [handler EXCEPT ![c] = "ejecting"]
        /\ link' = Closing(c)
        /\ UNCHANGED <<peers, notify, belief, raced>>
    BY <1>13 DEF Eject, registration
  <2>2. /\ handler'[c] = "ejecting" /\ \A e \in Conns : e # c => handler'[e] = handler[e]
        /\ \A e \in Conns : link'[e] = "open" => link[e] = "open"
    BY <1>2, <2>1 DEF TypeOK, Closing
  <2>3. \A e \in Conns : ~Untold(c, e)
    BY <2>1 DEF Untold
  <2>4. Informed(c)'
    BY <2>2 DEF Informed
  <2>5. Told'
    BY <2>1, <2>2, <2>3, <2>4, QuietTold
  <2>6. QED
    BY <2>1, <2>5, RolesStay
<1>14. QED
  BY <1>3, <1>4, <1>5, <1>6, <1>7, <1>8, <1>9, <1>10, <1>11, <1>12, <1>13 DEF HandlerStep

LEMMA PresenceInductive == Spec => []PresenceInv
BY InitPresence, NextPresence, RoomIsConsistent, PTL DEF Spec

(* Endpoints whose registrations are over know whether their counterpart is *)
(* in the room, unless it came or went while their own awaited a close.     *)
THEOREM EndpointsAreInformed == Spec => []PresenceAgrees
<1>1. PresenceInv => PresenceAgrees
  <2> SUFFICES ASSUME PresenceInv, NEW c \in Conns \ raced,
                      handler[c] \in {"reading", "resetting"}, link[c] = "open",
                      Counterpart(c) # None =>
                          handler[Counterpart(c)] \in {"reading", "resetting", "ejecting"}
               PROVE  belief[c] = IF Counterpart(c) = None THEN "absent" ELSE "present"
    BY DEF PresenceAgrees
  <2>1. Informed(c)
    BY DEF PresenceInv, Told
  <2>2. Counterpart(c) # None => ~Untold(Counterpart(c), c)
    BY DEF Untold
  <2>3. QED
    BY <2>1, <2>2 DEF Informed
<1>2. QED
  BY <1>1, PresenceInductive, PTL

=============================================================================
