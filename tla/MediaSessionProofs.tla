-------------------------- MODULE MediaSessionProofs --------------------------
(***************************************************************************)
(* The negotiation between robot and machine, for any faults in any number. *)
(*                                                                         *)
(* What is under way stays of the kind its reader expects: offers come     *)
(* from robots and answers from machines, whichever of their processes     *)
(* sent them.  With that the types are inductive, and the flag that delays *)
(* the robot's negotiation is never set without an offer.                  *)
(*                                                                         *)
(* The last two parts are about StreamServices: the tracks a negotiated    *)
(* bundled session carries, and the services that the launcher starts for  *)
(* the endpoints and the monitor judges.                                   *)
(***************************************************************************)
EXTENDS MediaSession, StreamServices, TLAPS, NaturalsInduction, WellFoundedInduction, FiniteSetTheorems

-----------------------------------------------------------------------------
(* The relay's queues: what is kept of a queue of E is a queue of E, by     *)
(* induction over its places.                                               *)

(* Induction over the numbers, for a set: the library's theorem takes an    *)
(* operator, and is of no use to the provers.                               *)
LEMMA Induction ==
    ASSUME NEW T \in SUBSET Nat, 0 \in T, \A n \in T : n + 1 \in T
    PROVE  T = Nat
<1> SUFFICES ASSUME Nat \ T # {} PROVE FALSE
  OBVIOUS
<1>1. PICK x \in Nat \ T : \A y \in Nat \ T : ~(<<y, x>> \in OpToRel(<, Nat))
  <2>1. IsWellFoundedOn(OpToRel(<, Nat), Nat)
    BY NatLessThanWellFounded
  <2>2. QED
    BY <2>1, WFMin
<1>2. x \in Nat \ T
  OBVIOUS
<1>3. x - 1 \in Nat \ T
  BY <1>2
<1>4. <<x - 1, x>> \in OpToRel(<, Nat)
  BY <1>2, <1>3 DEF OpToRel
<1>5. QED
  BY <1>1, <1>3, <1>4

(* The recursion of Kept, as an equation at one place of the queue. *)
Filtering(kept, queue, S, n) ==
    kept[n] = IF n = 0 THEN <<>>
              ELSE IF queue[n] \in S THEN Append(kept[n - 1], queue[n]) ELSE kept[n - 1]

(* The recursion has a solution on every initial part of the queue.        *)
LEMMA FilteringExists ==
    ASSUME NEW queue, NEW S, NEW n \in Nat
    PROVE  \E kept : \A i \in 0..n : Filtering(kept, queue, S, i)
<1> DEFINE T == {m \in Nat : \E kept : \A i \in 0..m : Filtering(kept, queue, S, i)}
<1>1. 0 \in T
  <2>1. \A i \in 0..0 : Filtering([j \in 0..0 |-> <<>>], queue, S, i)
    BY DEF Filtering
  <2>2. QED
    BY <2>1
<1>2. ASSUME NEW m \in T PROVE m + 1 \in T
  <2>1. PICK g : \A i \in 0..m : Filtering(g, queue, S, i)
    OBVIOUS
  <2> DEFINE last == IF queue[m + 1] \in S THEN Append(g[m], queue[m + 1]) ELSE g[m]
             h == [i \in 0..m + 1 |-> IF i = m + 1 THEN last ELSE g[i]]
  <2>2. \A i \in 0..m : h[i] = g[i]
    OBVIOUS
  <2>3. h[m + 1] = last
    OBVIOUS
  <2> HIDE DEF h
  <2>4. ASSUME NEW i \in 0..m + 1 PROVE Filtering(h, queue, S, i)
    <3>1. CASE i = m + 1
      BY <2>2, <2>3, <3>1 DEF Filtering
    <3>2. CASE i # m + 1
      <4>1. i \in 0..m /\ (i # 0 => i - 1 \in 0..m)
        BY <3>2
      <4>2. QED
        BY <2>1, <2>2, <4>1 DEF Filtering
    <3>3. QED
      BY <3>1, <3>2
  <2>5. QED
    BY <2>4
<1> HIDE DEF T
<1>3. T = Nat
  BY <1>1, <1>2, Induction DEF T
<1>4. QED
  BY <1>3 DEF T

(* Kept(queue, S) is the last value of a function that obeys the recursion. *)
LEMMA KeptIsFiltered ==
    ASSUME NEW queue, NEW S, Len(queue) \in Nat
    PROVE  \E kept : /\ \A n \in 0..Len(queue) : Filtering(kept, queue, S, n)
                     /\ Kept(queue, S) = kept[Len(queue)]
<1> DEFINE Is(g) == g = [n \in 0..Len(queue) |->
                           IF n = 0 THEN <<>>
                           ELSE IF queue[n] \in S THEN Append(g[n - 1], queue[n]) ELSE g[n - 1]]
           kept == CHOOSE g : Is(g)
<1>1. Kept(queue, S) = kept[Len(queue)]
  BY DEF Kept
<1>2. PICK g : \A i \in 0..Len(queue) : Filtering(g, queue, S, i)
  BY FilteringExists
<1> DEFINE h == [i \in 0..Len(queue) |-> g[i]]
<1>3. \A i \in 0..Len(queue) : /\ h[i] = g[i] 
                               /\ i # 0 => h[i - 1] = g[i - 1]
  OBVIOUS
<1>4. Is(h)
  <2> DEFINE f == [n \in 0..Len(queue) |->
                           IF n = 0 THEN <<>>
                           ELSE IF queue[n] \in S THEN Append(h[n - 1], queue[n]) ELSE h[n - 1]]
  <2>1. \A i \in 0..Len(queue) : f[i] = g[i]
    <3> HIDE DEF h
    <3>1. QED
    BY <1>2, <1>3 DEF Filtering
  <2> HIDE DEF f
  <2>2. f = [i \in 0..Len(queue) |-> f[i]]
    BY DEF f
  <2>3. h = f
    BY <2>1, <2>2
  <2>4. QED
    BY <2>3 DEF f
<1>5. Is(kept)
  <2> HIDE DEF Is
  <2> QED
  BY <1>4
<1> HIDE DEF kept
<1>6. \A n \in 0..Len(queue) : Filtering(kept, queue, S, n)
  BY <1>5 DEF Filtering
<1>7. QED
  BY <1>1, <1>6

LEMMA KeptType ==
    ASSUME NEW E, NEW queue \in Seq(E), NEW S
    PROVE  Kept(queue, S) \in Seq(E)
<1>1. PICK kept : /\ \A n \in 0..Len(queue) : Filtering(kept, queue, S, n)
                  /\ Kept(queue, S) = kept[Len(queue)]
  BY KeptIsFiltered
<1> DEFINE T == {n \in Nat : n <= Len(queue) => kept[n] \in Seq(E)}
<1>2. 0 \in T
  <2>1. kept[0] = <<>> /\ <<>> \in Seq(E)
    BY <1>1 DEF Filtering
  <2>2. QED
    BY <2>1
<1>3. ASSUME NEW n \in T PROVE n + 1 \in T
  <2>1. n \in Nat
    OBVIOUS
  <2>2. ASSUME n + 1 <= Len(queue) PROVE kept[n + 1] \in Seq(E)
    <3>1. kept[n] \in Seq(E) /\ queue[n + 1] \in E
      BY <2>1, <2>2
    <3>2. kept[n + 1] = IF queue[n + 1] \in S THEN Append(kept[n], queue[n + 1]) ELSE kept[n]
      BY <1>1, <2>1, <2>2 DEF Filtering
    <3>3. QED
      BY <3>1, <3>2
  <2>3. QED
    BY <2>1, <2>2
<1>4. T = Nat
  <2> HIDE DEF T
  <2> QED
    BY <1>2, <1>3, Induction DEF T
<1>5. Len(queue) \in T /\ Len(queue) \in Nat
  BY <1>4
<1>6. QED
  BY <1>1, <1>5

-----------------------------------------------------------------------------
(* The kinds of signals and messages. *)

Sent(r) ==
    IF r = "robot" THEN [type : {"offer"}, offer : Offers, from : Nat]
    ELSE [type : {"answer"}, answer : Answers, from : Nat]

Notices ==
    [type : {"registered"}, peer_ready : BOOLEAN]
        \cup [type : {"connected", "peer-ready", "peer-left"}]

SentBy == [r \in Roles |-> Sent(r)]
SentTo == [r \in Roles |-> Sent(target_role(r))]
ReceivedBy == [r \in Roles |-> Notices \cup Sent(target_role(r))]

Carries(boxes, kinds) ==
    /\ boxes = [r \in Roles |-> boxes[r]]
    /\ \A r \in Roles : boxes[r] \in Seq(kinds[r])

Routed == Carries(uplink, SentBy) /\ Carries(inbox, ReceivedBy) /\ Carries(pending, SentTo)

(* A robot whose flag has a reason, and a machine that comes to answer its  *)
(* last offer.                                                              *)
InOrder(b) ==
    /\ b \in Robots
    /\ b.pipeline \in {0, b.built}
    /\ b.negotiation_in_progress => b.creating > 0 \/ b.local_offer # None

MachineInOrder(m) ==
    /\ m \in Machines
    /\ m.answering # <<>> => m.last_remote_offer_sdp = m.answering[Len(m.answering)]

Connections ==
    /\ connected \subseteq Roles
    /\ registered \in [Roles -> Nat]
    /\ process \in [Roles -> Nat]

Counted == faults \in 0..MaxFaults /\ settled \in BOOLEAN

MediaInv == Routed /\ InOrder(robot) /\ MachineInOrder(machine) /\ Connections /\ Counted

LEMMA RoleFacts ==
    \A r \in Roles : /\ target_role(r) \in Roles
                     /\ SentBy[r] = Sent(r)
                     /\ SentTo[r] = Sent(target_role(r))
                     /\ SentTo[target_role(r)] = Sent(r)
                     /\ ReceivedBy[r] = Notices \cup Sent(target_role(r))
                     /\ ReceivedBy[target_role(r)] = Notices \cup Sent(r)
BY DEF Roles, target_role, SentBy, SentTo, ReceivedBy

LEMMA SequenceOfSubset ==
    ASSUME NEW A, NEW B, A \subseteq B, NEW s \in Seq(A)
    PROVE  s \in Seq(B)
OBVIOUS

LEMMA SequenceFacts ==
    ASSUME NEW E, NEW s \in Seq(E)
    PROVE  /\ <<>> \in Seq(E)
           /\ \A e \in E : Append(s, e) \in Seq(E)
           /\ \A d \in E, e \in E : <<d, e>> \in Seq(E)
           /\ \A u \in Seq(E) : s \o u \in Seq(E)
           /\ s # <<>> => Head(s) \in E /\ Tail(s) \in Seq(E)
           /\ \A n \in 0..Len(s) : SubSeq(s, 1, n) \in Seq(E)
<1>1. <<>> \in Seq(E) /\ \A e \in E : Append(s, e) \in Seq(E)
  OBVIOUS
<1>2. \A d \in E, e \in E : <<d, e>> \in Seq(E)
  OBVIOUS
<1>3. \A u \in Seq(E) : s \o u \in Seq(E)
  OBVIOUS
<1>4. s # <<>> => Head(s) \in E /\ Tail(s) \in Seq(E)
  OBVIOUS
<1>5. \A n \in 0..Len(s) : SubSeq(s, 1, n) \in Seq(E)
  OBVIOUS
<1>6. QED
  BY <1>1, <1>2, <1>3, <1>4, <1>5

(* The invariant implies the types and the flag's reason. *)
LEMMA MediaFacts == MediaInv => TypeOK /\ NegotiationOutstanding
<1> SUFFICES ASSUME MediaInv PROVE TypeOK /\ NegotiationOutstanding
  OBVIOUS
<1>1. \A r \in Roles : Sent(r) \subseteq Signals
  BY DEF Sent, Signals, Roles
<1>2. \A r \in Roles : Notices \cup Sent(r) \subseteq Messages
  BY <1>1 DEF Notices, Messages
<1>3. \A r \in Roles : /\ uplink[r] \in Seq(Signals)
                       /\ inbox[r] \in Seq(Messages)
                       /\ pending[r] \in Seq(Signals)
  BY <1>1, <1>2, SequenceOfSubset, RoleFacts DEF MediaInv, Routed, Carries
<1>4. /\ uplink \in [Roles -> Seq(Signals)]
      /\ inbox \in [Roles -> Seq(Messages)]
      /\ pending \in [Roles -> Seq(Signals)]
  BY <1>3 DEF MediaInv, Routed, Carries
<1>5. QED
  BY <1>4 DEF MediaInv, InOrder, MachineInOrder, Connections, Counted, TypeOK, NegotiationOutstanding

-----------------------------------------------------------------------------
(* The robot's operations, on any robot that is in order. *)

LEMMA NewRobotInOrder ==
    ASSUME NEW built \in Nat, NEW offers \in Nat
    PROVE  InOrder(NewRobot(built, offers))
BY DEF InOrder, NewRobot, Robots

LEMMA RequestOfferInOrder ==
    ASSUME NEW b, InOrder(b)
    PROVE  InOrder(CreateOffer(b)) /\ InOrder(OfferLater(b)) /\ InOrder(RequestOffer(b))
<1>1. InOrder(CreateOffer(b))
  <2> DEFINE c == CreateOffer(b)
  <2>1. b \in Robots /\ b.creating + 1 \in Nat /\ b.creating + 1 > 0
    BY DEF InOrder, Robots
  <2>2. c \in Robots
    BY <2>1 DEF CreateOffer, Robots
  <2>3. c.pipeline = b.pipeline /\ c.built = b.built /\ c.creating = b.creating + 1
    BY <2>1 DEF CreateOffer, Robots
  <2> HIDE DEF c
  <2>4. QED
    BY <2>1, <2>2, <2>3 DEF InOrder, c
<1>2. InOrder(OfferLater(b))
  BY DEF OfferLater, InOrder, Robots
<1>3. QED
  BY <1>1, <1>2 DEF RequestOffer

LEMMA ToldInOrder ==
    ASSUME NEW b, InOrder(b), NEW ready \in BOOLEAN
    PROVE  /\ InOrder([b EXCEPT !.peer_ready = ready])
           /\ InOrder([b EXCEPT !.pipeline_ready = ready])
           /\ InOrder([b EXCEPT !.negotiation_needed = ready])
           /\ InOrder([b EXCEPT !.offer_pending = ready])
           /\ InOrder([b EXCEPT !.asking = None])
BY DEF InOrder, Robots

LEMMA StopInOrder ==
    ASSUME NEW b, InOrder(b)
    PROVE  InOrder(StopMediaPipeline(b))
<1>1. b.built \in Nat /\ b.offers \in Nat /\ b.peer_ready \in BOOLEAN
  BY DEF InOrder, Robots
<1>2. QED
  BY <1>1, NewRobotInOrder, ToldInOrder DEF StopMediaPipeline

LEMMA StartInOrder ==
    ASSUME NEW b, InOrder(b)
    PROVE  InOrder(StartPipeline(b))
<1> DEFINE started == StartPipeline(b)
<1>1. b \in Robots /\ b.built + 1 \in Nat
  BY DEF InOrder, Robots
<1>2. started \in Robots
  BY <1>1 DEF StartPipeline, Robots
<1>3. /\ started.pipeline = started.built
      /\ started.negotiation_in_progress = b.negotiation_in_progress
      /\ started.creating = b.creating
      /\ started.local_offer = b.local_offer
  BY <1>1 DEF StartPipeline, Robots
<1> HIDE DEF started
<1>4. QED
  BY <1>2, <1>3 DEF InOrder, started

LEMMA SessionInOrder ==
    ASSUME NEW b, InOrder(b), NEW force_rebuild \in BOOLEAN
    PROVE  InOrder(StartRelayMediaSession(b, force_rebuild))
<1> DEFINE stopped == IF force_rebuild THEN StopMediaPipeline(b) ELSE b
           started == IF stopped.pipeline = 0 THEN StartPipeline(stopped) ELSE stopped
<1>1. InOrder(stopped)
  BY StopInOrder
<1>2. InOrder(started)
  <2> HIDE DEF stopped
  <2> QED
    BY <1>1, StartInOrder
<1> HIDE DEF started
<1>3. InOrder(RequestOffer([started EXCEPT !.offer_pending = TRUE]))
  BY <1>2, ToldInOrder, RequestOfferInOrder
<1>4. QED
  BY <1>3 DEF StartRelayMediaSession, started

LEMMA AnswerInOrder ==
    ASSUME NEW b, InOrder(b), NEW answer \in Answers
    PROVE  InOrder(AnswerArrives(b, answer))
<1> DEFINE seen == [b EXCEPT !.last_remote_answer_sdp = answer]
           cleared == [seen EXCEPT !.negotiation_in_progress = FALSE, !.offer_pending = FALSE]
<1>1. InOrder(seen)
  BY DEF InOrder, Robots
<1>2. InOrder(cleared) /\ cleared.negotiation_in_progress = FALSE
  <2> HIDE DEF seen
  <2> QED
    BY <1>1 DEF InOrder, Robots
<1>3. InOrder([cleared EXCEPT !.local_offer = None, !.remote = answer])
  <2> HIDE DEF cleared
  <2> QED
    BY <1>2 DEF InOrder, Robots
<1> HIDE DEF seen
<1>4. CASE answer = b.last_remote_answer_sdp
  BY <1>4 DEF AnswerArrives
<1>5. CASE answer # b.last_remote_answer_sdp /\ b.pipeline = 0
  BY <1>1, <1>5 DEF AnswerArrives, seen
<1>6. CASE answer # b.last_remote_answer_sdp /\ b.pipeline # 0
  <2>1. AnswerArrives(b, answer) = IF b.local_offer # None
                                  THEN [cleared EXCEPT !.local_offer = None, !.remote = answer]
                                  ELSE cleared
    BY <1>6 DEF AnswerArrives, seen
  <2> HIDE DEF cleared
  <2>2. QED
    BY <1>2, <1>3, <2>1
<1>7. QED
  BY <1>4, <1>5, <1>6

(* A new offer is one: None is no offer. *)
LEMMA OfferInOrder ==
    ASSUME NEW b, InOrder(b), NEW offer \in Offers, b.creating > 0
    PROVE  InOrder([b EXCEPT !.creating = @ - 1, !.offers = @ + 1, !.local_offer = offer])
<1> DEFINE c == [b EXCEPT !.creating = @ - 1, !.offers = @ + 1, !.local_offer = offer]
<1>1. b \in Robots /\ b.offers + 1 \in Nat /\ b.creating - 1 \in Nat
  BY DEF InOrder, Robots
<1>2. c \in Robots
  BY <1>1 DEF Robots
<1>3. c.pipeline = b.pipeline /\ c.built = b.built /\ c.local_offer = offer
  BY <1>1 DEF Robots
<1> HIDE DEF c
<1>4. InOrder(c)
  BY <1>2, <1>3, MediaAssumption DEF InOrder
<1>5. QED
  BY <1>4 DEF c

-----------------------------------------------------------------------------
(* The queues and connections between them. *)

LEMMA PutCarries ==
    ASSUME NEW boxes, NEW kinds, Carries(boxes, kinds), NEW r \in Roles, NEW s \in Seq(kinds[r])
    PROVE  Carries([boxes EXCEPT ![r] = s], kinds)
BY DEF Carries

LEMMA TellCarries ==
    ASSUME NEW boxes, NEW kinds, Carries(boxes, kinds), NEW r \in Roles, NEW m \in kinds[r]
    PROVE  Carries(Tell(boxes, r, m), kinds)
<1>1. boxes[r] \in Seq(kinds[r])
  BY DEF Carries
<1> DEFINE s == Append(boxes[r], m)
<1>2. s \in Seq(kinds[r])
  BY <1>1, SequenceFacts
<1>3. Tell(boxes, r, m) = [boxes EXCEPT ![r] = s]
  BY DEF Tell
<1> HIDE DEF s
<1>4. Carries([boxes EXCEPT ![r] = s], kinds)
  BY <1>2, PutCarries
<1>5. QED
  BY <1>3, <1>4

LEMMA TailCarries ==
    ASSUME NEW boxes, NEW kinds, Carries(boxes, kinds), NEW r \in Roles, boxes[r] # <<>>
    PROVE  /\ Head(boxes[r]) \in kinds[r]
           /\ Carries([boxes EXCEPT ![r] = Tail(@)], kinds)
<1>1. boxes[r] \in Seq(kinds[r])
  BY DEF Carries
<1>2. Head(boxes[r]) \in kinds[r] /\ Tail(boxes[r]) \in Seq(kinds[r])
  BY <1>1, SequenceFacts
<1>3. QED
  BY <1>2, PutCarries

LEMMA PrefixCarries ==
    ASSUME NEW boxes, NEW kinds, Carries(boxes, kinds), NEW r \in Roles, NEW s \in Prefixes(boxes[r])
    PROVE  Carries([boxes EXCEPT ![r] = s], kinds)
<1>1. boxes[r] \in Seq(kinds[r])
  BY DEF Carries
<1>2. PICK n \in 0..Len(boxes[r]) : s = SubSeq(boxes[r], 1, n)
  BY DEF Prefixes
<1>3. s \in Seq(kinds[r])
  BY <1>1, <1>2, SequenceFacts
<1>4. QED
  BY <1>3, PutCarries

LEMMA EmptyCarries ==
    ASSUME NEW boxes, NEW kinds, Carries(boxes, kinds), NEW r \in Roles
    PROVE  Carries([boxes EXCEPT ![r] = <<>>], kinds)
<1>1. <<>> \in Seq(kinds[r])
  OBVIOUS
<1>2. QED
  BY <1>1, PutCarries

LEMMA NoticeFacts ==
    /\ \A b \in BOOLEAN : [type |-> "registered", peer_ready |-> b] \in Notices
    /\ [type |-> "connected"] \in Notices
    /\ [type |-> "peer-ready"] \in Notices
    /\ [type |-> "peer-left"] \in Notices
BY DEF Notices

(* The relay accepts a connection: two notices and what was queued for it.  *)
LEMMA ConnectStep ==
    ASSUME MediaInv, NEW r \in Roles, Connect(r)
    PROVE  MediaInv'
<1> DEFINE t == target_role(r)
           notices == <<[type |-> "registered", peer_ready |-> Present(t)], [type |-> "connected"]>>
           queued == Kept(pending[r], {m \in Signals : IsCurrent(m, r)})
<1>1. /\ UNCHANGED <<robot, machine, process, uplink, faults, settled>>
      /\ connected' = connected \cup {r}
      /\ registered' = [registered EXCEPT ![r] = process[r]]
      /\ pending' = [pending EXCEPT ![r] = <<>>]
  BY DEF Connect, faultVars
<1>2. PICK reply \in {<<1, 2>>, <<2, 1>>} :
          LET mine == [inbox EXCEPT ![r] = @ \o <<notices[reply[1]], notices[reply[2]]>> \o queued]
          IN  inbox' = IF t \in connected THEN Tell(mine, t, [type |-> "peer-ready"]) ELSE mine
  BY DEF Connect
<1>3. queued \in Seq(ReceivedBy[r])
  <2>1. pending[r] \in Seq(Sent(t))
    BY RoleFacts DEF MediaInv, Routed, Carries
  <2>2. queued \in Seq(Sent(t))
    BY <2>1, KeptType
  <2>3. QED
    BY <2>2, RoleFacts, SequenceOfSubset
<1>4. <<notices[reply[1]], notices[reply[2]]>> \in Seq(ReceivedBy[r])
  <2>1. Present(t) \in BOOLEAN
    BY DEF Present
  <2>2. notices[1] \in Notices /\ notices[2] \in Notices
    BY <2>1, NoticeFacts
  <2>3. notices[reply[1]] \in ReceivedBy[r] /\ notices[reply[2]] \in ReceivedBy[r]
    BY <1>2, <2>2, RoleFacts
  <2> HIDE DEF notices
  <2>4. QED
    BY <1>3, <2>3, SequenceFacts
<1> HIDE DEF notices, queued
<1> DEFINE mine == [inbox EXCEPT ![r] = @ \o <<notices[reply[1]], notices[reply[2]]>> \o queued]
<1>5. Carries(mine, ReceivedBy)
  <2>1. inbox[r] \in Seq(ReceivedBy[r])
    BY DEF MediaInv, Routed, Carries
  <2>2. inbox[r] \o <<notices[reply[1]], notices[reply[2]]>> \o queued \in Seq(ReceivedBy[r])
    BY <1>3, <1>4, <2>1, SequenceFacts
  <2>3. QED
    BY <2>2, PutCarries DEF MediaInv, Routed
<1>6. Carries(inbox', ReceivedBy)
  <2>1. inbox' = IF t \in connected THEN Tell(mine, t, [type |-> "peer-ready"]) ELSE mine
    BY <1>2
  <2>2. t \in Roles /\ [type |-> "peer-ready"] \in ReceivedBy[t]
    BY RoleFacts, NoticeFacts
  <2> HIDE DEF mine, t
  <2>3. QED
    BY <1>5, <2>1, <2>2, TellCarries
<1>7. Carries(pending', SentTo)
  BY <1>1, EmptyCarries DEF MediaInv, Routed
<1>8. Connections'
  BY <1>1 DEF MediaInv, Connections
<1>9. QED
  BY <1>1, <1>6, <1>7, <1>8 DEF MediaInv, Routed, Counted, InOrder, MachineInOrder

LEMMA UnregisterStep ==
    ASSUME MediaInv, NEW r \in Roles, Unregister(r)
    PROVE  MediaInv'
<1> DEFINE t == target_role(r)
<1>1. /\ UNCHANGED <<robot, machine, connected, process, uplink, pending, faults, settled>>
      /\ registered' = [registered EXCEPT ![r] = 0]
      /\ inbox' = IF t \in connected THEN Tell(inbox, t, [type |-> "peer-left"]) ELSE inbox
  BY DEF Unregister, faultVars
<1>2. t \in Roles /\ [type |-> "peer-left"] \in ReceivedBy[t]
  BY RoleFacts, NoticeFacts
<1> HIDE DEF t
<1>3. Carries(inbox', ReceivedBy)
  BY <1>1, <1>2, TellCarries DEF MediaInv, Routed
<1>4. Connections'
  BY <1>1 DEF MediaInv, Connections
<1>5. QED
  BY <1>1, <1>3, <1>4 DEF MediaInv, Routed, Counted, InOrder, MachineInOrder

(* A signal goes to the counterpart, or to its queue. *)
LEMMA ForwardStep ==
    ASSUME MediaInv, NEW r \in Roles, Forward(r)
    PROVE  MediaInv'
<1> DEFINE t == target_role(r)
           signal == Head(uplink[r])
<1>1. /\ UNCHANGED <<robot, machine, connected, registered, process, faults, settled>>
      /\ uplink[r] # <<>>
      /\ uplink' = [uplink EXCEPT ![r] = Tail(@)]
      /\ \/ inbox' = Tell(inbox, t, signal) /\ UNCHANGED pending
         \/ pending' = [pending EXCEPT ![t] = Queued(@, signal)] /\ UNCHANGED inbox
  BY DEF Forward, faultVars
<1>2. Carries(uplink', SentBy) /\ signal \in SentBy[r]
  BY <1>1, TailCarries DEF MediaInv, Routed
<1>3. t \in Roles /\ signal \in ReceivedBy[t] /\ signal \in SentTo[t]
  BY <1>2, RoleFacts
<1> HIDE DEF signal, t
<1>4. Carries(Tell(inbox, t, signal), ReceivedBy)
  BY <1>3, TellCarries DEF MediaInv, Routed
<1>5. Carries([pending EXCEPT ![t] = Queued(@, signal)], SentTo)
  <2>1. pending[t] \in Seq(SentTo[t])
    BY <1>3 DEF MediaInv, Routed, Carries
  <2>2. Kept(pending[t], {m \in Signals : m.from # signal.from}) \in Seq(SentTo[t])
    BY <2>1, KeptType
  <2>3. Queued(pending[t], signal) \in Seq(SentTo[t])
    BY <1>3, <2>2, SequenceFacts DEF Queued
  <2>4. QED
    BY <1>3, <2>3, PutCarries DEF MediaInv, Routed
<1>6. Carries(inbox', ReceivedBy) /\ Carries(pending', SentTo)
  BY <1>1, <1>4, <1>5 DEF MediaInv, Routed
<1>7. QED
  BY <1>1, <1>2, <1>6 DEF MediaInv, Routed, Counted, Connections, InOrder, MachineInOrder

LEMMA ForwardFailsStep ==
    ASSUME MediaInv, NEW r \in Roles, ForwardFails(r)
    PROVE  MediaInv'
<1>1. /\ UNCHANGED <<robot, machine, registered, process, inbox, pending, faults, settled>>
      /\ uplink[r] # <<>>
      /\ \/ uplink' = [uplink EXCEPT ![r] = Tail(@)] /\ UNCHANGED connected
         \/ uplink' = [uplink EXCEPT ![r] = <<>>] /\ connected' = connected \ {r}
  BY DEF ForwardFails, faultVars
<1>2. Carries(uplink', SentBy)
  BY <1>1, TailCarries, EmptyCarries DEF MediaInv, Routed
<1>3. connected' \subseteq Roles
  BY <1>1 DEF MediaInv, Connections
<1>4. QED
  BY <1>1, <1>2, <1>3 DEF MediaInv, Routed, Counted, Connections, InOrder, MachineInOrder

-----------------------------------------------------------------------------
(* The endpoints. *)

(* A message is handled in the order the relay sent it. *)
LEMMA TakesFacts ==
    ASSUME MediaInv, NEW r \in Roles, Takes(r)
    PROVE  /\ Head(inbox[r]) \in Notices \cup Sent(target_role(r))
           /\ Routed' /\ Connections' /\ Counted'
<1>1. /\ inbox[r] # <<>>
      /\ inbox' = [inbox EXCEPT ![r] = Tail(@)]
      /\ UNCHANGED <<connected, registered, uplink, pending, process, faults, settled>>
  BY DEF Takes, relay, faultVars
<1>2. Head(inbox[r]) \in ReceivedBy[r] /\ Carries(inbox', ReceivedBy)
  BY <1>1, TailCarries DEF MediaInv, Routed
<1>3. QED
  BY <1>1, <1>2, RoleFacts DEF MediaInv, Routed, Connections, Counted

LEMMA RobotHandlesStep ==
    ASSUME MediaInv, RobotHandles
    PROVE  MediaInv'
<1> DEFINE message == Head(inbox["robot"])
           told(ready) == [robot EXCEPT !.peer_ready = ready]
<1>1. "robot" \in Roles /\ target_role("robot") = "machine" /\ "machine" # "robot"
  BY DEF Roles, target_role
<1>2. /\ message \in Notices \cup Sent("machine")
      /\ Routed' /\ Connections' /\ Counted'
  BY <1>1, TakesFacts DEF RobotHandles
<1>3. InOrder(robot) /\ \A ready \in BOOLEAN : InOrder(told(ready))
  BY ToldInOrder DEF MediaInv
<1> HIDE DEF message, told
<1>4. machine' = machine
  BY DEF RobotHandles
<1>5. robot' = CASE message.type = "registered" ->
                         StartRelayMediaSession(told(message.peer_ready), FALSE)
                  [] message.type = "connected" -> StartRelayMediaSession(robot, FALSE)
                  [] message.type = "peer-ready" -> StartRelayMediaSession(told(TRUE), TRUE)
                  [] message.type = "peer-left" -> StopMediaPipeline(told(FALSE))
                  [] message.type = "answer" -> AnswerArrives(robot, message.answer)
  BY DEF RobotHandles, message, told
<1>6. \/ message.type = "registered" /\ message.peer_ready \in BOOLEAN
      \/ message.type \in {"connected", "peer-ready", "peer-left"}
      \/ message.type = "answer" /\ message.answer \in Answers
  BY <1>1, <1>2 DEF Notices, Sent
<1>7. InOrder(robot')
  <2>1. CASE message.type = "registered"
    <3>1. robot' = StartRelayMediaSession(told(message.peer_ready), FALSE)
      BY <1>5, <2>1
    <3>2. InOrder(told(message.peer_ready))
      BY <1>3, <1>6, <2>1
    <3>3. QED
      BY <3>1, <3>2, SessionInOrder
  <2>2. CASE message.type = "connected"
    <3>1. robot' = StartRelayMediaSession(robot, FALSE)
      BY <1>5, <2>2
    <3>2. QED
      BY <1>3, <3>1, SessionInOrder
  <2>3. CASE message.type = "peer-ready"
    <3>1. robot' = StartRelayMediaSession(told(TRUE), TRUE)
      BY <1>5, <2>3
    <3>2. QED
      BY <1>3, <3>1, SessionInOrder
  <2>4. CASE message.type = "peer-left"
    <3>1. robot' = StopMediaPipeline(told(FALSE))
      BY <1>5, <2>4
    <3>2. QED
      BY <1>3, <3>1, StopInOrder
  <2>5. CASE message.type = "answer"
    <3>1. robot' = AnswerArrives(robot, message.answer) /\ message.answer \in Answers
      BY <1>5, <1>6, <2>5
    <3>2. QED
      BY <1>3, <3>1, AnswerInOrder
  <2>6. QED
    BY <1>6, <2>1, <2>2, <2>3, <2>4, <2>5
<1>8. QED
  BY <1>2, <1>4, <1>7 DEF MediaInv, InOrder, MachineInOrder

(* A step of the robot that is no message. *)
LEMMA PipelinePlayingStep ==
    ASSUME MediaInv, PipelinePlaying
    PROVE  MediaInv'
<1> DEFINE ready == [robot EXCEPT !.pipeline_ready = TRUE]
<1>1. /\ UNCHANGED <<machine, connected, registered, process, inbox, pending, faults, settled, uplink>>
      /\ robot' = RequestOffer(ready) \/ robot' = ready
  BY DEF PipelinePlaying, RobotStep, faultVars
<1>2. InOrder(ready)
  BY ToldInOrder DEF MediaInv
<1> HIDE DEF ready
<1>3. InOrder(robot')
  BY <1>1, <1>2, RequestOfferInOrder
<1>4. QED
  BY <1>1, <1>3 DEF MediaInv, Routed, Connections, Counted, InOrder, MachineInOrder

LEMMA NegotiationNeededStep ==
    ASSUME MediaInv, NegotiationNeeded
    PROVE  MediaInv'
<1> DEFINE found == IF MayOffer(robot) THEN "offer" ELSE "wait"
<1>1. /\ UNCHANGED <<machine, connected, registered, process, inbox, pending, faults, settled, uplink>>
      /\ robot' = [robot EXCEPT !.negotiation_needed = FALSE, !.asking = found]
  BY DEF NegotiationNeeded, RobotStep, faultVars
<1>2. found \in {"offer", "wait"}
  OBVIOUS
<1> HIDE DEF found
<1>3. InOrder(robot')
  BY <1>1, <1>2 DEF MediaInv, InOrder, Robots
<1>4. QED
  BY <1>1, <1>3 DEF MediaInv, Routed, Connections, Counted, InOrder, MachineInOrder

LEMMA NegotiationAsksStep ==
    ASSUME MediaInv, NegotiationAsks
    PROVE  MediaInv'
<1> DEFINE asked == [robot EXCEPT !.asking = None]
<1>1. /\ UNCHANGED <<machine, connected, registered, process, inbox, pending, faults, settled, uplink>>
      /\ robot' = CreateOffer(asked) \/ robot' = OfferLater(asked)
  BY DEF NegotiationAsks, RobotStep, faultVars
<1>2. InOrder(asked)
  BY ToldInOrder DEF MediaInv
<1> HIDE DEF asked
<1>3. InOrder(robot')
  BY <1>1, <1>2, RequestOfferInOrder
<1>4. QED
  BY <1>1, <1>3 DEF MediaInv, Routed, Connections, Counted, InOrder, MachineInOrder

(* The offer is sent as the flag's reason changes from creating to offered. *)
LEMMA OfferCreatedStep ==
    ASSUME MediaInv, OfferCreated
    PROVE  MediaInv'
<1> DEFINE offer == [pipeline |-> robot.pipeline, n |-> robot.offers + 1]
           signal == [type |-> "offer", offer |-> offer, from |-> process["robot"]]
<1>1. /\ UNCHANGED <<machine, connected, registered, process, inbox, pending, faults, settled>>
      /\ robot' = [robot EXCEPT !.creating = @ - 1, !.offers = @ + 1, !.local_offer = offer]
      /\ robot.creating > 0
      /\ uplink' = Tell(uplink, "robot", signal)
  BY DEF OfferCreated, RobotStep, faultVars
<1>2. offer \in Offers
  BY DEF MediaInv, InOrder, Robots, Offers
<1>3. "robot" \in Roles /\ signal \in SentBy["robot"]
  <2> HIDE DEF offer
  <2>1. "robot" \in Roles /\ process["robot"] \in Nat
    BY DEF Roles, MediaInv, Connections
  <2>2. QED
    BY <1>2, <2>1, RoleFacts DEF Sent
<1> HIDE DEF offer, signal
<1>4. InOrder(robot')
  BY <1>1, <1>2, OfferInOrder DEF MediaInv
<1>5. Carries(uplink', SentBy)
  BY <1>1, <1>3, TellCarries DEF MediaInv, Routed
<1>6. QED
  BY <1>1, <1>4, <1>5 DEF MediaInv, Routed, Connections, Counted, InOrder, MachineInOrder

LEMMA NewMachineInOrder ==
    ASSUME NEW receiver \in Nat
    PROVE  MachineInOrder(NewMachine(receiver))
BY DEF MachineInOrder, NewMachine, Machines

LEMMA RecoverInOrder ==
    ASSUME NEW m, MachineInOrder(m)
    PROVE  MachineInOrder(RecoverPipeline(m))
<1>1. m.receiver + 1 \in Nat
  BY DEF MachineInOrder, Machines
<1>2. QED
  BY <1>1, NewMachineInOrder DEF RecoverPipeline

(* One more offer to answer, and one less. *)
LEMMA AnswerLater ==
    ASSUME NEW m, MachineInOrder(m), NEW offer \in Offers
    PROVE  MachineInOrder([m EXCEPT !.last_remote_offer_sdp = offer,
                                    !.answering = Append(@, offer)])
<1> DEFINE n == [m EXCEPT !.last_remote_offer_sdp = offer, !.answering = Append(@, offer)]
           queue == Append(m.answering, offer)
<1>1. m \in Machines /\ m.answering \in Seq(Offers)
  BY DEF MachineInOrder, Machines
<1>2. queue \in Seq(Offers) /\ queue[Len(queue)] = offer
  BY <1>1
<1> HIDE DEF queue
<1>3. n \in Machines /\ n.answering = queue /\ n.last_remote_offer_sdp = offer
  BY <1>1, <1>2 DEF Machines, queue
<1>4. QED
  BY <1>2, <1>3 DEF MachineInOrder

LEMMA AnswerNow ==
    ASSUME NEW m, MachineInOrder(m), m.answering # <<>>
    PROVE  /\ Head(m.answering) \in Offers
           /\ MachineInOrder([m EXCEPT !.answering = Tail(@)])
<1> DEFINE rest == Tail(m.answering)
           n == [m EXCEPT !.answering = rest]
<1>1. m \in Machines /\ m.answering \in Seq(Offers)
  BY DEF MachineInOrder, Machines
<1>2. /\ Head(m.answering) \in Offers
      /\ rest \in Seq(Offers)
      /\ rest # <<>> => rest[Len(rest)] = m.answering[Len(m.answering)]
  BY <1>1
<1> HIDE DEF rest
<1>3. /\ n \in Machines
      /\ n.answering = rest
      /\ n.last_remote_offer_sdp = m.last_remote_offer_sdp
  BY <1>1, <1>2 DEF Machines
<1>4. MachineInOrder(n)
  BY <1>2, <1>3 DEF MachineInOrder
<1>5. QED
  BY <1>2, <1>4 DEF rest

LEMMA MachineHandlesStep ==
    ASSUME MediaInv, MachineHandles
    PROVE  MediaInv'
<1> DEFINE message == Head(inbox["machine"])
<1>1. "machine" \in Roles /\ target_role("machine") = "robot"
  BY DEF Roles, target_role
<1>2. /\ message \in Notices \cup Sent("robot")
      /\ Routed' /\ Connections' /\ Counted'
  BY <1>1, TakesFacts DEF MachineHandles
<1> HIDE DEF message
<1>3. robot' = robot
  BY DEF MachineHandles
<1>4. machine' =
        CASE message.type \in {"registered", "connected"} -> machine
          [] message.type \in {"peer-ready", "peer-left"} ->
               IF machine.last_remote_offer_sdp # None THEN RecoverPipeline(machine) ELSE machine
          [] message.type = "offer" ->
               IF message.offer = machine.last_remote_offer_sdp THEN machine
               ELSE [machine EXCEPT !.last_remote_offer_sdp = message.offer,
                                    !.answering = Append(@, message.offer)]
  BY DEF MachineHandles, message
<1>5. \/ message.type \in {"registered", "connected"}
      \/ message.type \in {"peer-ready", "peer-left"}
      \/ message.type = "offer" /\ message.offer \in Offers
  BY <1>2 DEF Notices, Sent
<1>6. MachineInOrder(machine')
  <2>1. CASE message.type \in {"registered", "connected"}
    BY <1>4, <2>1 DEF MediaInv
  <2>2. CASE message.type \in {"peer-ready", "peer-left"}
    <3>1. machine' = RecoverPipeline(machine) \/ machine' = machine
      BY <1>4, <2>2
    <3>2. QED
      BY <3>1, RecoverInOrder DEF MediaInv
  <2>3. CASE message.type = "offer"
    <3>1. message.offer \in Offers
      BY <1>5, <2>3
    <3>2. \/ machine' = machine
          \/ machine' = [machine EXCEPT !.last_remote_offer_sdp = message.offer,
                                        !.answering = Append(@, message.offer)]
      BY <1>4, <2>3
    <3>3. QED
      BY <3>1, <3>2, AnswerLater DEF MediaInv
  <2>4. QED
    BY <1>5, <2>1, <2>2, <2>3
<1>7. QED
  BY <1>2, <1>3, <1>6 DEF MediaInv, InOrder, MachineInOrder

LEMMA AnswerCreatedStep ==
    ASSUME MediaInv, AnswerCreated
    PROVE  MediaInv'
<1> DEFINE answer == [offer |-> Head(machine.answering), receiver |-> machine.receiver]
           signal == [type |-> "answer", from |-> process["machine"], answer |-> answer]
<1>1. /\ UNCHANGED <<robot, connected, registered, process, inbox, pending, faults, settled>>
      /\ machine.answering # <<>>
      /\ machine' = [machine EXCEPT !.answering = Tail(@)]
      /\ uplink' = Tell(uplink, "machine", signal)
  BY DEF AnswerCreated, faultVars
<1>2. answer \in Answers
  BY <1>1, AnswerNow DEF MediaInv, MachineInOrder, Machines, Answers
<1>3. "machine" \in Roles /\ signal \in SentBy["machine"]
  <2> HIDE DEF answer
  <2>1. "machine" \in Roles /\ "machine" # "robot" /\ process["machine"] \in Nat
    BY DEF Roles, MediaInv, Connections
  <2>2. QED
    BY <1>2, <2>1, RoleFacts DEF Sent
<1> HIDE DEF answer, signal
<1>4. MachineInOrder(machine')
  BY <1>1, AnswerNow DEF MediaInv
<1>5. Carries(uplink', SentBy)
  BY <1>1, <1>3, TellCarries DEF MediaInv, Routed
<1>6. QED
  BY <1>1, <1>4, <1>5 DEF MediaInv, Routed, Connections, Counted, InOrder

-----------------------------------------------------------------------------
(* Faults. *)

LEMMA FaultCounted ==
    ASSUME MediaInv, NEW r, NEW kind, Fault(r, kind)
    PROVE  Counted'
<1>1. faults \in Nat /\ MaxFaults \in Nat /\ faults < MaxFaults /\ faults' = faults + 1
  BY MediaAssumption DEF Fault, MediaInv, Counted
<1>2. settled' \in BOOLEAN
  BY DEF Fault
<1>3. QED
  BY <1>1, <1>2 DEF Counted

LEMMA LosesFacts ==
    ASSUME MediaInv, NEW r \in Roles, Loses(r)
    PROVE  /\ connected' \subseteq Roles
           /\ Carries(uplink', SentBy)
           /\ UNCHANGED <<registered, pending>>
<1>1. PICK s \in Prefixes(uplink[r]) : uplink' = [uplink EXCEPT ![r] = s]
  BY DEF Loses
<1>2. Carries(uplink', SentBy)
  BY <1>1, PrefixCarries DEF MediaInv, Routed
<1>3. QED
  BY <1>2 DEF Loses, MediaInv, Connections

LEMMA DropStep ==
    ASSUME MediaInv, NEW r \in Roles, Drop(r)
    PROVE  MediaInv'
<1>1. PICK s \in Prefixes(inbox[r]) : inbox' = [inbox EXCEPT ![r] = s]
  BY DEF Drop
<1>2. Carries(inbox', ReceivedBy)
  BY <1>1, PrefixCarries DEF MediaInv, Routed
<1>3. Fault(r, "drop") /\ Loses(r) /\ UNCHANGED <<robot, machine, process>>
  BY DEF Drop
<1>4. Counted'
  BY <1>3, FaultCounted
<1>5. QED
  BY <1>2, <1>3, <1>4, LosesFacts DEF MediaInv, Routed, Connections, InOrder, MachineInOrder

LEMMA RestartStep ==
    ASSUME MediaInv, NEW r \in Roles, Restart(r)
    PROVE  MediaInv'
<1>1. /\ Fault(r, "restart") /\ Loses(r)
      /\ inbox' = [inbox EXCEPT ![r] = <<>>]
      /\ process' = [process EXCEPT ![r] = @ + 1]
      /\ \/ robot' = NewRobot(robot.built, robot.offers) /\ UNCHANGED machine
         \/ machine' = NewMachine(machine.receiver + 1) /\ UNCHANGED robot
  BY DEF Restart
<1>2. Carries(inbox', ReceivedBy)
  BY <1>1, EmptyCarries DEF MediaInv, Routed
<1>3. process' \in [Roles -> Nat]
  BY <1>1 DEF MediaInv, Connections
<1>4. InOrder(robot')
  <2>1. robot.built \in Nat /\ robot.offers \in Nat
    BY DEF MediaInv, InOrder, Robots
  <2>2. QED
    BY <1>1, <2>1, NewRobotInOrder DEF MediaInv
<1>5. MachineInOrder(machine')
  <2>1. machine.receiver + 1 \in Nat
    BY DEF MediaInv, MachineInOrder, Machines
  <2>2. QED
    BY <1>1, <2>1, NewMachineInOrder DEF MediaInv
<1>6. Counted'
  BY <1>1, FaultCounted
<1>7. QED
  BY <1>1, <1>2, <1>3, <1>4, <1>5, <1>6, LosesFacts
     DEF MediaInv, Routed, Connections, InOrder, MachineInOrder

LEMMA RecoveryStep ==
    ASSUME MediaInv, RobotRecovers \/ MachineRecovers
    PROVE  MediaInv'
<1>1. /\ UNCHANGED <<connected, registered, uplink, pending, process, inbox>>
      /\ Counted'
  BY FaultCounted DEF RobotRecovers, MachineRecovers, relay
<1>2. InOrder(robot')
  <2>1. CASE RobotRecovers
    <3> DEFINE stopped == StopMediaPipeline(robot)
               started == StartPipeline(stopped)
    <3>1. InOrder(stopped)
      BY StopInOrder DEF MediaInv
    <3>2. robot' = [started EXCEPT !.offer_pending = TRUE] \/ robot' = stopped
      BY <2>1 DEF RobotRecovers
    <3>3. InOrder(started)
      <4> HIDE DEF stopped
      <4> QED
        BY <3>1, StartInOrder
    <3> HIDE DEF stopped, started
    <3>4. QED
      BY <3>1, <3>2, <3>3, ToldInOrder
  <2>2. CASE MachineRecovers
    BY <2>2 DEF MachineRecovers, MediaInv
  <2>3. QED
    BY <2>1, <2>2
<1>3. MachineInOrder(machine')
  BY RecoverInOrder DEF RobotRecovers, MachineRecovers, MediaInv
<1>4. QED
  BY <1>1, <1>2, <1>3 DEF MediaInv, Routed, Connections, InOrder, MachineInOrder

-----------------------------------------------------------------------------
LEMMA InitInOrder == Init => MediaInv
<1> SUFFICES ASSUME Init PROVE MediaInv
  OBVIOUS
<1>1. InOrder(robot) /\ MachineInOrder(machine)
  BY NewRobotInOrder, NewMachineInOrder DEF Init
<1>2. Routed
  <2>1. ASSUME NEW kinds PROVE Carries([r \in Roles |-> <<>>], kinds)
    <3>1. \A E : <<>> \in Seq(E)
      OBVIOUS
    <3>2. QED
      BY <3>1 DEF Carries
  <2>2. QED
    BY <2>1 DEF Init, Routed
<1>3. Connections /\ Counted
  BY MediaAssumption DEF Init, Connections, Counted
<1>4. QED
  BY <1>1, <1>2, <1>3 DEF MediaInv

(* Whatever order the endpoints act in, and whatever fails. *)
LEMMA MediaInductive == Spec => []MediaInv
<1>1. MediaInv /\ [Next]_vars => MediaInv'
  <2> SUFFICES ASSUME MediaInv, [Next]_vars PROVE MediaInv'
    OBVIOUS
  <2>1. CASE UNCHANGED vars
    BY <2>1 DEF vars, relay, faultVars, MediaInv, Routed, Connections, Counted, InOrder,
       MachineInOrder
  <2>2. ASSUME NEW r \in Roles, Signalling(r) \/ Drop(r) \/ Restart(r)
        PROVE  MediaInv'
    BY <2>2, ConnectStep, UnregisterStep, ForwardStep, ForwardFailsStep, DropStep, RestartStep
       DEF Signalling
  <2>3. CASE Endpoints
    BY <2>3, RobotHandlesStep, PipelinePlayingStep, NegotiationNeededStep,
       NegotiationAsksStep, OfferCreatedStep, MachineHandlesStep, AnswerCreatedStep DEF Endpoints
  <2>4. CASE RobotRecovers \/ MachineRecovers
    BY <2>4, RecoveryStep
  <2>5. QED
    BY <2>1, <2>2, <2>3, <2>4 DEF Next
<1>2. QED
  BY <1>1, InitInOrder, PTL DEF Spec

(* Endpoints, connections and queues hold what they are meant to: no        *)
(* endpoint is ever handed a signal it has no case for.                     *)
THEOREM SessionTypes == Spec => []TypeOK
BY MediaInductive, MediaFacts, PTL

(* A robot that holds back its offers has one out or under way, for any     *)
(* number of faults of any kind.                                            *)
THEOREM NegotiationNotStuck == Spec => []NegotiationOutstanding
BY MediaInductive, MediaFacts, PTL

-----------------------------------------------------------------------------
(* The tracks of a bundled session (StreamServices).                       *)
(* What the machine knows of its tracks: the streams are numbered, and a     *)
(* track that feeds one was offered, with its msid.                          *)
TracksInv ==
    /\ host \in Hosts
    /\ document \in Documents
    /\ media = [streams |-> media.streams, tracks |-> media.tracks,
                msids |-> media.msids, routed |-> media.routed]
    /\ DOMAIN media.streams \subseteq Nat \ {0}
    /\ DOMAIN media.msids = DOMAIN media.tracks
    /\ DOMAIN media.routed \subseteq DOMAIN media.tracks
    /\ TracksRouted

(* The first of some places is one of them, if there are any. *)
LEMMA FirstIsPlace ==
    ASSUME NEW places \in SUBSET (Nat \ {0})
    PROVE  /\ places # {} => First(places) \in places
           /\ First(places) > 0 => First(places) \in places
           /\ places = {} => First(places) = 0
<1>1. ASSUME places # {} PROVE \E i \in places : \A j \in places : i <= j
  <2>1. PICK x \in places : \A y \in places : ~(<<y, x>> \in OpToRel(<, Nat))
    <3>1. IsWellFoundedOn(OpToRel(<, Nat), Nat)
      BY NatLessThanWellFounded
    <3>2. places \subseteq Nat
      OBVIOUS
    <3>3. QED
      BY <1>1, <3>1, <3>2, WFMin
  <2>2. ASSUME NEW y \in places PROVE x <= y
    <3>1. ~(y < x)
      BY <2>1 DEF OpToRel
    <3>2. QED
      BY <3>1
  <2>3. QED
    BY <2>2
<1>2. ASSUME places # {} PROVE First(places) \in places
  BY <1>1, <1>2 DEF First
<1>3. ASSUME places = {} PROVE First(places) = 0
  BY <1>3 DEF First
<1>4. QED
  BY <1>2, <1>3

(* The streams of an endpoint are numbered from 1. *)
LEMMA EndpointStreamsNumbered ==
    ASSUME NEW d \in Documents \cup RobotDocuments, d # Unreadable
    PROVE  DOMAIN EndpointStreams(d) \subseteq Nat \ {0}
<1> DEFINE streams == NormalizedStreams(d)
<1>1. Len(d.streams) \in Nat /\ DOMAIN d.streams = 1..Len(d.streams)
  BY DocumentAssumption
<1>2. IsFiniteSet(DOMAIN streams)
  <2>1. IsFiniteSet(DOMAIN RawStreams(d))
    <3> HIDE DEF streams
    <3>1. IsFiniteSet(1..Len(d.streams)) /\ IsFiniteSet(1..1)
      <4>1. \A n \in Nat : IsFiniteSet(1..n)
        BY FS_Interval
      <4>2. QED
        BY <1>1, <4>1
    <3>2. DOMAIN <<DefaultStream>> = 1..1
      OBVIOUS
    <3>3. QED
      BY <1>1, <3>1, <3>2 DEF RawStreams
  <2>2. IsFiniteSet(EnabledIndices(d))
    BY <2>1, FS_Subset DEF EnabledIndices
  <2>3. IsFiniteSet({1})
    BY FS_Singleton
  <2>4. DOMAIN streams = {1} \/ DOMAIN streams = EnabledIndices(d)
    BY DEF NormalizedStreams
  <2>5. QED
    BY <2>2, <2>3, <2>4
<1>3. Cardinality(DOMAIN streams) \in Nat
  BY <1>2, FS_CardinalityType
<1>4. DOMAIN StreamIds(d) = 1..Cardinality(DOMAIN streams)
  BY DEF StreamIds, Cardinality, Cardinality
<1>5. DOMAIN << <<"primary">> >> = 1..1
  OBVIOUS
<1>6. QED
  BY <1>3, <1>4, <1>5 DEF EndpointStreams

(* A pad gets the stream its track was offered for. *)
LEMMA PadFindsStream ==
    ASSUME TracksInv, Matchable, NEW k \in DOMAIN media.tracks
    PROVE  StreamForPad(k) > 0 => media.streams[StreamForPad(k)] = media.tracks[k]
<1> DEFINE named == {i \in DOMAIN media.streams : Occurs(media.streams[i], media.msids[k])}
<1>1. named \in SUBSET (Nat \ {0})
  BY DEF TracksInv
<1>2. Named(media.msids[k]) = First(named)
  BY DEF Named
<1>3. CASE \A n \in DOMAIN media.tracks :
               {id \in Received : Occurs(id, media.msids[n])} = {media.tracks[n]}
  <2>1. media.tracks[k] \in Received /\ Occurs(media.tracks[k], media.msids[k])
    BY <1>3
  <2>2. named # {}
    BY <2>1 DEF Received
  <2>3. First(named) \in named
    BY <1>1, <2>2, FirstIsPlace
  <2>4. media.streams[First(named)] = media.tracks[k]
    BY <1>3, <2>3 DEF Received
  <2>5. First(named) > 0
    BY <1>1, <2>3
  <2>6. QED
    BY <1>2, <2>4, <2>5 DEF StreamForPad
<1>4. CASE /\ \A n \in DOMAIN media.msids : media.msids[n] = <<>>
           /\ media.tracks = media.streams
  <2>1. media.msids[k] = <<>>
    BY <1>4 DEF TracksInv
  <2>2. named = {}
    BY <2>1 DEF Occurs
  <2>3. First(named) = 0
    BY <1>1, <2>2, FirstIsPlace
  <2>4. k \in DOMAIN media.streams
    BY <1>4
  <2>5. StreamForPad(k) = k
    BY <1>2, <2>3, <2>4 DEF StreamForPad
  <2>6. QED
    BY <1>4, <2>5
<1>5. QED
  BY <1>3, <1>4 DEF Matchable

(* No step but a pad's routes a track, and no other step touches what was     *)
(* routed without starting over.                                             *)
LEMMA StartsOver ==
    ASSUME TracksInv, UNCHANGED host, document' \in Documents, NEW streams,
           DOMAIN streams \subseteq Nat \ {0}, media' = Receiving(streams)
    PROVE  TracksInv'
BY DEF TracksInv, Receiving, TracksRouted

LEMMA TracksStay ==
    ASSUME TracksInv, UNCHANGED host, document' \in Documents, UNCHANGED media
    PROVE  TracksInv'
<1>1. TracksRouted' <=> TracksRouted
  BY DEF TracksRouted, Matchable, Received
<1>2. QED
  BY <1>1 DEF TracksInv

(* A launch starts the endpoint with the streams of a document that loads, or *)
(* leaves what it receives alone.                                            *)
LEMMA StartKeepsTracks ==
    ASSUME TracksInv, UNCHANGED <<host, document>>, NEW started,
           Webrtc \in started => document # Unreadable,
           StartBg(started)
    PROVE  TracksInv'
<1>1. document' \in Documents
  BY DEF TracksInv
<1>2. CASE UNCHANGED media
  BY <1>1, <1>2, TracksStay
<1>3. CASE Webrtc \in started /\ media' = Receiving(EndpointStreams(document))
  <2>1. DOMAIN EndpointStreams(document) \subseteq Nat \ {0}
    BY <1>3, EndpointStreamsNumbered DEF TracksInv
  <2>2. QED
    BY <1>1, <1>3, <2>1, StartsOver
<1>4. QED
  BY <1>2, <1>3 DEF StartBg

(* What starts on a host that reads no document is no endpoint. *)
LEMMA EndpointNeedsDocument ==
    ASSUME TracksInv
    PROVE  /\ Webrtc \notin ZenohServices
           /\ ~HasStreams => Webrtc \notin RoleServices(document)
<1>1. Webrtc # Zenoh /\ Webrtc # Signal
      /\ Webrtc # Teammate /\ Webrtc # Turn
  BY DEF Webrtc, Zenoh, Signal, Teammate, Turn
<1>2. host.role \in {"robot", "machine", "teammate", "cloud"}
  BY DocumentAssumption DEF TracksInv
<1>3. ASSUME ~HasStreams PROVE host.role \in {"teammate", "cloud"}
  BY <1>2, <1>3 DEF HasStreams
<1>4. ASSUME ~HasStreams
      PROVE  RoleServices(document) \subseteq {Signal, Teammate, Turn}
  BY <1>3, <1>4 DEF RoleServices, RelayServices, TurnServices
<1>5. QED
  BY <1>1, <1>4 DEF ZenohServices

(* A step of the services keeps the tracks. *)
LEMMA TracksInvKept ==
    ASSUME TracksInv, [ServicesNext]_servicesVars
    PROVE  TracksInv'
<1>1. CASE Launch
  <2>1. Webrtc \notin ZenohServices
    BY EndpointNeedsDocument
  <2>2. ASSUME Webrtc \in RoleServices(document) PROVE document # Unreadable
    BY <1>1, <2>2, EndpointNeedsDocument DEF Launch, Loads
  <2>3. QED
    BY <1>1, <2>1, <2>2, StartKeepsTracks DEF Launch
<1>2. CASE LaunchRefused
  BY <1>2, EndpointNeedsDocument, StartKeepsTracks DEF LaunchRefused
<1>3. CASE \E s \in DOMAIN processes : Exits(s)
  <2>1. PICK s \in DOMAIN processes : Exits(s)
    BY <1>3
  <2>2. UNCHANGED host /\ document' \in Documents
    BY <2>1 DEF Exits, TracksInv
  <2>3. DOMAIN <<>> \subseteq Nat \ {0}
    OBVIOUS
  <2>4. UNCHANGED media \/ media' = Receiving(<<>>)
    BY <2>1 DEF Exits
  <2>5. QED
    BY <2>2, <2>3, <2>4, StartsOver, TracksStay
<1>4. CASE Stop
  <2>1. UNCHANGED host /\ document' \in Documents /\ media' = Receiving(<<>>)
    BY <1>4 DEF Stop, TracksInv
  <2>2. DOMAIN <<>> \subseteq Nat \ {0}
    OBVIOUS
  <2>3. QED
    BY <2>1, <2>2, StartsOver
<1>5. CASE EditDocument \/ LogGrows \/ UNCHANGED servicesVars
  <2>1. UNCHANGED <<host, media>> /\ document' \in Documents
    BY <1>5 DEF EditDocument, LogGrows, servicesVars, TracksInv
  <2>2. QED
    BY <2>1, TracksStay
<1>6. CASE OfferArrives
  <2>1. PICK d \in RobotDocuments, shown \in BOOLEAN :
            media' = [media EXCEPT !.tracks = EndpointStreams(d),
                                   !.msids = Msids(d, shown)]
    BY <1>6 DEF OfferArrives
  <2>2. media.tracks = <<>> /\ UNCHANGED <<host, document>>
    BY <1>6 DEF OfferArrives
  <2>3. DOMAIN media.routed = {}
    BY <2>2 DEF TracksInv
  <2>4. /\ media'.streams = media.streams /\ media'.routed = media.routed
        /\ media'.tracks = EndpointStreams(d) /\ media'.msids = Msids(d, shown)
        /\ media' = [streams |-> media'.streams, tracks |-> media'.tracks,
                     msids |-> media'.msids, routed |-> media'.routed]
    BY <2>1 DEF TracksInv
  <2>5. DOMAIN media'.msids = DOMAIN media'.tracks
    BY <2>4 DEF Msids
  <2>6. QED
    BY <2>2, <2>3, <2>4, <2>5 DEF TracksInv, TracksRouted
<1>7. CASE \E k \in DOMAIN media.tracks : PadAdded(k)
  <2>1. PICK k \in DOMAIN media.tracks : PadAdded(k)
    BY <1>7
  <2> DEFINE routed == [n \in DOMAIN media.routed \cup {k} |->
                           IF n = k THEN media.streams[StreamForPad(k)] ELSE media.routed[n]]
  <2>2. StreamForPad(k) > 0 /\ UNCHANGED <<host, document>>
    BY <2>1 DEF PadAdded
  <2>3. media' = [streams |-> media.streams, tracks |-> media.tracks,
                  msids |-> media.msids, routed |-> routed]
    BY <2>1 DEF PadAdded, TracksInv
  <2>4. Matchable' <=> Matchable
    BY <2>3 DEF Matchable, Received
  <2>5. ASSUME Matchable, NEW n \in DOMAIN media.routed \cup {k}
        PROVE  routed[n] = media.tracks[n]
    BY <2>2, <2>5, PadFindsStream DEF TracksInv, TracksRouted
  <2>6. TracksRouted'
    BY <2>3, <2>4, <2>5 DEF TracksRouted
  <2>7. QED
    BY <2>2, <2>3, <2>6 DEF TracksInv
<1>8. CASE RecoverReceiver
  BY <1>8, StartsOver DEF RecoverReceiver, TracksInv
<1>9. QED
  BY <1>1, <1>2, <1>3, <1>4, <1>5, <1>6, <1>7, <1>8 DEF ServicesNext

(* Each track of a bundled session feeds the stream it was offered for, for   *)
(* any documents of robot and machine with which it can be told at all, in    *)
(* any order of the pads.                                                     *)
THEOREM TracksFindTheirStream == ServicesSpec => []TracksRouted
<1>1. ServicesInit => TracksInv
  <2>1. DOMAIN <<>> = {}
    OBVIOUS
  <2>2. QED
    BY <2>1 DEF ServicesInit, Receiving, TracksRouted, TracksInv
<1>2. TracksInv /\ [ServicesNext]_servicesVars => TracksInv'
  BY TracksInvKept
<1>3. TracksInv => TracksRouted
  BY DEF TracksInv
<1>4. QED
  BY <1>1, <1>2, <1>3, PTL DEF ServicesSpec

-----------------------------------------------------------------------------
(* The monitor (StreamServices).                                           *)

(* What runs was launched from the document of the session.                *)
LaunchInv ==
    /\ host \in Hosts /\ document \in Documents /\ session \in Documents
    /\ launched # {} =>
           /\ launched = ZenohServices \cup RoleServices(session)
           /\ HasStreams => Loads(session)

(* The services are told from one another by the first word of their names. *)
LEMMA ServiceKinds ==
    /\ IsWebrtc(Webrtc)
    /\ ~IsWebrtc(Zenoh) /\ ~IsWebrtc(Signal)
    /\ ~IsWebrtc(Teammate) /\ ~IsWebrtc(Turn)
    /\ Zenoh # Signal /\ Zenoh # Teammate
    /\ Zenoh # Turn /\ Signal # Teammate
    /\ Signal # Turn /\ Teammate # Turn
BY DEF IsWebrtc, Webrtc, Zenoh, Signal, Teammate, Turn

(* An id makes "webrtc" the name of a stream's service. *)
LEMMA StreamServiceName ==
    ASSUME NEW X, NEW id \in Seq(X), id # <<>>
    PROVE  IsStreamService(Webrtc \o id)
<1> DEFINE Y == X \cup {"webrtc"}
<1>1. Webrtc \in Seq(Y) /\ id \in Seq(Y) /\ Len(Webrtc) = 1
  BY DEF Webrtc
<1>2. (Webrtc \o id)[1] = "webrtc"
  BY <1>1 DEF Webrtc
<1>3. Len(id) # 0
  OBVIOUS
<1>4. Len(Webrtc \o id) # Len(Webrtc)
  BY <1>1, <1>3
<1>5. QED
  BY <1>2, <1>4 DEF IsStreamService, IsWebrtc

(* The ids of the streams that are on. *)
LEMMA EnabledStreams ==
    ASSUME NEW d \in Documents, d # Unreadable
    PROVE  /\ Len(d.streams) \in Nat /\ DOMAIN d.streams = 1..Len(d.streams)
           /\ MonitoredIndices(d) \subseteq 1..Len(d.streams)
           /\ IsFiniteSet(MonitoredIndices(d))
           /\ Cardinality(MonitoredIndices(d)) \in Nat
           /\ \A i \in DOMAIN d.streams : IsStream(d.streams[i])
<1>1. Len(d.streams) \in Nat /\ DOMAIN d.streams = 1..Len(d.streams)
      /\ \A i \in DOMAIN d.streams : IsStream(d.streams[i])
  BY DocumentAssumption
<1>2. MonitoredIndices(d) \subseteq 1..Len(d.streams)
  BY <1>1 DEF MonitoredIndices
<1>3. IsFiniteSet(1..Len(d.streams))
  <2>1. \A n \in Nat : IsFiniteSet(1..n)
    BY FS_Interval
  <2>2. QED
    BY <1>1, <2>1
<1>4. IsFiniteSet(MonitoredIndices(d))
  BY <1>2, <1>3, FS_Subset
<1>5. QED
  BY <1>1, <1>2, <1>4, FS_CardinalityType

(* The name of a stream, if it has one, is a sequence. *)
LEMMA NameIsSequence ==
    ASSUME NEW raw, IsStream(raw), raw.name # NoName
    PROVE  raw.name # <<>> /\ raw.name \in Seq({raw.name[i] : i \in DOMAIN raw.name})
<1>1. Len(raw.name) \in Nat \ {0} /\ raw.name = [i \in 1..Len(raw.name) |-> raw.name[i]]
  BY DEF IsStream
<1>2. raw.name \in [1..Len(raw.name) -> {raw.name[i] : i \in DOMAIN raw.name}]
  BY <1>1
<1>3. QED
  BY <1>1, <1>2

(* Of an isolated session with several streams that are on, all named, the  *)
(* monitor and the launcher derive the same services.                       *)
LEMMA SeveralServices ==
    ASSUME NEW d \in Documents, d # Unreadable,
           SessionMode(d) = "isolated",
           Cardinality(MonitoredIndices(d)) > 1,
           \A i \in MonitoredIndices(d) : d.streams[i].name # NoName
    PROVE  /\ EndpointServices(d) = ConfiguredServices(d)
           /\ \A s \in EndpointServices(d) : IsStreamService(s)
           /\ EndpointServices(d) # {}
           /\ IsFiniteSet(EndpointServices(d))
<1> DEFINE M == MonitoredIndices(d)
<1>1. IsFiniteSet(M) /\ M \subseteq 1..Len(d.streams) /\ Len(d.streams) \in Nat
      /\ Cardinality(M) \in Nat /\ DOMAIN d.streams = 1..Len(d.streams)
      /\ \A i \in DOMAIN d.streams : IsStream(d.streams[i])
  BY EnabledStreams
<1>2. M # {}
  BY <1>1, FS_EmptySet
<1>3. Len(d.streams) # 1
  <2>1. SUFFICES ASSUME Len(d.streams) = 1 PROVE FALSE
    OBVIOUS
  <2>2. M = {1}
    BY <1>1, <1>2, <2>1
  <2>3. Cardinality({1}) = 1
    BY FS_Singleton
  <2>4. QED
    BY <2>2, <2>3
<1>4. d.streams # <<>>
  BY <1>1, <1>2
<1>5. RawStreams(d) = d.streams /\ EnabledIndices(d) = M
  BY <1>4 DEF RawStreams, EnabledIndices, MonitoredIndices
<1>6. /\ DOMAIN NormalizedStreams(d) = M
      /\ \A i \in M : NormalizedStreams(d)[i].service = Webrtc \o d.streams[i].name
  <2>1. NormalizedStreams(d)
            = [i \in M |-> NormalizeStream(d.streams[i], i, Len(d.streams))]
    BY <1>2, <1>5 DEF NormalizedStreams
  <2>2. ASSUME NEW i \in M
        PROVE  NormalizeStream(d.streams[i], i, Len(d.streams)).service
                   = Webrtc \o d.streams[i].name
    BY <1>3 DEF NormalizeStream, ServiceOf, Id
  <2>3. QED
    BY <2>1, <2>2
<1>7. EndpointServices(d) = {Webrtc \o d.streams[i].name : i \in M}
  <2>1. "isolated" # "bundled"
    OBVIOUS
  <2>2. QED
    BY <1>6, <2>1 DEF EndpointServices
<1>8. ConfiguredServices(d) = {Webrtc \o d.streams[i].name : i \in M}
  <2>1. \A i \in M : MonitoredId(d, i) = d.streams[i].name
    BY DEF MonitoredId
  <2>2. ~(Cardinality(M) <= 1)
    BY <1>1
  <2>3. ConfiguredServices(d) = {Webrtc \o MonitoredId(d, i) : i \in M}
    BY <2>2 DEF ConfiguredServices
  <2>4. \A i \in M : Webrtc \o MonitoredId(d, i) = Webrtc \o d.streams[i].name
    BY <2>1
  <2> HIDE DEF M
  <2>5. QED
    BY <2>3, <2>4
<1>9. ASSUME NEW i \in M PROVE IsStreamService(Webrtc \o d.streams[i].name)
  <2>1. IsStream(d.streams[i])
    BY <1>1
  <2>2. d.streams[i].name # <<>>
        /\ d.streams[i].name \in Seq({d.streams[i].name[j] : j \in DOMAIN d.streams[i].name})
    BY <2>1, NameIsSequence
  <2>3. QED
    BY <2>2, StreamServiceName
<1>10. IsFiniteSet({Webrtc \o d.streams[i].name : i \in M})
  <2> DEFINE f == [i \in M |-> Webrtc \o d.streams[i].name]
             T == {Webrtc \o d.streams[i].name : i \in M}
  <2>1. f \in Surjection(M, T)
    BY DEF Surjection
  <2>2. QED
    BY <1>1, <2>1, FS_Surjection
<1>11. QED
  BY <1>2, <1>7, <1>8, <1>9, <1>10

(* Every stream's service is one of "webrtc". *)
LEMMA EveryService ==
    ASSUME NEW raw, IsStream(raw), NEW i, NEW total
    PROVE  IsWebrtc(NormalizeStream(raw, i, total).service)
<1>1. \E X : Id(raw, i) \in Seq(X) /\ Id(raw, i) # <<>>
  <2>1. CASE raw.name # NoName
    BY <2>1, NameIsSequence DEF Id
  <2>2. CASE raw.name = NoName /\ i = 1
    <3>1. <<"primary">> \in Seq({"primary"}) /\ <<"primary">> # <<>>
      OBVIOUS
    <3>2. QED
      BY <2>2, <3>1 DEF Id, FallbackId
  <2>3. CASE raw.name = NoName /\ i # 1
    <3>1. <<"camera", i>> \in Seq({"camera", i}) /\ <<"camera", i>> # <<>>
      OBVIOUS
    <3>2. QED
      BY <2>3, <3>1 DEF Id, FallbackId
  <2>4. QED
    BY <2>1, <2>2, <2>3
<1>2. IsWebrtc(Webrtc \o Id(raw, i))
  BY <1>1, StreamServiceName DEF IsStreamService
<1>3. QED
  BY <1>2, ServiceKinds DEF NormalizeStream, ServiceOf

(* Of one with at most one stream that is on, the monitor expects "webrtc",  *)
(* and the launcher starts one service, whatever its name.                   *)
LEMMA SingleService ==
    ASSUME NEW d \in Documents, d # Unreadable,
           SessionMode(d) = "isolated",
           ~(Cardinality(MonitoredIndices(d)) > 1)
    PROVE  /\ ConfiguredServices(d) = {Webrtc}
           /\ \E s : /\ EndpointServices(d) = {s}
                     /\ IsWebrtc(s)
<1> DEFINE M == MonitoredIndices(d)
           only == NormalizedStreams(d)
<1>1. IsFiniteSet(M) /\ M \subseteq 1..Len(d.streams) /\ Len(d.streams) \in Nat
      /\ Cardinality(M) \in Nat /\ DOMAIN d.streams = 1..Len(d.streams)
      /\ \A i \in DOMAIN d.streams : IsStream(d.streams[i])
  BY EnabledStreams
<1>2. ConfiguredServices(d) = {Webrtc}
  <2>1. Cardinality(M) <= 1
    BY <1>1
  <2>2. QED
    BY <2>1 DEF ConfiguredServices
<1>3. EndpointServices(d) = {only[i].service : i \in DOMAIN only}
  <2>1. "isolated" # "bundled"
    OBVIOUS
  <2>2. QED
    BY <2>1 DEF EndpointServices
<1>4. IsStream(DefaultStream)
  <2>1. /\ Len(<<"primary">>) \in Nat \ {0}
        /\ <<"primary">> = [i \in 1..Len(<<"primary">>) |-> <<"primary">>[i]]
    OBVIOUS
  <2>2. QED
    BY <2>1 DEF IsStream, DefaultStream
<1>5. M = {} \/ \E x : M = {x}
  <2>1. Cardinality(M) = 0 \/ Cardinality(M) = 1
    BY <1>1
  <2>2. QED
    BY <1>1, <2>1, FS_EmptySet, FS_Singleton
<1>6. \E x : DOMAIN only = {x} /\ IsWebrtc(only[x].service)
  <2>1. CASE d.streams = <<>>
    <3>1. RawStreams(d) = <<DefaultStream>>
      BY <2>1 DEF RawStreams
    <3>2. EnabledIndices(d) = {1}
      BY <3>1 DEF EnabledIndices, DefaultStream
    <3>3. only = [i \in {1} |-> NormalizeStream(RawStreams(d)[i], i, Len(RawStreams(d)))]
      BY <3>2 DEF NormalizedStreams
    <3>4. QED
      BY <1>4, <3>1, <3>3, EveryService
  <2>2. CASE d.streams # <<>> /\ M = {}
    <3>1. EnabledIndices(d) = {}
      BY <2>2 DEF RawStreams, EnabledIndices, MonitoredIndices
    <3>2. only = [i \in {1} |-> NormalizeStream(DefaultStream, 1, 1)]
      BY <3>1 DEF NormalizedStreams
    <3>3. IsWebrtc(NormalizeStream(DefaultStream, 1, 1).service)
      BY <1>4, EveryService
    <3>4. QED
      BY <3>2, <3>3
  <2>3. CASE d.streams # <<>> /\ M # {}
    <3>1. PICK x : M = {x}
      BY <1>5, <2>3
    <3>2. RawStreams(d) = d.streams /\ EnabledIndices(d) = {x}
      BY <2>3, <3>1 DEF RawStreams, EnabledIndices, MonitoredIndices
    <3>3. only = [i \in {x} |-> NormalizeStream(d.streams[i], i, Len(d.streams))]
      BY <3>2 DEF NormalizedStreams
    <3>4. IsStream(d.streams[x])
      BY <1>1, <3>1
    <3>5. QED
      BY <3>3, <3>4, EveryService
  <2>4. QED
    BY <2>1, <2>2, <2>3
<1>7. QED
  BY <1>2, <1>3, <1>6

(* What the row of the endpoints says of the services that were launched.    *)
LEMMA EndpointRow ==
    ASSUME LaunchInv, Ordinary, HasStreams
    PROVE  /\ LaunchedEndpoints = EndpointServices(document)
           /\ WebrtcLevel \in {"down", "warn", "ok", "info"}
           /\ WebrtcLevel = "down"
                  <=> \A s \in LaunchedEndpoints : ~Running(s)
           /\ WebrtcLevel \in {"ok", "info"}
                  => \A s \in LaunchedEndpoints : Running(s)
           /\ Cardinality(LaunchedEndpoints) > 1 =>
                  (WebrtcLevel = "ok"
                       <=> \A s \in LaunchedEndpoints : Running(s))
<1> DEFINE E == LaunchedEndpoints
<1>1. /\ document \in Documents /\ document = session /\ document # Unreadable
      /\ SessionMode(document) = "isolated"
      /\ launched = ZenohServices \cup RoleServices(document)
      /\ {s \in DOMAIN processes : IsWebrtc(s)} = E
  BY DEF LaunchInv, Ordinary, Loads
<1>2. \A s \in EndpointServices(document) : IsWebrtc(s)
  <2>1. CASE Cardinality(MonitoredIndices(document)) > 1
    <3>1. \A i \in MonitoredIndices(document) : document.streams[i].name # NoName
      BY <1>1, <2>1 DEF Ordinary
    <3>2. \A s \in EndpointServices(document) : IsStreamService(s)
      BY <1>1, <2>1, <3>1, SeveralServices
    <3>3. QED
      BY <3>2 DEF IsStreamService
  <2>2. CASE ~(Cardinality(MonitoredIndices(document)) > 1)
    BY <1>1, <2>2, SingleService
  <2>3. QED
    BY <2>1, <2>2
<1>3. E = EndpointServices(document)
  <2>1. RoleServices(document)
            = RelayServices(document) \cup EndpointServices(document)
    <3>1. host.role # "teammate" /\ host.role # "cloud"
      BY DEF HasStreams
    <3>2. QED
      BY <3>1 DEF RoleServices
  <2>2. RelayServices(document) \subseteq {Signal}
        /\ ZenohServices \subseteq {Zenoh}
    BY DEF RelayServices, ZenohServices
  <2>3. QED
    BY <1>1, <1>2, <2>1, <2>2, ServiceKinds DEF LaunchedEndpoints
<1>4. \A s : Running(s) /\ IsWebrtc(s) => s \in E
  BY <1>1 DEF Running
<1>5. CASE E = {Webrtc} /\ ConfiguredServices(document) = {Webrtc}
  <2>1. ConfiguredStreams = {}
    BY <1>1, <1>5 DEF ConfiguredStreams, WebrtcNames, ServiceNames,
                      IsStreamService
  <2>2. WebrtcLevel = IF Running(Webrtc) THEN LogLevel ELSE "down"
    BY <2>1 DEF WebrtcLevel
  <2>3. LogLevel \in {"ok", "warn", "info"}
    BY DEF LogLevel
  <2>4. ~(Cardinality(E) > 1)
    <3>1. Cardinality({Webrtc}) = 1
      BY FS_Singleton
    <3>2. QED
      BY <1>5, <3>1
  <2> HIDE DEF E
  <2>5. QED
    BY <1>3, <1>5, <2>2, <2>3, <2>4 DEF E
<1>6. CASE /\ E # {} /\ IsFiniteSet(E) /\ \A s \in E : IsStreamService(s)
           /\ ConfiguredServices(document) \subseteq E \cup {Webrtc}
  <2> DEFINE R == {s \in E : Running(s)}
  <2>1. ConfiguredStreams = E
    BY <1>1, <1>6 DEF ConfiguredStreams, WebrtcNames, ServiceNames,
                      IsStreamService
  <2>2. RunningStreams = R
    <3>1. WebrtcNames = E \cup {Webrtc}
      BY <1>1, <1>6 DEF WebrtcNames, ServiceNames, IsStreamService
    <3>2. Running(Webrtc) => Webrtc \in E
      BY <1>4, ServiceKinds
    <3>3. QED
      BY <3>1, <3>2 DEF RunningStreams
  <2>3. Cardinality(R) = Cardinality(E) <=> R = E
    BY <1>6, FS_Subset
  <2>4. WebrtcLevel = IF R = {} THEN "down"
                              ELSE IF R = E THEN "ok" ELSE "warn"
    BY <1>6, <2>1, <2>2, <2>3 DEF WebrtcLevel
  <2>5. (R = {} <=> \A s \in E : ~Running(s)) /\ (R = E <=> \A s \in E : Running(s))
    OBVIOUS
  <2> HIDE DEF R, E
  <2>6. QED
    BY <1>3, <1>6, <2>4, <2>5 DEF E
<1>7. CASE Cardinality(MonitoredIndices(document)) > 1
  <2>1. \A i \in MonitoredIndices(document) : document.streams[i].name # NoName
    BY <1>1, <1>7 DEF Ordinary
  <2>2. QED
    BY <1>1, <1>3, <1>6, <1>7, <2>1, SeveralServices
<1>8. CASE ~(Cardinality(MonitoredIndices(document)) > 1)
  <2>1. PICK only : EndpointServices(document) = {only} /\ IsWebrtc(only)
    BY <1>1, <1>8, SingleService
  <2>2. ConfiguredServices(document) = {Webrtc}
    BY <1>1, <1>8, SingleService
  <2>3. CASE only = Webrtc
    BY <1>3, <1>5, <2>1, <2>2, <2>3
  <2>4. CASE only # Webrtc
    <3>1. IsStreamService(only)
      BY <2>1, <2>4 DEF IsStreamService
    <3>2. IsFiniteSet({only})
      BY FS_Singleton
    <3>3. QED
      BY <1>3, <1>6, <2>1, <2>2, <3>1, <3>2
  <2>5. QED
    BY <2>3, <2>4
<1>9. QED
  BY <1>7, <1>8

(* The parts of a launch the monitor has rows for: the bridge, what the role  *)
(* needs, and the TURN server.                                               *)
LEMMA PartsOfLaunch ==
    ASSUME LaunchInv, Ordinary
    PROVE  Parts =
               (IF host.zenoh THEN {{Zenoh}} ELSE {})
               \cup (CASE HasStreams -> {LaunchedEndpoints}
                       [] host.role = "teammate" -> {{Teammate}}
                       [] host.role = "cloud" ->
                              {{Signal}} \cup IF host.turn THEN {{Turn}} ELSE {})
<1>1. /\ launched = ZenohServices \cup RoleServices(session)
      /\ host.role \in {"robot", "machine", "teammate", "cloud"}
      /\ host.role = "cloud" => host.signaling
      /\ ZenohServices = IF host.zenoh THEN {Zenoh} ELSE {}
  BY DocumentAssumption DEF LaunchInv, Ordinary, ZenohServices
<1> DEFINE rest == launched \ LaunchedEndpoints
<1>2. Parts = {{s} : s \in {x \in rest : x = Signal => host.role = "cloud"}}
                      \cup IF HasStreams THEN {LaunchedEndpoints} ELSE {}
  BY DEF Parts
<1>3. \A s : s \in rest <=> s \in launched /\ ~IsWebrtc(s)
  BY DEF LaunchedEndpoints
<1> HIDE DEF rest
<1>4. CASE HasStreams
  <2>1. host.role # "teammate" /\ host.role # "cloud"
    BY <1>4 DEF HasStreams
  <2>2. document = session /\ LaunchedEndpoints = EndpointServices(document)
    BY <1>4, EndpointRow DEF Ordinary
  <2>3. RoleServices(session)
            = RelayServices(session) \cup LaunchedEndpoints
    BY <1>4, <2>1, <2>2 DEF RoleServices
  <2>4. RelayServices(session) \subseteq {Signal}
    BY DEF RelayServices
  <2>5. {x \in rest : x = Signal => host.role = "cloud"} = ZenohServices
    <3>1. \A s \in LaunchedEndpoints : IsWebrtc(s)
      BY DEF LaunchedEndpoints
    <3>2. QED
      BY <1>1, <1>3, <2>1, <2>3, <2>4, <3>1, ServiceKinds
  <2>6. {{s} : s \in ZenohServices} = IF host.zenoh THEN {{Zenoh}} ELSE {}
    BY <1>1
  <2>7. QED
    BY <1>2, <1>4, <2>1, <2>5, <2>6
<1>5. CASE host.role = "teammate"
  <2>1. ~HasStreams
    BY <1>5 DEF HasStreams
  <2>2. RoleServices(session) = RelayServices(session) \cup {Teammate}
    BY <1>5, <2>1 DEF RoleServices
  <2>3. RelayServices(session) \subseteq {Signal}
    BY DEF RelayServices
  <2>4. {x \in rest : x = Signal => host.role = "cloud"}
            = ZenohServices \cup {Teammate}
    BY <1>1, <1>3, <1>5, <2>2, <2>3, ServiceKinds
  <2>5. {{s} : s \in ZenohServices \cup {Teammate}}
            = (IF host.zenoh THEN {{Zenoh}} ELSE {}) \cup {{Teammate}}
    BY <1>1
  <2>6. QED
    BY <1>2, <1>5, <2>1, <2>4, <2>5
<1>6. CASE host.role = "cloud"
  <2>1. ~HasStreams
    BY <1>6 DEF HasStreams
  <2>2. RoleServices(session) = {Signal} \cup TurnServices
    BY <1>1, <1>6, <2>1 DEF RoleServices, RelayServices
  <2>3. TurnServices = IF host.turn THEN {Turn} ELSE {}
    BY <1>6 DEF TurnServices
  <2>4. {x \in rest : x = Signal => host.role = "cloud"}
            = ZenohServices \cup {Signal} \cup TurnServices
    BY <1>1, <1>3, <1>6, <2>2, <2>3, ServiceKinds
  <2>5. {{s} : s \in ZenohServices \cup {Signal} \cup TurnServices}
            = (IF host.zenoh THEN {{Zenoh}} ELSE {})
              \cup {{Signal}} \cup IF host.turn THEN {{Turn}} ELSE {}
    BY <1>1, <2>3
  <2>6. QED
    BY <1>2, <1>6, <2>1, <2>4, <2>5
<1>7. QED
  BY <1>1, <1>4, <1>5, <1>6 DEF HasStreams

(* The rows that are down are those of parts without a process.              *)
LEMMA RowsOfParts ==
    ASSUME LaunchInv, Ordinary,
           NEW zenoh \in ZenohLevels, NEW role \in RoleLevels,
           NEW turn \in TurnLevels
    PROVE  /\ "down" \in {zenoh, role, turn}
                  <=> \E part \in Parts : \A s \in part : ~Running(s)
           /\ "down" \notin {zenoh, role, turn} /\ "warn" \notin {zenoh, role, turn}
                  => \A s \in UNION Parts : Running(s)
<1>1. /\ host.role \in {"robot", "machine", "teammate", "cloud"}
      /\ host.zenoh \in BOOLEAN /\ host.turn \in BOOLEAN
  BY DocumentAssumption DEF LaunchInv
<1>2. zenoh = "down" <=> host.zenoh /\ ~Running(Zenoh)
  BY DEF ZenohLevels, Alive
<1>3. turn = "down" <=> host.role = "cloud" /\ host.turn /\ ~Running(Turn)
  BY DEF TurnLevels, Alive
<1> DEFINE Dead(part) == \A s \in part : ~Running(s)
           bridge == IF host.zenoh THEN {{Zenoh}} ELSE {}
<1>4. (\E part \in bridge : Dead(part)) <=> zenoh = "down"
  BY <1>2
<1>5. zenoh # "down" => \A s \in UNION bridge : Running(s)
  BY <1>2
<1>6. CASE HasStreams
  <2>1. host.role # "teammate" /\ host.role # "cloud"
    BY <1>6 DEF HasStreams
  <2>2. Parts = bridge \cup {LaunchedEndpoints}
    BY <1>6, <2>1, PartsOfLaunch
  <2>3. role = WebrtcLevel
    BY <1>6, <2>1 DEF RoleLevels
  <2>4. /\ role \in {"down", "warn", "ok", "info"}
        /\ role = "down" <=> Dead(LaunchedEndpoints)
        /\ role \in {"ok", "info"} => \A s \in LaunchedEndpoints : Running(s)
    BY <1>6, <2>3, EndpointRow
  <2>5. turn # "down"
    BY <1>3, <2>1
  <2> HIDE DEF bridge, Dead
  <2>6. (\E part \in Parts : Dead(part)) <=> "down" \in {zenoh, role, turn}
    BY <1>4, <2>2, <2>4, <2>5
  <2>7. role # "down" /\ role # "warn" /\ zenoh # "down"
            => \A s \in UNION Parts : Running(s)
    BY <1>5, <2>2, <2>4
  <2>8. QED
    BY <2>6, <2>7 DEF Dead
<1>7. CASE host.role = "teammate"
  <2>1. ~HasStreams
    BY <1>7 DEF HasStreams
  <2>2. Parts = bridge \cup {{Teammate}}
    BY <1>7, <2>1, PartsOfLaunch
  <2>3. role = "down" <=> ~Running(Teammate)
    BY <1>7, <2>1 DEF RoleLevels, Alive
  <2>4. turn # "down"
    BY <1>3, <1>7
  <2>5. Dead({Teammate}) <=> role = "down"
    BY <2>3
  <2> HIDE DEF bridge, Dead
  <2>6. (\E part \in Parts : Dead(part)) <=> "down" \in {zenoh, role, turn}
    BY <1>4, <2>2, <2>4, <2>5
  <2>7. role # "down" /\ zenoh # "down" => \A s \in UNION Parts : Running(s)
    BY <1>5, <2>2, <2>3
  <2>8. QED
    BY <2>6, <2>7 DEF Dead
<1>8. CASE host.role = "cloud"
  <2> DEFINE relayed == IF host.turn THEN {{Turn}} ELSE {}
  <2>1. ~HasStreams
    BY <1>8 DEF HasStreams
  <2>2. Parts = bridge \cup {{Signal}} \cup relayed
    BY <1>8, <2>1, PartsOfLaunch
  <2>3. role = "down" <=> ~Running(Signal)
    BY <1>8, <2>1 DEF RoleLevels, Alive
  <2>4. (\E part \in relayed : Dead(part)) <=> turn = "down"
    BY <1>3, <1>8
  <2>5. turn # "down" => \A s \in UNION relayed : Running(s)
    BY <1>3, <1>8
  <2>6. Dead({Signal}) <=> role = "down"
    BY <2>3
  <2> HIDE DEF bridge, relayed, Dead
  <2>7. (\E part \in Parts : Dead(part)) <=> "down" \in {zenoh, role, turn}
    BY <1>4, <2>2, <2>4, <2>6
  <2>8. role # "down" /\ zenoh # "down" /\ turn # "down"
            => \A s \in UNION Parts : Running(s)
    BY <1>5, <2>2, <2>3, <2>5
  <2>9. QED
    BY <2>7, <2>8 DEF Dead
<1>9. QED
  BY <1>1, <1>6, <1>7, <1>8 DEF HasStreams

(* A screen of the monitor comes of a level of each row.                     *)
LEMMA ScreenHasRows ==
    ASSUME NEW screen \in Screens
    PROVE  \E zenoh \in ZenohLevels, role \in RoleLevels, turn \in TurnLevels, ros \in RosLevels :
               screen = Overall({zenoh, role, turn, ros})
<1> DEFINE shown(zenoh, role, turn, ros) == Overall({zenoh, role, turn, ros})
<1>1. Screens = {shown(zenoh, role, turn, ros) :
                     zenoh \in ZenohLevels, role \in RoleLevels,
                     turn \in TurnLevels, ros \in RosLevels}
  BY DEF Screens
<1> HIDE DEF shown
<1>2. \E zenoh \in ZenohLevels, role \in RoleLevels, turn \in TurnLevels, ros \in RosLevels :
          screen = shown(zenoh, role, turn, ros)
  BY <1>1
<1>3. QED
  BY <1>2 DEF shown

(* With what was launched known, the monitor is exact.                       *)
LEMMA LaunchInvExact ==
    ASSUME LaunchInv
    PROVE  MonitorExact
<1> SUFFICES ASSUME Ordinary
             PROVE  /\ \A screen \in Screens :
                           /\ screen = "OFFLINE"
                                  <=> \E part \in Parts : \A s \in part : ~Running(s)
                           /\ screen = "ONLINE"
                                  => \A s \in UNION Parts : Running(s)
                    /\ Cardinality(LaunchedEndpoints) > 1
                           => (WebrtcLevel = "ok"
                                  <=> \A s \in LaunchedEndpoints : Running(s))
  BY DEF MonitorExact
<1>1. ASSUME NEW screen \in Screens
      PROVE  /\ screen = "OFFLINE"
                    <=> \E part \in Parts : \A s \in part : ~Running(s)
             /\ screen = "ONLINE" => \A s \in UNION Parts : Running(s)
  <2>1. PICK zenoh \in ZenohLevels, role \in RoleLevels,
             turn \in TurnLevels, ros \in RosLevels :
                 screen = Overall({zenoh, role, turn, ros})
    BY ScreenHasRows
  <2>2. ros \in {"idle", "warn", "ok"}
    BY DEF RosLevels
  <2>3. screen = "OFFLINE" <=> "down" \in {zenoh, role, turn}
    BY <2>1, <2>2 DEF Overall
  <2>4. screen = "ONLINE" => "down" \notin {zenoh, role, turn} /\ "warn" \notin {zenoh, role, turn}
    BY <2>1, <2>2 DEF Overall
  <2>5. QED
    BY <2>3, <2>4, RowsOfParts
<1>2. CASE HasStreams
  BY <1>1, <1>2, EndpointRow
<1>3. CASE ~HasStreams
  <2>1. launched = ZenohServices \cup RoleServices(session)
        /\ host.role \in {"teammate", "cloud"}
    BY <1>3, DocumentAssumption DEF LaunchInv, Ordinary, HasStreams
  <2>2. launched \subseteq {Zenoh, Signal, Teammate, Turn}
    BY <1>3, <2>1 DEF ZenohServices, RoleServices, RelayServices,
                      TurnServices
  <2>3. LaunchedEndpoints = {}
    BY <2>2, ServiceKinds DEF LaunchedEndpoints
  <2>4. Cardinality(LaunchedEndpoints) = 0
    BY <2>3, FS_EmptySet
  <2>5. QED
    BY <1>1, <2>4
<1>4. QED
  BY <1>2, <1>3

(* Only a launch and a stop change what counts as launched. *)
LEMMA LaunchInvKept ==
    ASSUME LaunchInv, [ServicesNext]_servicesVars
    PROVE  LaunchInv'
<1>1. CASE Launch
  <2>1. /\ UNCHANGED <<host, document>> /\ session' = document
        /\ launched' = ZenohServices \cup RoleServices(document)
        /\ HasStreams => Loads(document)
    BY <1>1 DEF Launch
  <2>2. ZenohServices' = ZenohServices
        /\ RoleServices(session)' = RoleServices(document)
        /\ HasStreams' = HasStreams
    BY <2>1 DEF ZenohServices, RoleServices, RelayServices,
                MachineRelay, TurnServices, HasStreams
  <2>3. Loads(session)' = Loads(document)
    BY <2>1
  <2>4. QED
    BY <2>1, <2>2, <2>3 DEF LaunchInv
<1>2. CASE Stop
  BY <1>2 DEF Stop, LaunchInv
<1>3. CASE UNCHANGED <<host, launched, session>> /\ document' \in Documents
  <2>1. ZenohServices' = ZenohServices
        /\ RoleServices(session)' = RoleServices(session)
        /\ HasStreams' = HasStreams
    BY <1>3 DEF ZenohServices, RoleServices, RelayServices,
                MachineRelay, TurnServices, HasStreams
  <2>2. Loads(session)' = Loads(session)
    BY <1>3
  <2>3. QED
    BY <1>3, <2>1, <2>2 DEF LaunchInv
<1>4. CASE UNCHANGED <<host, document, launched, session>>
  BY <1>3, <1>4 DEF LaunchInv
<1>5. CASE LaunchRefused \/ LogGrows \/ OfferArrives \/ RecoverReceiver
  BY <1>4, <1>5 DEF LaunchRefused, LogGrows, OfferArrives,
                    RecoverReceiver
<1>6. CASE \E s \in DOMAIN processes : Exits(s)
  BY <1>4, <1>6 DEF Exits
<1>7. CASE \E k \in DOMAIN media.tracks : PadAdded(k)
  BY <1>4, <1>7 DEF PadAdded
<1>8. CASE EditDocument
  BY <1>3, <1>8 DEF EditDocument
<1>9. CASE UNCHANGED servicesVars
  BY <1>4, <1>9 DEF servicesVars
<1>10. QED
  BY <1>1, <1>2, <1>5, <1>6, <1>7, <1>8, <1>9 DEF ServicesNext

(* Launcher and monitor agree about an ordinary host, whatever documents its *)
(* operator writes and whatever exits: it is called offline exactly when a   *)
(* part of what was launched has no process left, online only when all run.  *)
THEOREM MonitorIsExact == ServicesSpec => []MonitorExact
<1>1. ServicesInit => LaunchInv
  BY DEF ServicesInit, LaunchInv
<1>2. LaunchInv /\ [ServicesNext]_servicesVars => LaunchInv'
  BY LaunchInvKept
<1>3. LaunchInv => MonitorExact
  BY LaunchInvExact
<1>4. QED
  BY <1>1, <1>2, <1>3, PTL DEF ServicesSpec

=============================================================================
