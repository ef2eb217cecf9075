--------------------------- MODULE VoiceCallProofs ---------------------------
(***************************************************************************)
(* The call registry keeps its contract, and its parties informed, for any *)
(* sets of operator and teammate sessions, of call ids and any time to     *)
(* live.  Every call has its operator, and an answered call its teammate;  *)
(* the sessions counted as present hold their roles on open connections,   *)
(* so that a signal of one party always reaches the other.                 *)
(***************************************************************************)
EXTENDS VoiceCall, TLAPS

(* A role is held by a session of that role that the relay still reads. *)
PeersInv == \A role \in Roles : peers[role] \in (SessionsOf(role) \cap connected) \cup {None}

CallInv ==
    /\ state # "none" => operator_session_id # None
    /\ state \in {"connecting", "connected"} => field_teammate_session_id # None

(* Those present are parties to the call, once it has them. *)
PresentInv ==
    /\ present \subseteq InPlace
    /\ state # "none" => present \cap Operators \subseteq {operator_session_id}
    /\ field_teammate_session_id # None =>
          present \cap Teammates \subseteq {field_teammate_session_id}

IInv == TypeOK /\ PeersInv /\ CallInv /\ PresentInv /\ PartiesKnow

-----------------------------------------------------------------------------
LEMMA RoleFacts ==
    ASSUME NEW role \in Roles, NEW s \in SessionsOf(role)
    PROVE  s \in Sessions /\ s # None /\ PeerRole(role) \in Roles /\ PeerRole(role) # role
BY VoiceAssumption DEF Roles, SessionsOf, Sessions, PeerRole

(* A session that leaves its role leaves the other as it is.                 *)
LEMMA RoleVacated ==
    ASSUME TypeOK, PeersInv, NEW role \in Roles, NEW s \in SessionsOf(role),
           Unregister(role, s)
    PROVE  PeersInv' /\ peers' \in [Roles -> Sessions \cup {None}]
<1>1. /\ connected' = connected \ {s}
      /\ peers' = [peers EXCEPT ![role] = IF @ = s THEN None ELSE @]
  BY DEF Unregister
<1>2. \A r \in Roles : r # role => peers[r] # s
  BY VoiceAssumption DEF PeersInv, SessionsOf, Roles
<1>3. peers' \in [Roles -> Sessions \cup {None}]
  BY <1>1 DEF TypeOK
<1>4. ASSUME NEW r \in Roles
      PROVE  peers'[r] \in (SessionsOf(r) \cap connected') \cup {None}
  <2>1. peers[r] \in (SessionsOf(r) \cap connected) \cup {None}
    BY DEF PeersInv
  <2>2. peers'[r] = IF peers[r] = s THEN None ELSE peers[r]
    BY <1>1, <1>2 DEF TypeOK
  <2>3. QED
    BY <1>1, <2>1, <2>2
<1>5. QED
  BY <1>3, <1>4 DEF PeersInv

(* Who has a role's place is a session of that role. *)
LEMMA InPlaceFacts ==
    ASSUME PeersInv, NEW p \in InPlace
    PROVE  /\ p \in Sessions /\ p \notin lost
           /\ p \in Operators => peers["operator"] = p
           /\ p \in Teammates => peers["field_teammate"] = p
BY VoiceAssumption DEF InPlace, PeersInv, Roles, SessionsOf, Sessions

(* Forwarding keeps the types of what it writes, and those present in place. *)
LEMMA ForwardFacts ==
    ASSUME TypeOK, PeersInv, NEW role \in Roles, NEW s \in SessionsOf(role),
           NEW staying, staying \subseteq InPlace, Forward(role, s, staying)
    PROVE  /\ sender' \in Sessions
           /\ connected' \subseteq Sessions
           /\ lost' \subseteq connected'
           /\ peers' \in [Roles -> Sessions \cup {None}]
           /\ PeersInv'
           /\ present' \subseteq staying
           /\ present' \subseteq InPlace'
<1>1. s \in Sessions
  BY RoleFacts
<1>2. staying \subseteq Sessions /\ \A p \in staying : p \notin lost
  BY DEF InPlace
<1>3. CASE peers[PeerRole(role)] \in lost
  <2>1. /\ sender' = s
        /\ connected' = connected \ {s}
        /\ lost' = lost \ {s}
        /\ peers' = [peers EXCEPT ![role] = IF @ = s THEN None ELSE @]
        /\ present' = staying \ {s}
    BY <1>3 DEF Forward, Unregister
  <2>2. \A r \in Roles : peers[r] # s => peers'[r] = peers[r]
    BY <2>1 DEF TypeOK
  <2>3. present' \subseteq InPlace'
    <3> SUFFICES ASSUME NEW p \in staying \ {s} PROVE p \in InPlace'
      BY <2>1
    <3>1. PICK r \in Roles : peers[r] = p
      BY DEF InPlace
    <3>2. peers'[r] = p /\ p \notin lost'
      BY <1>2, <2>1, <2>2, <3>1
    <3>3. QED
      BY <1>2, <3>2 DEF InPlace
  <2>4. PeersInv' /\ peers' \in [Roles -> Sessions \cup {None}]
    BY <1>3, RoleVacated DEF Forward
  <2>5. QED
    BY <1>1, <2>1, <2>3, <2>4 DEF TypeOK
<1>4. CASE peers[PeerRole(role)] \notin lost
  BY <1>1, <1>4 DEF Forward, relayVars, TypeOK, PeersInv, InPlace
<1>5. QED
  BY <1>3, <1>4

(* The sender of a signal and whoever is in the other role's place know what *)
(* it has brought the call to.                                               *)
LEMMA TellsFacts ==
    ASSUME TypeOK, PeersInv, NEW role \in Roles, NEW s \in SessionsOf(role), Tells(role, s),
           state' \in States
    PROVE  /\ told' \in [Sessions -> States]
           /\ \A p \in InPlace : p = s \/ p \notin SessionsOf(role) => told'[p] = state'
<1>1. \A p \in Sessions : p \in {s} \cup Reached(role) => told'[p] = state'
  BY DEF Tells
<1>2. told' \in [Sessions -> States]
  BY DEF Tells, TypeOK
<1>3. ASSUME NEW p \in InPlace, p = s \/ p \notin SessionsOf(role)
      PROVE  told'[p] = state'
  <2>1. p \in Sessions /\ p \notin lost /\ p # None
    BY InPlaceFacts, VoiceAssumption DEF Sessions
  <2>2. p # s => peers[PeerRole(role)] = p
    BY <1>3, <2>1, InPlaceFacts DEF Sessions, SessionsOf, PeerRole, Roles
  <2>3. QED
    BY <1>1, <2>1, <2>2 DEF Reached
<1>4. QED
  BY <1>2, <1>3

(* A signal that leaves the call as it was, but for its age. *)
LEMMA QuietStep ==
    ASSUME IInv, NEW role \in Roles, NEW s \in SessionsOf(role), Forward(role, s, present),
           UNCHANGED <<call, told>>, age <= Ttl, age' = 0
    PROVE  IInv'
<1>1. /\ sender' \in Sessions /\ connected' \subseteq Sessions /\ lost' \subseteq connected'
      /\ peers' \in [Roles -> Sessions \cup {None}] /\ PeersInv'
      /\ present' \subseteq present /\ present' \subseteq InPlace'
  BY ForwardFacts DEF IInv, PresentInv
<1>2. 0 \in 0..Ttl + 1
  BY VoiceAssumption
<1>3. present' \subseteq Sessions
  BY <1>1 DEF IInv, TypeOK
<1>4. TypeOK'
  BY <1>1, <1>2, <1>3 DEF IInv, TypeOK, call
<1>5. CallInv' /\ PresentInv'
  BY <1>1 DEF IInv, CallInv, PresentInv, call
<1>6. PartiesKnow'
  BY <1>1 DEF IInv, PartiesKnow, call
<1>7. QED
  BY <1>1, <1>4, <1>5, <1>6 DEF IInv

(* A signal that is told: it suffices that the call it leaves is in order,   *)
(* and that of its own role only the sender is still a party.                *)
LEMMA TellingStep ==
    ASSUME IInv, NEW role \in Roles, NEW s \in SessionsOf(role),
           NEW staying, staying \subseteq InPlace, staying \cap SessionsOf(role) \subseteq {s},
           Forward(role, s, staying), Tells(role, s),
           age' = 0,
           state' \in States,
           call_id' \in CallIds \cup {None},
           operator_session_id' \in Operators \cup {None},
           field_teammate_session_id' \in Teammates \cup {None},
           CallInv',
           state' # "none" => staying \cap Operators \subseteq {operator_session_id'},
           field_teammate_session_id' # None =>
               staying \cap Teammates \subseteq {field_teammate_session_id'}
    PROVE  IInv'
<1>1. /\ sender' \in Sessions /\ connected' \subseteq Sessions /\ lost' \subseteq connected'
      /\ peers' \in [Roles -> Sessions \cup {None}] /\ PeersInv'
      /\ present' \subseteq staying /\ present' \subseteq InPlace'
  BY ForwardFacts DEF IInv
<1>2. /\ told' \in [Sessions -> States]
      /\ \A p \in InPlace : p = s \/ p \notin SessionsOf(role) => told'[p] = state'
  BY TellsFacts DEF IInv
<1>3. present' \subseteq Sessions
  BY <1>1 DEF InPlace
<1>4. 0 \in 0..Ttl + 1
  BY VoiceAssumption
<1>5. TypeOK'
  BY <1>1, <1>2, <1>3, <1>4 DEF TypeOK
<1>6. PresentInv'
  BY <1>1 DEF PresentInv
<1>7. PartiesKnow'
  BY <1>1, <1>2 DEF PartiesKnow
<1>8. QED
  BY <1>1, <1>5, <1>6, <1>7 DEF IInv

(* What the signals of the operator preserve. *)
LEMMA OperatorStep ==
    ASSUME IInv, NEW s \in Operators, NEW id \in CallIds, OperatorSignal(s, id)
    PROVE  IInv'
<1>1. "operator" \in Roles /\ SessionsOf("operator") = Operators /\ s # None
  BY VoiceAssumption DEF Roles, SessionsOf
<1>2. CASE Invite(s, id)
  <2> DEFINE staying == InPlace \cap ({s} \cup Teammates)
  <2>1. /\ Forward("operator", s, staying) /\ Tells("operator", s)
        /\ state' = "ringing" /\ call_id' = id /\ operator_session_id' = s
        /\ field_teammate_session_id' = None /\ age' = 0
    BY <1>2 DEF Invite
  <2>2. staying \subseteq InPlace /\ staying \cap Operators \subseteq {s}
    BY VoiceAssumption
  <2>3. CallInv' /\ state' \in States
    BY <1>1, <2>1 DEF CallInv, States
  <2> HIDE DEF staying
  <2>4. QED
    BY <1>1, <2>1, <2>2, <2>3, TellingStep
<1>3. CASE Cancel(s, id)
  <2>1. /\ Forward("operator", s, present) /\ Tells("operator", s)
        /\ state' = "none" /\ call_id' = None /\ operator_session_id' = None
        /\ field_teammate_session_id' = None /\ age' = 0
    BY <1>3 DEF Cancel, NoCall
  <2>2. present \subseteq InPlace /\ present \cap Operators \subseteq {s}
    BY <1>3 DEF Cancel, Bound, Active, IInv, PresentInv
  <2>3. CallInv' /\ state' \in States
    BY <2>1 DEF CallInv, States
  <2>4. QED
    BY <1>1, <2>1, <2>2, <2>3, TellingStep
<1>4. QED
  BY <1>2, <1>3 DEF OperatorSignal

(* What the signals that answer a ringing call preserve. *)
LEMMA TeammateStep ==
    ASSUME IInv, NEW s \in Teammates, NEW id \in CallIds, TeammateSignal(s, id)
    PROVE  IInv'
<1>1. "field_teammate" \in Roles /\ SessionsOf("field_teammate") = Teammates /\ s # None
  BY VoiceAssumption DEF Roles, SessionsOf
<1>2. /\ Parties(s) \subseteq InPlace
      /\ Parties(s) \cap Teammates \subseteq {s}
      /\ Parties(s) \cap Operators \subseteq present \cap Operators
  BY VoiceAssumption DEF Parties, IInv, PresentInv
<1>3. CASE Ringing(s, id) \/ Accept(s, id)
  <2>1. /\ Forward("field_teammate", s, Parties(s)) /\ Tells("field_teammate", s)
        /\ state # "none" /\ state' \in States /\ state' # "none"
        /\ UNCHANGED <<call_id, operator_session_id>>
        /\ field_teammate_session_id' = s /\ age' = 0
    BY <1>3 DEF Ringing, Accept, Answers, Active, States
  <2>2. CallInv'
    BY <1>1, <2>1 DEF IInv, CallInv
  <2>3. Parties(s) \cap Operators \subseteq {operator_session_id'}
    BY <1>2, <2>1 DEF IInv, PresentInv
  <2>4. /\ call_id' \in CallIds \cup {None}
        /\ operator_session_id' \in Operators \cup {None}
    BY <2>1 DEF IInv, TypeOK
  <2>5. QED
    BY <1>1, <1>2, <2>1, <2>2, <2>3, <2>4, TellingStep
<1>4. CASE Decline(s, id)
  <2>1. /\ Forward("field_teammate", s, Parties(s)) /\ Tells("field_teammate", s)
        /\ state' = "none" /\ call_id' = None /\ operator_session_id' = None
        /\ field_teammate_session_id' = None /\ age' = 0
    BY <1>4 DEF Decline, NoCall
  <2>2. CallInv' /\ state' \in States
    BY <2>1 DEF CallInv, States
  <2>3. QED
    BY <1>1, <1>2, <2>1, <2>2, TellingStep
<1>5. QED
  BY <1>3, <1>4 DEF TeammateSignal

(* What the signals of a party to the call preserve. *)
LEMMA PartyStep ==
    ASSUME IInv, NEW role \in Roles, NEW s \in SessionsOf(role), NEW id \in CallIds,
           PartySignal(role, s, id)
    PROVE  IInv'
<1>1. s # None /\ present \subseteq InPlace
  BY RoleFacts DEF IInv, PresentInv
<1>2. CASE Negotiate(role, s, id) \/ Mute(role, s, id) \/ Heartbeat(role, s, id)
  BY <1>2, QuietStep DEF Negotiate, Mute, Heartbeat, Bound, Active
<1>3. ASSUME Bound(role, s, id)
      PROVE  state # "none" /\ present \cap SessionsOf(role) \subseteq {s}
  BY <1>1, <1>3 DEF Bound, Active, SessionsOf, Roles, IInv, PresentInv
<1>4. CASE Connected(role, s, id)
  <2>1. /\ Bound(role, s, id) /\ Forward(role, s, present) /\ Tells(role, s)
        /\ state \in {"connecting", "connected"} /\ state' = "connected"
        /\ UNCHANGED <<call_id, operator_session_id, field_teammate_session_id>> /\ age' = 0
    BY <1>4 DEF Connected
  <2>2. CallInv' /\ state' \in States
    BY <2>1 DEF IInv, CallInv, States
  <2>3. /\ call_id' \in CallIds \cup {None}
        /\ operator_session_id' \in Operators \cup {None}
        /\ field_teammate_session_id' \in Teammates \cup {None}
    BY <2>1 DEF IInv, TypeOK
  <2>4. /\ present \cap Operators \subseteq {operator_session_id'}
        /\ field_teammate_session_id' # None =>
              present \cap Teammates \subseteq {field_teammate_session_id'}
    BY <1>3, <2>1 DEF IInv, PresentInv
  <2>5. QED
    BY <1>1, <1>3, <2>1, <2>2, <2>3, <2>4, TellingStep
<1>5. CASE End(role, s, id)
  <2>1. /\ Bound(role, s, id) /\ Forward(role, s, present) /\ Tells(role, s)
        /\ state' = "none" /\ call_id' = None /\ operator_session_id' = None
        /\ field_teammate_session_id' = None /\ age' = 0
    BY <1>5 DEF End, NoCall
  <2>2. CallInv' /\ state' \in States
    BY <2>1 DEF CallInv, States
  <2>3. QED
    BY <1>1, <1>3, <2>1, <2>2, TellingStep
<1>6. QED
  BY <1>2, <1>4, <1>5 DEF PartySignal

(* What connections that come and go preserve: they are no longer present.   *)
LEMMA ConnectionStep ==
    ASSUME IInv, UNCHANGED <<call, age, sender, told>>,
           connected' \subseteq Sessions, lost' \subseteq connected',
           peers' \in [Roles -> Sessions \cup {None}], PeersInv',
           present' \subseteq present, present' \subseteq InPlace'
    PROVE  IInv'
<1>1. TypeOK'
  BY DEF IInv, TypeOK, call
<1>2. CallInv' /\ PresentInv'
  BY DEF IInv, CallInv, PresentInv, call
<1>3. PartiesKnow'
  BY DEF IInv, PartiesKnow, call
<1>4. QED
  BY <1>1, <1>2, <1>3 DEF IInv

(* Types hold, every call has an operator and every answered call both its   *)
(* parties, and the parties that stay know its state.                        *)
THEOREM Invariance == Spec => []IInv
<1>1. Init => IInv
  <2> SUFFICES ASSUME Init PROVE IInv
    OBVIOUS
  <2>1. 0 \in 0..Ttl + 1
    BY VoiceAssumption
  <2>2. told \in [Sessions -> States] /\ peers \in [Roles -> Sessions \cup {None}]
    BY DEF Init, States
  <2>3. TypeOK
    BY <2>1, <2>2 DEF Init, TypeOK, States
  <2>4. PeersInv /\ CallInv /\ PresentInv /\ PartiesKnow
    BY DEF Init, PeersInv, CallInv, PresentInv, PartiesKnow
  <2>5. QED
    BY <2>3, <2>4 DEF IInv
<1>2. IInv /\ [Next]_vars => IInv'
  <2> SUFFICES ASSUME IInv, [Next]_vars PROVE IInv'
    OBVIOUS
  <2>1. CASE UNCHANGED vars
    BY <2>1 DEF vars, call, relayVars, IInv, TypeOK, PeersInv, CallInv, PresentInv, PartiesKnow,
       InPlace
  <2>2. CASE Tick
    <3>1. /\ age <= Ttl /\ age' = age + 1
          /\ UNCHANGED <<call, connected, lost, peers, sender, told, present>>
      BY <2>2 DEF Tick, relayVars
    <3>2. age' \in 0..Ttl + 1 /\ (age' <= Ttl => age <= Ttl)
      BY <3>1, VoiceAssumption DEF IInv, TypeOK
    <3>3. TypeOK'
      BY <3>1, <3>2 DEF call, IInv, TypeOK
    <3>4. QED
      BY <3>1, <3>2, <3>3 DEF call, IInv, PeersInv, CallInv, PresentInv, PartiesKnow, InPlace
  <2>3. CASE Reject
    <3>1. CASE age > Ttl
      <4>1. /\ state' = "none" /\ call_id' = None /\ operator_session_id' = None
            /\ field_teammate_session_id' = None /\ age' = 0 /\ present' = {}
            /\ UNCHANGED <<connected, lost, peers, sender, told>>
        BY <2>3, <3>1 DEF Reject, NoCall, relayVars
      <4>2. 0 \in 0..Ttl + 1
        BY VoiceAssumption
      <4>3. TypeOK'
        BY <4>1, <4>2 DEF IInv, TypeOK, States
      <4>4. PeersInv' /\ CallInv' /\ PresentInv' /\ PartiesKnow'
        BY <4>1 DEF IInv, PeersInv, CallInv, PresentInv, PartiesKnow
      <4>5. QED
        BY <4>3, <4>4 DEF IInv
    <3>2. CASE ~(age > Ttl)
      BY <2>1, <2>3, <3>2 DEF Reject, vars
    <3>3. QED
      BY <3>1, <3>2
  <2>4. ASSUME NEW s \in Sessions, Lose(s)
        PROVE  IInv'
    <3>1. /\ UNCHANGED <<call, age, connected, peers, sender, told>>
          /\ s \in connected /\ lost' = lost \cup {s} /\ present' = present \ {s}
      BY <2>4 DEF Lose
    <3>2. present' \subseteq InPlace'
      BY <3>1 DEF IInv, PresentInv, InPlace
    <3>3. /\ connected' \subseteq Sessions /\ lost' \subseteq connected' /\ PeersInv'
          /\ peers' \in [Roles -> Sessions \cup {None}]
      BY <3>1 DEF IInv, TypeOK, PeersInv
    <3>4. QED
      BY <3>1, <3>2, <3>3, ConnectionStep
  <2>5. ASSUME NEW role \in Roles, NEW s \in SessionsOf(role), Join(role, s)
        PROVE  IInv'
    <3>1. s \in Sessions
      BY RoleFacts
    <3>2. /\ UNCHANGED <<call, age, sender, told>>
          /\ connected' = connected \cup {s}
          /\ lost' = lost \cup ({peers[role]} \ {None})
          /\ peers' = [peers EXCEPT ![role] = s]
          /\ present' = present \ {peers[role]}
      BY <2>5 DEF Join
    <3>3. PeersInv' /\ peers' \in [Roles -> Sessions \cup {None}]
      BY <3>1, <3>2 DEF IInv, TypeOK, PeersInv
    <3>4. ASSUME NEW p \in present' PROVE p \in InPlace'
      <4>1. p \in InPlace /\ p # peers[role]
        BY <3>2, <3>4 DEF IInv, PresentInv
      <4>2. PICK r \in Roles : peers[r] = p
        BY <4>1 DEF InPlace
      <4>3. peers'[r] = p /\ p \notin lost' /\ p \in Sessions
        BY <3>2, <4>1, <4>2 DEF InPlace, IInv, TypeOK
      <4>4. QED
        BY <4>3 DEF InPlace
    <3>5. connected' \subseteq Sessions /\ lost' \subseteq connected'
      BY <3>1, <3>2 DEF IInv, PeersInv, TypeOK
    <3>6. present' \subseteq present /\ present' \subseteq InPlace'
      BY <3>2, <3>4
    <3>7. QED
      BY <3>2, <3>3, <3>5, <3>6, ConnectionStep
  <2>6. ASSUME NEW role \in Roles, NEW s \in SessionsOf(role), Leave(role, s)
        PROVE  IInv'
    <3>1. /\ UNCHANGED <<call, age, sender, told>>
          /\ connected' = connected \ {s}
          /\ lost' = lost \ {s}
          /\ peers' = [peers EXCEPT ![role] = IF @ = s THEN None ELSE @]
          /\ present' = present \ {s}
      BY <2>6 DEF Leave, Unregister
    <3>2. PeersInv' /\ peers' \in [Roles -> Sessions \cup {None}]
      BY <2>6, RoleVacated DEF Leave, IInv
    <3>3. \A r \in Roles : peers[r] # s => peers'[r] = peers[r]
      BY <3>1 DEF IInv, TypeOK
    <3>4. present' \subseteq InPlace'
      BY <3>1, <3>3 DEF IInv, PresentInv, InPlace
    <3>5. connected' \subseteq Sessions /\ lost' \subseteq connected'
      BY <3>1 DEF IInv, TypeOK
    <3>6. QED
      BY <3>1, <3>2, <3>4, <3>5, ConnectionStep
  <2>7. ASSUME NEW s \in Operators, NEW id \in CallIds, OperatorSignal(s, id)
        PROVE  IInv'
    BY <2>7, OperatorStep
  <2>8. ASSUME NEW s \in Teammates, NEW id \in CallIds, TeammateSignal(s, id)
        PROVE  IInv'
    BY <2>8, TeammateStep
  <2>9. ASSUME NEW role \in Roles, NEW id \in CallIds, NEW s \in SessionsOf(role),
               PartySignal(role, s, id)
        PROVE  IInv'
    BY <2>9, PartyStep
  <2>10. QED
    BY <2>1, <2>2, <2>3, <2>4, <2>5, <2>6, <2>7, <2>8, <2>9 DEF Next
<1>3. QED
  BY <1>1, <1>2, PTL DEF Spec

(* Every variable of the voice room keeps its type.                          *)
THEOREM TypeCorrect == Spec => []TypeOK
<1>1. IInv => TypeOK
  BY DEF IInv
<1>2. QED
  BY <1>1, Invariance, PTL

(* A call neither advances nor ends without the other party being told,      *)
(* unless that party's connection was lost or replaced since the invitation. *)
THEOREM PartiesAreTold == Spec => []PartiesKnow
<1>1. IInv => PartiesKnow
  BY DEF IInv
<1>2. QED
  BY <1>1, Invariance, PTL

-----------------------------------------------------------------------------
(* A call just renewed is within its time to live.                           *)
LEMMA FreshAge == 0 <= Ttl
BY VoiceAssumption

(* The registry implements its contract: a room has one call at a time, and  *)
(* the parties of an answered call stay who they are until it is over.       *)
THEOREM Refinement == Spec => KeepsContract
<1>1. Init => Contract!Init
  BY DEF Init, Contract!Init, InCall
<1>2. IInv /\ [Next]_vars => [Contract!Next]_(Contract!callVars)
  <2> SUFFICES ASSUME IInv, [Next]_vars PROVE [Contract!Next]_(Contract!callVars)
    OBVIOUS
  <2> USE DEF InCall, Contract!callVars
  <2>1. ASSUME UNCHANGED call, InCall' <=> InCall
        PROVE  [Contract!Next]_(Contract!callVars)
    BY <2>1 DEF call
  <2>2. CASE Tick
    <3>1. CASE age' <= Ttl
      BY <2>1, <2>2, <3>1 DEF Tick, call
    <3>2. CASE ~(age' <= Ttl)
      <4>1. Contract!Finish
        BY <2>2, <3>2 DEF Tick, call, Contract!Finish
      <4>2. QED
        BY <4>1 DEF Contract!Next
    <3>3. QED
      BY <3>1, <3>2
  <2>3. CASE Reject
    <3>1. CASE age > Ttl
      <4>1. ~InCall /\ ~InCall'
        BY <2>3, <3>1, VoiceAssumption DEF Reject, NoCall, IInv, TypeOK
      <4>2. QED
        BY <4>1
    <3>2. CASE ~(age > Ttl)
      BY <2>1, <2>3, <3>2 DEF Reject, call
    <3>3. QED
      BY <3>1, <3>2
  <2>4. ASSUME NEW s \in Operators, NEW id \in CallIds, OperatorSignal(s, id)
        PROVE  [Contract!Next]_(Contract!callVars)
    <3>1. CASE Invite(s, id)
      <4>1. ~InCall /\ InCall'
        <5>1. age > Ttl => ~(age <= Ttl)
          BY VoiceAssumption DEF IInv, TypeOK
        <5>2. QED
          BY <3>1, <5>1, FreshAge DEF Invite
      <4>2. Contract!Invite(s)
        BY <3>1, <4>1 DEF Invite, Contract!Invite
      <4>3. QED
        BY <4>2 DEF Contract!Next
    <3>2. CASE Cancel(s, id)
      <4>1. Contract!Finish
        BY <3>2 DEF Cancel, Bound, Active, NoCall, Contract!Finish
      <4>2. QED
        BY <4>1 DEF Contract!Next
    <3>3. QED
      BY <2>4, <3>1, <3>2 DEF OperatorSignal
  <2>5. ASSUME NEW s \in Teammates, NEW id \in CallIds, TeammateSignal(s, id)
        PROVE  [Contract!Next]_(Contract!callVars)
    <3>1. CASE Ringing(s, id)
      <4>1. Contract!Ring(s)
        BY <3>1, FreshAge DEF Ringing, Answers, Active, Contract!Ring
      <4>2. QED
        BY <4>1 DEF Contract!Next
    <3>2. CASE Accept(s, id)
      <4>1. Contract!Answer(s)
        BY <3>2, FreshAge DEF Accept, Answers, Active, Contract!Answer
      <4>2. QED
        BY <4>1 DEF Contract!Next
    <3>3. CASE Decline(s, id)
      <4>1. Contract!Finish
        BY <3>3 DEF Decline, Active, NoCall, Contract!Finish
      <4>2. QED
        BY <4>1 DEF Contract!Next
    <3>4. QED
      BY <2>5, <3>1, <3>2, <3>3 DEF TeammateSignal
  <2>6. ASSUME NEW role \in Roles, NEW id \in CallIds, NEW s \in SessionsOf(role),
               PartySignal(role, s, id)
        PROVE  [Contract!Next]_(Contract!callVars)
    <3>1. CASE Negotiate(role, s, id) \/ Mute(role, s, id) \/ Heartbeat(role, s, id)
      BY <2>1, <3>1, FreshAge DEF Negotiate, Mute, Heartbeat, Bound, Active, call
    <3>2. CASE Connected(role, s, id)
      BY <3>2, FreshAge DEF Connected, Bound, Active
    <3>3. CASE End(role, s, id)
      <4>1. Contract!Finish
        BY <3>3 DEF End, Bound, Active, NoCall, Contract!Finish
      <4>2. QED
        BY <4>1 DEF Contract!Next
    <3>4. QED
      BY <2>6, <3>1, <3>2, <3>3 DEF PartySignal
  <2>7. CASE \/ UNCHANGED vars \/ \E s \in Sessions : Lose(s)
             \/ \E role \in Roles : \E s \in SessionsOf(role) : Join(role, s) \/ Leave(role, s)
    <3>1. UNCHANGED <<call, age>>
      BY <2>7 DEF vars, Lose, Join, Leave
    <3>2. InCall' <=> InCall
      BY <3>1 DEF call
    <3>3. QED
      BY <2>1, <3>1, <3>2 DEF call
  <2>8. QED
    BY <2>2, <2>3, <2>4, <2>5, <2>6, <2>7 DEF Next
<1>3. QED
  BY <1>1, <1>2, Invariance, PTL DEF Spec, KeepsContract, Contract!Spec

(* No one but a party, or the clock, changes or prolongs a call in progress.  *)
THEOREM OnlyParticipants == Spec => ParticipantsOnly
<1> DEFINE Allowed ==
      \/ sender' = operator_session_id
      \/ sender' = field_teammate_session_id
      \/ /\ state = "ringing"
         /\ field_teammate_session_id = None
         /\ sender' \in Teammates
<1>1. TypeOK /\ [Next]_vars =>
        [InCall /\ (call' # call \/ age' < age \/ sender' # sender) => Allowed]_vars
  <2> SUFFICES ASSUME TypeOK, Next, InCall, call' # call \/ age' < age \/ sender' # sender
               PROVE  Allowed
    OBVIOUS
  <2>1. ~Tick /\ ~Reject
    <3>1. age \in Nat /\ ~(age + 1 < age) /\ ~(age < age)
      BY VoiceAssumption DEF TypeOK
    <3>2. age <= Ttl
      BY DEF InCall
    <3>3. ~(age > Ttl)
      BY <3>1, <3>2, VoiceAssumption
    <3>4. QED
      BY <3>1, <3>3 DEF Tick, Reject
  <2>2. /\ \A s \in Sessions : ~Lose(s)
        /\ \A role \in Roles : \A s \in SessionsOf(role) : ~Join(role, s) /\ ~Leave(role, s)
    <3>1. ~(age < age)
      BY VoiceAssumption DEF TypeOK
    <3>2. QED
      BY <3>1 DEF Lose, Join, Leave
  <2>3. ASSUME NEW s \in Operators, NEW id \in CallIds, OperatorSignal(s, id)
        PROVE  Allowed
    <3>1. ~Invite(s, id)
      BY VoiceAssumption DEF Invite, InCall, TypeOK
    <3>2. QED
      BY <2>3, <3>1 DEF OperatorSignal, Cancel, Bound, Forward
  <2>4. ASSUME NEW s \in Teammates, NEW id \in CallIds, TeammateSignal(s, id)
        PROVE  Allowed
    BY <2>4 DEF TeammateSignal, Ringing, Accept, Decline, Answers, Forward
  <2>5. ASSUME NEW role \in Roles, NEW id \in CallIds, NEW s \in SessionsOf(role),
               PartySignal(role, s, id)
        PROVE  Allowed
    BY <2>5 DEF PartySignal, Negotiate, Connected, Mute, Heartbeat, End, Bound, Forward
  <2>6. QED
    BY <2>1, <2>2, <2>3, <2>4, <2>5 DEF Next
<1>2. QED
  BY <1>1, TypeCorrect, PTL DEF Spec, ParticipantsOnly
=============================================================================
