------------------------------ MODULE VoiceCall ------------------------------
(***************************************************************************)
(* The voice call of one room: the registry that validates the signals of  *)
(* the two parties (scripts/horus_voice_session.py) and the relay's        *)
(* forwarding of the signals it accepts (handle and forward of             *)
(* scripts/webrtc_signal_relay.py).                                        *)
(*                                                                         *)
(* The relay validates and forwards a signal in one step of its event      *)
(* loop.  The headset applications may send any signal at any time: one    *)
(* that the registry rejects changes nothing, but every signal, of any     *)
(* room, first deletes a call past its TTL.  Payload checks and formats    *)
(* are left out.                                                           *)
(*                                                                         *)
(* Signals reach a connection in the order they are sent, so the model     *)
(* keeps of them what the last one said of the state of the call (told).   *)
(* What is queued for an absent role is SignalRelay's matter: it reaches   *)
(* nobody who was connected when it was sent.                              *)
(***************************************************************************)
EXTENDS Naturals

CONSTANTS
    Operators,  \* sessions of operator applications
    Teammates,  \* sessions of field-teammate applications
    CallIds,
    Ttl,        \* call_ttl_sec, in ticks of the clock
    None        \* no call, no session

ASSUME VoiceAssumption ==
    /\ None \notin Operators \cup Teammates \cup CallIds
    /\ Operators \cap Teammates = {}
    /\ Ttl \in Nat

VARIABLES
    state,                      \* of the room's call, "none" when there is none
    call_id,
    operator_session_id,
    field_teammate_session_id,  \* None until a teammate is bound to the call
    age,                        \* time since updated_at, up to one tick past the TTL
    connected,                  \* sessions whose connection the relay still reads
    lost,                       \* those of them to whom a send fails
    peers,                      \* [role] the session that registered last, if it is there
    sender,                     \* who sent the last signal that was accepted
    told,                       \* [session] the state of the call, as far as it knows
    present                     \* auxiliary: sessions in their role's place, on an open
                                \* connection, since the last call was invited

call == <<state, call_id, operator_session_id, field_teammate_session_id>>
relayVars == <<connected, lost, peers>>
vars == <<call, age, relayVars, sender, told, present>>

Sessions == Operators \cup Teammates
Roles == {"operator", "field_teammate"}
SessionsOf(role) == IF role = "operator" THEN Operators ELSE Teammates
PeerRole(role) == IF role = "operator" THEN "field_teammate" ELSE "operator"

States == {"none", "ringing", "connecting", "connected"}

TypeOK ==
    /\ state \in States
    /\ call_id \in CallIds \cup {None}
    /\ operator_session_id \in Operators \cup {None}
    /\ field_teammate_session_id \in Teammates \cup {None}
    /\ age \in 0..Ttl + 1
    /\ connected \subseteq Sessions
    /\ lost \subseteq connected
    /\ peers \in [Roles -> Sessions \cup {None}]
    /\ sender \in Sessions \cup {None}
    /\ told \in [Sessions -> States]
    /\ present \subseteq Sessions

Init ==
    /\ state = "none"
    /\ call_id = None
    /\ operator_session_id = None
    /\ field_teammate_session_id = None
    /\ age = 0
    /\ connected = {}
    /\ lost = {}
    /\ peers = [role \in Roles |-> None]
    /\ sender = None
    /\ told = [s \in Sessions |-> "none"]
    /\ present = {}

-----------------------------------------------------------------------------
(* The clock and the connections. *)

Tick ==
    /\ state # "none"
    /\ age <= Ttl
    /\ age' = age + 1
    /\ UNCHANGED <<call, relayVars, sender, told, present>>

(* A session registers for its role.  The connection it replaces is closed, *)
(* but the relay reads it to its end.                                       *)
Join(role, s) ==
    /\ s \notin connected
    /\ connected' = connected \cup {s}
    /\ lost' = lost \cup ({peers[role]} \ {None})
    /\ peers' = [peers EXCEPT ![role] = s]
    /\ present' = present \ {peers[role]}
    /\ UNCHANGED <<call, age, sender, told>>

(* A connection is lost, and the relay does not know it yet. *)
Lose(s) ==
    /\ s \in connected \ lost
    /\ lost' = lost \cup {s}
    /\ present' = present \ {s}
    /\ UNCHANGED <<call, age, connected, peers, sender, told>>

(* The finally clause of the handler of a connection, which unregisters it. *)
Unregister(role, s) ==
    /\ connected' = connected \ {s}
    /\ lost' = lost \ {s}
    /\ peers' = [peers EXCEPT ![role] = IF @ = s THEN None ELSE @]

(* The registry hears nothing of a connection that ends. *)
Leave(role, s) ==
    /\ s \in connected
    /\ Unregister(role, s)
    /\ present' = present \ {s}
    /\ UNCHANGED <<call, age, sender, told>>

-----------------------------------------------------------------------------
(* validate_and_apply, then forward. *)

(* Whoever holds the other role, if it can be reached. *)
Reached(role) == {peers[PeerRole(role)]} \ ({None} \cup lost)

(* The sessions that hold a role on an open connection. *)
InPlace == {p \in Sessions \ lost : \E role \in Roles : peers[role] = p}

(* An accepted signal goes to whoever holds the other role; with None there, *)
(* it is queued, and if the send fails the sender's handler ends.  Sessions *)
(* in staying are what is left of present once the signal was applied.      *)
Forward(role, s, staying) ==
    /\ s \in connected
    /\ sender' = s
    /\ IF peers[PeerRole(role)] \in lost
       THEN Unregister(role, s) /\ present' = staying \ {s}
       ELSE UNCHANGED relayVars /\ present' = staying

(* The signal tells its sender, once accepted, and its receiver what state   *)
(* the call has come to.                                                    *)
Tells(role, s) ==
    told' = [p \in Sessions |-> IF p \in {s} \cup Reached(role) THEN state' ELSE told[p]]

NoCall ==
    /\ state' = "none"
    /\ call_id' = None
    /\ operator_session_id' = None
    /\ field_teammate_session_id' = None
    /\ age' = 0

(* Mutant: a rejected signal renews the call as an accepted one does. *)
MutantReject ==
    /\ IF age > Ttl
       THEN NoCall /\ present' = {}
       ELSE age' = 0 /\ UNCHANGED <<call, present>>
    /\ UNCHANGED <<relayVars, sender, told>>

(* A signal that is rejected, or of another room, deletes a call past its   *)
(* TTL, of which nobody is told.                                            *)
Reject ==
    /\ IF age > Ttl
       THEN NoCall /\ present' = {}
       ELSE UNCHANGED <<call, age, present>>
    /\ UNCHANGED <<relayVars, sender, told>>

(* The first signal of a call; a call past its TTL does not stand in its way. *)
Invite(s, id) ==
    /\ state = "none" \/ age > Ttl
    /\ state' = "ringing"
    /\ call_id' = id
    /\ operator_session_id' = s
    /\ field_teammate_session_id' = None
    /\ age' = 0
    /\ Forward("operator", s, InPlace \cap ({s} \cup Teammates))
    /\ Tells("operator", s)

Active(id) == state # "none" /\ age <= Ttl /\ call_id = id

(* Mutant: the call id alone identifies the sender. *)
MutantBound(role, s, id) == Active(id)

(* The sender is the session of its role that the call is bound to. *)
Bound(role, s, id) ==
    /\ Active(id)
    /\ s = IF role = "operator" THEN operator_session_id ELSE field_teammate_session_id

(* Mutant: a later teammate may take the call over. *)
MutantAnswers(s, id) ==
    /\ Active(id)
    /\ field_teammate_session_id' = s

(* A ringing call is bound to the first teammate that reacts to it. *)
Answers(s, id) ==
    /\ Active(id)
    /\ state = "ringing"
    /\ field_teammate_session_id \in {None, s}
    /\ field_teammate_session_id' = s

(* No other teammate is a party to the call any more. *)
Parties(s) == present \cap (Operators \cup {s})

Ringing(s, id) ==
    /\ Answers(s, id)
    /\ age' = 0
    /\ UNCHANGED <<state, call_id, operator_session_id>>
    /\ Forward("field_teammate", s, Parties(s))
    /\ Tells("field_teammate", s)

Accept(s, id) ==
    /\ Answers(s, id)
    /\ state' = "connecting"
    /\ age' = 0
    /\ UNCHANGED <<call_id, operator_session_id>>
    /\ Forward("field_teammate", s, Parties(s))
    /\ Tells("field_teammate", s)

(* Mutant: the call goes on ringing for other teammates. *)
MutantDecline(s, id) ==
    /\ Active(id)
    /\ state = "ringing"
    /\ field_teammate_session_id \in {None, s}
    /\ field_teammate_session_id' = None
    /\ age' = 0
    /\ UNCHANGED <<state, call_id, operator_session_id>>
    /\ Forward("field_teammate", s, Parties(s))
    /\ told' = [p \in Sessions |->
                   IF p \in {s} \cup Reached("field_teammate") THEN "none" ELSE told[p]]

Decline(s, id) ==
    /\ Active(id)
    /\ state = "ringing"
    /\ field_teammate_session_id \in {None, s}
    /\ NoCall
    /\ Forward("field_teammate", s, Parties(s))
    /\ Tells("field_teammate", s)

Cancel(s, id) ==
    /\ Bound("operator", s, id)
    /\ state = "ringing"
    /\ NoCall
    /\ Forward("operator", s, present)
    /\ Tells("operator", s)

(* Descriptions and candidates need an accepted call, from either party. *)
Negotiate(role, s, id) ==
    /\ Bound(role, s, id)
    /\ state \in {"connecting", "connected"}
    /\ age' = 0
    /\ Forward(role, s, present)
    /\ UNCHANGED <<call, told>>

Connected(role, s, id) ==
    /\ Bound(role, s, id)
    /\ state \in {"connecting", "connected"}
    /\ state' = "connected"
    /\ age' = 0
    /\ UNCHANGED <<call_id, operator_session_id, field_teammate_session_id>>
    /\ Forward(role, s, present)
    /\ Tells(role, s)

Mute(role, s, id) ==
    /\ Bound(role, s, id)
    /\ state = "connected"
    /\ age' = 0
    /\ Forward(role, s, present)
    /\ UNCHANGED <<call, told>>

Heartbeat(role, s, id) ==
    /\ Bound(role, s, id)
    /\ age' = 0
    /\ Forward(role, s, present)
    /\ UNCHANGED <<call, told>>

(* Mutant: call_error marks the call as failed and keeps it. *)
MutantEnd(role, s, id) ==
    /\ Bound(role, s, id)
    /\ state' = "failed"
    /\ age' = 0
    /\ UNCHANGED <<call_id, operator_session_id, field_teammate_session_id>>
    /\ Forward(role, s, present)
    /\ Tells(role, s)

(* call_error sets the state "failed" and, like call_end, deletes the call. *)
End(role, s, id) ==
    /\ Bound(role, s, id)
    /\ NoCall
    /\ Forward(role, s, present)
    /\ Tells(role, s)

-----------------------------------------------------------------------------
OperatorSignal(s, id) == Invite(s, id) \/ Cancel(s, id)

TeammateSignal(s, id) == Ringing(s, id) \/ Accept(s, id) \/ Decline(s, id)

PartySignal(role, s, id) ==
    \/ Negotiate(role, s, id)
    \/ Connected(role, s, id)
    \/ Mute(role, s, id)
    \/ Heartbeat(role, s, id)
    \/ End(role, s, id)

Next ==
    \/ Tick
    \/ Reject
    \/ \E s \in Sessions : Lose(s)
    \/ \E role \in Roles : \E s \in SessionsOf(role) : Join(role, s) \/ Leave(role, s)
    \/ \E s \in Operators, id \in CallIds : OperatorSignal(s, id)
    \/ \E s \in Teammates, id \in CallIds : TeammateSignal(s, id)
    \/ \E role \in Roles, id \in CallIds : \E s \in SessionsOf(role) : PartySignal(role, s, id)

Spec == Init /\ [][Next]_vars

(* Time passes, whatever is sent. *)
FairSpec == Spec /\ WF_vars(Tick)

-----------------------------------------------------------------------------
(***************************************************************************)
(* Properties.                                                             *)
(***************************************************************************)

InCall == state # "none" /\ age <= Ttl

(***************************************************************************)
(* The registry keeps the contract.  A call past its TTL counts as over    *)
(* although the registry still holds it: nothing ever revives it.          *)
(***************************************************************************)
Contract == INSTANCE VoiceCallContract WITH
    phase    <- IF ~InCall THEN "idle" ELSE IF state = "ringing" THEN "ringing" ELSE "answered",
    operator <- IF InCall THEN operator_session_id ELSE None,
    teammate <- IF InCall THEN field_teammate_session_id ELSE None

KeepsContract == Contract!Spec

(* Nobody but its parties, or the clock, changes or ends a call, or keeps   *)
(* it from expiring; a teammate is a party from its first reaction on.      *)
ParticipantsOnly ==
    [][InCall /\ (call' # call \/ age' < age \/ sender' # sender) =>
          \/ sender' = operator_session_id
          \/ sender' = field_teammate_session_id
          \/ /\ state = "ringing"
             /\ field_teammate_session_id = None
             /\ sender' \in Teammates]_vars

(* A party that stays connected, in its role's place, from the invitation   *)
(* on knows the state the registry has brought the call to, and that it is  *)
(* over: a call advances, or ends, without the other party being told only  *)
(* if that party's connection is lost or replaced.  Expiry alone tells      *)
(* nobody.                                                                  *)
PartiesKnow == age <= Ttl => \A p \in present : told[p] = state

(* A call that both parties have left does not hold the room for ever: the  *)
(* registry is not told that they left, but no signal of others, accepted   *)
(* or not, prolongs the call.                                               *)
PartiesConnected == {operator_session_id, field_teammate_session_id} \cap connected # {}
AbandonedCallEnds == (InCall /\ ~PartiesConnected) ~> (~InCall \/ PartiesConnected)
=============================================================================
