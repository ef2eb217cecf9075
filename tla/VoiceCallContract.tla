-------------------------- MODULE VoiceCallContract --------------------------
(***************************************************************************)
(* What the call registry promises the two parties of a voice room         *)
(* (docs/field_teammate_voice.md, "Transport boundary" and "Call           *)
(* sequence"), said without identifiers, signals or clocks: a room has one *)
(* call at a time; an operator starts it, one field-teammate session takes *)
(* it up, and from then on the two parties stay who they are until the     *)
(* call is over.                                                           *)
(***************************************************************************)
CONSTANTS Operators, Teammates, None

VARIABLES phase, operator, teammate

callVars == <<phase, operator, teammate>>

Init == phase = "idle" /\ operator = None /\ teammate = None

Invite(o) ==
    /\ phase = "idle"
    /\ phase' = "ringing"
    /\ operator' = o
    /\ teammate' = None

(* The call rings at a teammate, and from then on at no other. *)
Ring(f) ==
    /\ phase = "ringing"
    /\ teammate \in {None, f}
    /\ teammate' = f
    /\ UNCHANGED <<phase, operator>>

Answer(f) ==
    /\ phase = "ringing"
    /\ teammate \in {None, f}
    /\ phase' = "answered"
    /\ teammate' = f
    /\ UNCHANGED operator

Finish ==
    /\ phase # "idle"
    /\ phase' = "idle"
    /\ operator' = None
    /\ teammate' = None

Next ==
    \/ \E o \in Operators : Invite(o)
    \/ \E f \in Teammates : Ring(f) \/ Answer(f)
    \/ Finish

Spec == Init /\ [][Next]_callVars
=============================================================================
