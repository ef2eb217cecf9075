--------------------------- MODULE MCTeammateFrames ---------------------------
(* Every orientation along the axes, and payloads that lack a direction; heads *)
(* above and below the height of a camera; one hand that is tracked and one    *)
(* that may not be.  And three poses in a row, in any order of their           *)
(* timestamps, one with hands that cannot be read, with video frames of the    *)
(* same clock, of another and of none.                                        *)
EXTENDS TeammateFrames

Directed == {d \in [forward : Axes, up : Axes] : Dot(d.forward, d.up) = 0}
Incomplete == {[forward |-> Missing, up |-> Missing]}
    \cup {[forward |-> f, up |-> Missing] : f \in Axes}
    \cup {[forward |-> Missing, up |-> u] : u \in Axes}

Joint(name, d, position) ==
    [name |-> name, named |-> TRUE, located |-> TRUE, position |-> position,
     forward |-> d.forward, up |-> d.up]

Hand(hand, tracked, d, position, joints) ==
    [hand |-> hand, tracked |-> tracked, located |-> TRUE, position |-> position,
     forward |-> d.forward, up |-> d.up, joints |-> joints]

Level == [forward |-> <<1, 0, 0>>, up |-> <<0, 0, 1>>]

(* Each two of the rotations of head, hand and joint, the third being fixed. *)
Turns ==
    {t \in [head : Directed \cup Incomplete, hand : Directed,
            joint : {d \in Directed : d.up = <<0, 0, 1>>} \cup Incomplete] :
        t.head = Level \/ t.hand = Level \/ t.joint = Level}

Poses ==
    {[timestamp |-> 0, readable |-> TRUE, forward |-> t.head.forward, up |-> t.head.up,
      position |-> position,
      hands |-> {Hand("left", TRUE, t.hand, <<2, 1, 3>>,
                      {Joint("index_tip", t.joint, <<3, 1, 5>>),
                       [Joint("palm", t.joint, Missing) EXCEPT !.located = FALSE]}),
                 Hand("right", tracked, t.joint, <<-2, 0, 1>>, {})}] :
        t \in Turns, position \in {<<1, 3, -2>>, <<4, 1, 0>>}, tracked \in BOOLEAN}

Ahead == <<0, 0, 1>>
Up == <<0, 1, 0>>

Pose(timestamp, forward, height) ==
    [timestamp |-> timestamp, readable |-> timestamp # 6, forward |-> forward, up |-> Up,
     position |-> <<timestamp, height, 0>>, hands |-> {}]

TimedPoses == {Pose(t, Ahead, 3) : t \in {0, 2, 3, 6}} \cup {Pose(3, <<1, 0, 0>>, 1)}

MCSessions == {<<p>> : p \in Poses} \cup [1..3 -> TimedPoses]

Header(tracked, located, timestamp) ==
    [tracked |-> tracked, located |-> located, timestamp |-> timestamp,
     forward |-> Ahead, up |-> Up, position |-> <<7, 3, 0>>]

MCHeaders ==
    {Header(TRUE, TRUE, 3), Header(TRUE, FALSE, 3)}
    \cup {Header(FALSE, TRUE, t) : t \in {0, 4, 900}}

(* Bound: poses with hands come at once and alone. *)
Brief ==
    now > 0 \/ copied # NoFrame \/ frame # NoFrame =>
        /\ \A s \in {incoming, sending} : \A k \in DOMAIN s : s[k].hands = {}
        /\ payload # <<>> => payload.hands = {}

=============================================================================
