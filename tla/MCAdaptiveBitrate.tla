--------------------------- MODULE MCAdaptiveBitrate ---------------------------
(* Two tracks of unequal rate whose shares meet their own bounds before the     *)
(* session meets its bounds.                                                   *)
EXTENDS AdaptiveBitrate

CONSTANTS front, rear

Cameras == {front, rear}
Rates == [t \in Cameras |-> IF t = front THEN 4 ELSE 3]
Minima == [t \in Cameras |-> IF t = front THEN 2 ELSE 1]
Maxima == [t \in Cameras |-> IF t = front THEN 6 ELSE 3]

Quiet == [loss |-> 0, rtt |-> 0]
Reports2 ==
    {[t \in Cameras |-> Quiet],
     [t \in Cameras |-> IF t = rear THEN [loss |-> 2, rtt |-> Unknown] ELSE Quiet]}

=============================================================================
