----------------------------- MODULE SignalQueue -----------------------------
(***************************************************************************)
(* What the relay keeps of a queue of signals, when a new description      *)
(* supersedes older ones and when a registration takes what is current.    *)
(***************************************************************************)
EXTENDS Naturals, Sequences

(* The signals of a queue that are in S, in their order.  SelectSeq would   *)
(* say the same, but the provers know nothing of it.                       *)
Kept(queue, S) ==
    LET kept[n \in 0..Len(queue)] ==
            IF n = 0 THEN <<>>
            ELSE IF queue[n] \in S THEN Append(kept[n - 1], queue[n]) ELSE kept[n - 1]
    IN kept[Len(queue)]

=============================================================================
