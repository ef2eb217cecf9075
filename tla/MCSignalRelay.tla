---------------------------- MODULE MCSignalRelay ----------------------------
(***************************************************************************)
(* Model values for SignalRelay: a robot whose second connection is that   *)
(* of a restarted process, and a legacy machine that may connect once.     *)
(***************************************************************************)
EXTENDS SignalRelay

CONSTANTS r1, r2, m1, robotBefore, robotAfter

MCConns == {r1, r2, m1}
MCSessions == {robotBefore, robotAfter}
MCRoleOf == [c \in MCConns |-> IF c = m1 THEN "machine" ELSE "robot"]
MCSessionOf ==
    [c \in MCConns |-> CASE c = r1 -> robotBefore [] c = r2 -> robotAfter [] c = m1 -> NoSession]
MCMaxSignals == [c \in MCConns |-> IF c = r2 THEN 1 ELSE 2]
=============================================================================
