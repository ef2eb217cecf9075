---------------------------- MODULE MCMediaSession ----------------------------
(* Instances of MediaSession. *)
EXTENDS MediaSession

MachineRestarts == {[role |-> "machine", kind |-> "restart"]}
===============================================================================
