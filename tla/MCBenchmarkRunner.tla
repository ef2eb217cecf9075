--------------------------- MODULE MCBenchmarkRunner ---------------------------
(* A batch for BenchmarkRunner: one condition of each pair function, with a *)
(* hub, with a rate, with a loss and with a video load among them.               *)
EXTENDS BenchmarkRunner

RosOverCloud == [kind |-> "ros", zenoh |-> TRUE, cloud |-> TRUE, load |-> FALSE, profile |-> "bw5"]
WebrtcDirect == [kind |-> "webrtc", zenoh |-> FALSE, cloud |-> FALSE, load |-> FALSE, profile |-> "unconstrained"]
ControlLoaded == [kind |-> "control", zenoh |-> TRUE, cloud |-> FALSE, load |-> TRUE, profile |-> "loss1"]

ThreeConditions == {RosOverCloud, WebrtcDirect, ControlLoaded}
================================================================================
