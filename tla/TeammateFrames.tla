---------------------------- MODULE TeammateFrames ----------------------------
(***************************************************************************)
(* What the field-teammate relay publishes for the poses and the video     *)
(* frames of the headset (_publish_pose, _publish_video and what they      *)
(* call, in scripts/field_teammate_hololens_relay.py).  The pose thread    *)
(* first appends a pose to the history and later broadcasts it, if the     *)
(* hands that come with it can be read; the video thread copies the        *)
(* history and later takes a pose from its copy.                           *)
(*                                                                         *)
(* Directions are taken along the axes and positions and times are         *)
(* integers, so that the quaternions are exact: one is written with        *)
(* integers <<x, y, z, w>>, up to a positive factor, which                 *)
(* _quaternion_normalize divides out.                                      *)
(***************************************************************************)
EXTENDS Integers, Sequences

CONSTANTS
    Sessions,       \* sequences of poses the headset may send
    Headers,        \* video frames it may send, by their headers
    NoFrame,        \* no frame since the last pose or tick
    NoPose,         \* a frame published without a pose
    camera_height,
    floor_height,
    HistorySize,    \* poses remembered: 240 in the code
    MaxDelta,       \* how far a pose may be from a frame, or its arrival from now
    Horizon         \* bound on the clock

ASSUME HistoryAssumption == HistorySize \in Nat \ {0} /\ MaxDelta \in Nat

Vectors == [1..3 -> Int]
Missing == <<0, 0, 0>>        \* a direction the payload does not give
Axes == {<<1, 0, 0>>, <<-1, 0, 0>>, <<0, 1, 0>>, <<0, -1, 0>>, <<0, 0, 1>>, <<0, 0, -1>>}

(* Along the axes, as the abstraction above demands. *)
IsPose(p) == p.forward \in Axes \cup {Missing} /\ p.up \in Axes \cup {Missing} /\ p.position \in Vectors

ASSUME PoseAssumption ==
    /\ camera_height \in Int /\ floor_height \in Int
    /\ \A s \in Sessions :
           /\ Len(s) \in Nat /\ s = [k \in 1..Len(s) |-> s[k]]
           /\ \A k \in DOMAIN s : IsPose(s[k]) /\ s[k].timestamp \in Nat
    /\ \A h \in Headers : h.timestamp \in Nat

VARIABLES
    pose_origin,    \* --pose-origin: what the payload's position is of
    incoming,       \* payloads the headset still sends
    sending,        \* the one the pose thread is publishing, if any
    payload,        \* the one broadcast last, <<>> before
    transforms,     \* what was broadcast for it
    history,        \* _pose_history
    now,            \* time.monotonic()
    copied,         \* the frame in the video thread's hands, with its copy of history
    frame,          \* the header of a frame and the pose published with it
    poses           \* auxiliary: the payloads with a timestamp, as /tf showed them

framesVars == <<pose_origin, incoming, sending, payload, transforms, history, now, copied,
                frame, poses>>

Identity == <<<<1, 0, 0>>, <<0, 1, 0>>, <<0, 0, 1>>>>

-----------------------------------------------------------------------------
(* Vectors and rotations. *)

(* Unity has x right, y up, z forward; ROS x forward, y left, z up. *)
UnityToRos(v) == <<v[3], -v[1], v[2]>>

Plus(a, b) == [i \in 1..3 |-> a[i] + b[i]]
Minus(a, b) == [i \in 1..3 |-> a[i] - b[i]]
Dot(a, b) == a[1] * b[1] + a[2] * b[2] + a[3] * b[3]

Cross(a, b) == <<a[2] * b[3] - a[3] * b[2],
                 a[3] * b[1] - a[1] * b[3],
                 a[1] * b[2] - a[2] * b[1]>>

Normalize(v, fallback) == IF v = Missing THEN fallback ELSE v

MutantMatrixToQuaternion(r) ==
    LET trace == r[1][1] + r[2][2] + r[3][3]
    IN IF trace > 0
       THEN <<r[2][3] - r[3][2], r[3][1] - r[1][3], r[1][2] - r[2][1], 1 + trace>>
       ELSE IF r[1][1] > r[2][2] /\ r[1][1] > r[3][3]
       THEN <<1 + r[1][1] - r[2][2] - r[3][3], r[2][1] + r[1][2], r[3][1] + r[1][3],
              r[2][3] - r[3][2]>>
       ELSE IF r[2][2] > r[3][3]
       THEN <<r[2][1] + r[1][2], 1 + r[2][2] - r[1][1] - r[3][3], r[3][2] + r[2][3],
              r[3][1] - r[1][3]>>
       ELSE <<r[3][1] + r[1][3], r[3][2] + r[2][3], 1 + r[3][3] - r[1][1] - r[2][2],
              r[2][1] - r[1][2]>>

(* _matrix_to_quaternion, each branch times its s; r holds the matrix by columns. *)
MatrixToQuaternion(r) ==
    LET trace == r[1][1] + r[2][2] + r[3][3]
    IN IF trace > 0
       THEN <<r[2][3] - r[3][2], r[3][1] - r[1][3], r[1][2] - r[2][1], 1 + trace>>
       ELSE IF r[1][1] > r[2][2] /\ r[1][1] > r[3][3]
       THEN <<1 + r[1][1] - r[2][2] - r[3][3], r[2][1] + r[1][2], r[3][1] + r[1][3],
              r[2][3] - r[3][2]>>
       ELSE IF r[2][2] > r[3][3]
       THEN <<r[2][1] + r[1][2], 1 + r[2][2] - r[1][1] - r[3][3], r[3][2] + r[2][3],
              r[3][1] - r[1][3]>>
       ELSE <<r[3][1] + r[1][3], r[3][2] + r[2][3], 1 + r[3][3] - r[1][1] - r[2][2],
              r[1][2] - r[2][1]>>

QuaternionMultiply(a, b) ==
    <<a[4] * b[1] + a[1] * b[4] + a[2] * b[3] - a[3] * b[2],
      a[4] * b[2] - a[1] * b[3] + a[2] * b[4] + a[3] * b[1],
      a[4] * b[3] + a[1] * b[2] - a[2] * b[1] + a[3] * b[4],
      a[4] * b[4] - a[1] * b[1] - a[2] * b[2] - a[3] * b[3]>>

QuaternionInverse(q) == <<-q[1], -q[2], -q[3], q[4]>>

Norm(q) == q[1] * q[1] + q[2] * q[2] + q[3] * q[3] + q[4] * q[4]

(* _rotate_vector: v + w * t + q x t, where t = 2 * q x v, over the norm of q. *)
RotateVector(q, v) ==
    LET c == Cross(q, v)
        d == Cross(q, c)
    IN [i \in 1..3 |-> (Norm(q) * v[i] + 2 * q[4] * c[i] + 2 * d[i]) \div Norm(q)]

(* What _orientation_from_pose makes of the directions: up is made orthogonal  *)
(* to forward, and a missing direction has its default.                       *)
Forward(pose) == Normalize(UnityToRos(pose.forward), Identity[1])

Directions(pose) ==
    LET up == Normalize(UnityToRos(pose.up), Identity[3])
        left == Normalize(Cross(up, Forward(pose)), Identity[2])
    IN <<Forward(pose), left, Normalize(Cross(Forward(pose), left), Identity[3])>>

Orientation(pose) == MatrixToQuaternion(Directions(pose))

(* _yaw_from_pose and _yaw_to_quaternion: half the angle of the heading, which  *)
(* is 0 for a teammate that looks straight up or down.                        *)
YawRotation(pose) ==
    LET heading == Forward(pose)
    IN IF heading[3] # 0 THEN <<0, 0, 0, 1>>
       ELSE IF heading[1] = -1 THEN <<0, 0, 1, 0>>
       ELSE <<0, 0, heading[2], 1 + heading[1]>>

-----------------------------------------------------------------------------
(* The payload. *)

(* _parse_hand_joints: a joint without a name or position is skipped. *)
Joints(hand) ==
    {[name |-> j.name, position |-> UnityToRos(j.position), rotation |-> Orientation(j)] :
        j \in {k \in hand.joints : k.named /\ k.located}}

(* _hands_from_pose: so is a hand that is not tracked or has no position. *)
Hands(pose) ==
    {[hand |-> h.hand, position |-> UnityToRos(h.position), rotation |-> Orientation(h),
      joints |-> Joints(h)] :
        h \in {k \in pose.hands : k.tracked /\ k.located}}

-----------------------------------------------------------------------------
(* The frames. *)

MapFrame == <<"map">>
BaseFrame == <<"base">>
CameraFrame == <<"camera">>
HandFrame(h) == <<"hand", h>>
JointFrame(h, name) == <<"hand", h, name>>
FlatJointFrame(h, name) == <<"joint", h, name>>

Transform(parent, child, translation, rotation) ==
    [parent |-> parent, child |-> child, translation |-> translation, rotation |-> rotation]

Highest(a, b) == IF a > b THEN a ELSE b

(* The base stands below the camera, but not below the floor. *)
BasePosition(pose) ==
    LET head == UnityToRos(pose.position)
    IN IF pose_origin = "camera"
       THEN <<head[1], head[2], Highest(floor_height, head[3] - camera_height)>>
       ELSE head

BaseTransform(pose) == Transform(MapFrame, BaseFrame, BasePosition(pose), YawRotation(pose))

CameraTransform(pose) ==
    Transform(BaseFrame, CameraFrame, <<0, 0, camera_height>>,
              QuaternionMultiply(QuaternionInverse(YawRotation(pose)), Orientation(pose)))

(* What is at a position and rotation of the map, as the base sees it. *)
FromBase(pose, child, position, rotation) ==
    LET turn == QuaternionInverse(YawRotation(pose))
    IN Transform(BaseFrame, child, RotateVector(turn, Minus(position, BasePosition(pose))),
                 QuaternionMultiply(turn, rotation))

(* A hand below the base, each joint below its hand, and once more directly    *)
(* below the base.                                                            *)
HandTransforms(pose, h) ==
    LET turn == QuaternionInverse(h.rotation)
    IN {FromBase(pose, HandFrame(h.hand), h.position, h.rotation)}
       \cup {Transform(HandFrame(h.hand), JointFrame(h.hand, j.name),
                       RotateVector(turn, Minus(j.position, h.position)),
                       QuaternionMultiply(turn, j.rotation)) : j \in h.joints}
       \cup {FromBase(pose, FlatJointFrame(h.hand, j.name), j.position, j.rotation) :
                 j \in h.joints}

(* A consumer of the transforms, which knows rotations as matrices. *)
MatrixOf(q) ==
    LET x == q[1]
        y == q[2]
        z == q[3]
        w == q[4]
        n == Norm(q)
    IN <<<<(w*w + x*x - y*y - z*z) \div n, (2 * (x*y + w*z)) \div n, (2 * (x*z - w*y)) \div n>>,
         <<(2 * (x*y - w*z)) \div n, (w*w - x*x + y*y - z*z) \div n, (2 * (y*z + w*x)) \div n>>,
         <<(2 * (x*z + w*y)) \div n, (2 * (y*z - w*x)) \div n, (w*w - x*x - y*y + z*z) \div n>>>>

Rotate(r, v) == [i \in 1..3 |-> r[1][i] * v[1] + r[2][i] * v[2] + r[3][i] * v[3]]
Multiply(a, b) == [column \in 1..3 |-> Rotate(a, b[column])]

(* It looks up the pose in the map of a frame at most three transforms away.   *)
At(child) == CHOOSE t \in transforms : t.child = child

Below(pose, t) ==
    [position |-> Plus(pose.position, Rotate(pose.rotation, t.translation)),
     rotation |-> Multiply(pose.rotation, MatrixOf(t.rotation))]

BaseInMap ==
    [position |-> At(BaseFrame).translation, rotation |-> MatrixOf(At(BaseFrame).rotation)]
InMap(child) == Below(BaseInMap, At(child))
JointInMap(h, name) == Below(InMap(HandFrame(h)), At(JointFrame(h, name)))

(* Can the camera be above the floor by its full height? *)
Upright(p) ==
    pose_origin = "camera" /\ UnityToRos(p.position)[3] >= floor_height + camera_height

(* What a headset reports: directions that are perpendicular where it gives    *)
(* both, and no hand, or joint of a hand, twice.                               *)
IsDirected(p) == IsPose(p) /\ Dot(p.forward, p.up) = 0

IsHand(h) ==
    /\ h.tracked /\ h.located => IsDirected(h)
    /\ \A j \in h.joints : j.named /\ j.located => IsDirected(j)
    /\ \A i, j \in h.joints :
           i.named /\ i.located /\ j.named /\ j.located /\ i.name = j.name => i = j

ASSUME HandAssumption ==
    \A s \in Sessions : \A k \in DOMAIN s :
        /\ IsDirected(s[k])
        /\ \A h \in s[k].hands : IsHand(h)
        /\ \A g, h \in s[k].hands : g.hand = h.hand => g = h

-----------------------------------------------------------------------------
(* The history, and the pose of a video frame. *)

PoseOf(p) == [position |-> UnityToRos(p.position), rotation |-> Orientation(p)]

(* A timestamp of 0 stands for a missing, negative or infinite one. *)
TimedCameraPose(p) == [timestamp |-> p.timestamp, arrival |-> now, pose |-> PoseOf(p)]

Remember(samples, sample) ==
    LET all == Append(samples, sample)
    IN IF Len(all) > HistorySize THEN Tail(all) ELSE all

Abs(n) == IF n < 0 THEN -n ELSE n
Apart(sample, timestamp) == Abs(sample.timestamp - timestamp)

(* _nearest_camera_pose: where the first of the closest samples is, if it is    *)
(* close at all, and 0 otherwise.                                             *)
Closest(samples, timestamp) ==
    {i \in DOMAIN samples :
        \A j \in DOMAIN samples : Apart(samples[i], timestamp) <= Apart(samples[j], timestamp)}

Nearest(samples, timestamp) ==
    LET near == {i \in Closest(samples, timestamp) : Apart(samples[i], timestamp) <= MaxDelta}
    IN IF timestamp = 0 \/ near = {} THEN 0 ELSE CHOOSE i \in near : \A j \in near : i <= j

Last(samples) == samples[Len(samples)]

(* Headsets whose video has another clock than their poses get the newest pose,  *)
(* while it has just come.                                                     *)
IsFresh(sample) == now - sample.arrival <= MaxDelta

HasPose(header) == header.tracked /\ header.located

MutantFramePose(header, samples) ==
    IF Nearest(samples, header.timestamp) > 0
    THEN samples[Nearest(samples, header.timestamp)].pose
    ELSE IF samples # <<>> /\ IsFresh(Last(samples)) THEN Head(samples).pose
    ELSE NoPose

(* _publish_frame_camera_pose, for a frame without a pose of its own *)
FramePose(header, samples) ==
    IF Nearest(samples, header.timestamp) > 0
    THEN samples[Nearest(samples, header.timestamp)].pose
    ELSE IF samples # <<>> /\ IsFresh(Last(samples)) THEN Last(samples).pose
    ELSE NoPose

-----------------------------------------------------------------------------
(* The pose thread (_publish_pose), from the next payload to the history ... *)
RememberPose ==
    /\ sending = <<>> /\ incoming # <<>>
    /\ sending' = <<Head(incoming)>>
    /\ incoming' = Tail(incoming)
    /\ IF Head(incoming).timestamp > 0
       THEN /\ history' = Remember(history, TimedCameraPose(Head(incoming)))
            /\ poses' = Append(poses, [payload |-> Head(incoming), arrival |-> now,
                                      shown |-> {}])
       ELSE UNCHANGED <<history, poses>>
    /\ frame' = NoFrame
    /\ UNCHANGED <<pose_origin, payload, transforms, now, copied>>

(* ... and to the broadcast. *)
BroadcastPose ==
    /\ sending # <<>> /\ Head(sending).readable
    /\ payload' = Head(sending)
    /\ sending' = <<>>
    /\ transforms' = {BaseTransform(payload'), CameraTransform(payload')}
                     \cup UNION {HandTransforms(payload', h) : h \in Hands(payload')}
    /\ poses' = IF payload'.timestamp > 0
                THEN [poses EXCEPT ![Len(poses)].shown = {InMap(CameraFrame)'}] ELSE poses
    /\ frame' = NoFrame
    /\ UNCHANGED <<pose_origin, incoming, history, now, copied>>

(* A number of a hand or joint is none: _hands_from_pose raises, nothing is    *)
(* broadcast, and _pose_loop connects again.                                  *)
BroadcastFails ==
    /\ sending # <<>> /\ ~Head(sending).readable
    /\ sending' = <<>>
    /\ frame' = NoFrame
    /\ UNCHANGED <<pose_origin, incoming, payload, transforms, history, now, copied, poses>>

(* The video thread: a frame with a pose of its own ...  *)
PublishOwnPose(header) ==
    /\ copied = NoFrame /\ HasPose(header)
    /\ frame' = [header |-> header, pose |-> PoseOf(header), upto |-> 0]
    /\ UNCHANGED <<pose_origin, incoming, sending, payload, transforms, history, now, copied,
                   poses>>

(* ... and one without: the history is copied under its lock, and searched,     *)
(* and its last pose compared with the clock, after.  Calibration and image     *)
(* follow with the same stamp.                                                *)
CopyHistory(header) ==
    /\ copied = NoFrame /\ ~HasPose(header)
    /\ copied' = [header |-> header, samples |-> history, upto |-> Len(poses)]
    /\ frame' = NoFrame
    /\ UNCHANGED <<pose_origin, incoming, sending, payload, transforms, history, now, poses>>

PublishFrame ==
    /\ copied # NoFrame
    /\ frame' = [header |-> copied.header, pose |-> FramePose(copied.header, copied.samples),
                 upto |-> copied.upto]
    /\ copied' = NoFrame
    /\ UNCHANGED <<pose_origin, incoming, sending, payload, transforms, history, now, poses>>

Tick ==
    /\ now < Horizon
    /\ now' = now + 1
    /\ frame' = NoFrame
    /\ UNCHANGED <<pose_origin, incoming, sending, payload, transforms, history, copied, poses>>

FramesInit ==
    /\ pose_origin \in {"camera", "base"}
    /\ incoming \in Sessions
    /\ sending = <<>> /\ payload = <<>>
    /\ transforms = {}
    /\ history = <<>>
    /\ now = 0
    /\ copied = NoFrame /\ frame = NoFrame
    /\ poses = <<>>

FramesNext ==
    \/ RememberPose \/ BroadcastPose \/ BroadcastFails
    \/ \E header \in Headers : PublishOwnPose(header) \/ CopyHistory(header)
    \/ PublishFrame
    \/ Tick

FramesSpec == FramesInit /\ [][FramesNext]_framesVars

-----------------------------------------------------------------------------
IsRotation(r) ==
    /\ \A i, j \in 1..3 : Dot(r[i], r[j]) = IF i = j THEN 1 ELSE 0
    /\ Cross(r[1], r[2]) = r[3]

(* The orientation r is the one p gives, as far as p gives one. *)
Faces(r, p) ==
    /\ IsRotation(r)
    /\ p.forward # Missing => r[1] = UnityToRos(p.forward)
    /\ p.forward # Missing /\ p.up # Missing => r[3] = UnityToRos(p.up)

Placed(pose, p) == pose.position = UnityToRos(p.position) /\ Faces(pose.rotation, p)

(* The frames form a tree below the map; looked up through it, the head and    *)
(* every tracked hand and joint have the orientation and position the headset  *)
(* sent, a joint the same by either way, whatever the base's heading and        *)
(* however low it was clamped.  Only the position of the camera gives way: to   *)
(* the floor, or to a base that is itself what the headset tracks.              *)
FramesCompose ==
    transforms # {} =>
        /\ \A t \in transforms : IsRotation(MatrixOf(t.rotation))
        /\ \A s, t \in transforms : s.child = t.child => s = t
        /\ Faces(InMap(CameraFrame).rotation, payload)
        /\ Upright(payload) => InMap(CameraFrame).position = UnityToRos(payload.position)
        /\ pose_origin = "base"
               => InMap(CameraFrame).position
                      = Plus(UnityToRos(payload.position), <<0, 0, camera_height>>)
        /\ \A h \in payload.hands :
               IF h.tracked /\ h.located
               THEN /\ Placed(InMap(HandFrame(h.hand)), h)
                    /\ \A j \in h.joints :
                          j.named /\ j.located =>
                              /\ Placed(JointInMap(h.hand, j.name), j)
                              /\ JointInMap(h.hand, j.name)
                                     = InMap(FlatJointFrame(h.hand, j.name))
               ELSE \A t \in transforms : t.child # HandFrame(h.hand)

(* The entries of "poses" whose pose a frame may get, of those that had come     *)
(* when the video thread copied the history: the closest in time of the last    *)
(* HistorySize if one is close, else the newest if it has just come.           *)
Recent == {k \in 1..frame.upto : k + HistorySize > frame.upto}
Close == {k \in Recent : frame.header.timestamp > 0
                           /\ Apart(poses[k].payload, frame.header.timestamp) <= MaxDelta}
Candidates ==
    IF Close # {}
    THEN {k \in Close : \A j \in Close : Apart(poses[k].payload, frame.header.timestamp)
                                            <= Apart(poses[j].payload, frame.header.timestamp)}
    ELSE {k \in Recent : k = frame.upto /\ IsFresh(poses[k])}

(* What /tf showed for an entry, it showed where the camera was; it has shown   *)
(* nothing of the entry being broadcast, and of one whose hands are unreadable. *)
ShownAs(k, pose) ==
    /\ \A seen \in poses[k].shown :
           /\ MatrixOf(pose.rotation) = seen.rotation
           /\ Upright(poses[k].payload) => pose.position = seen.position
    /\ poses[k].shown = {} =>
           (k = Len(poses) /\ sending = <<poses[k].payload>>) \/ ~poses[k].payload.readable

(* A frame that carries no pose of its own is published with one the headset    *)
(* sent: of a moment close to the frame while such a pose is remembered,        *)
(* however the poses were numbered, delayed or restarted and whatever came       *)
(* since the history was copied, else of the moment just past, and with none     *)
(* rather than an older one.  The transforms show the camera there too, unless   *)
(* they are about to or the pose's hands were unreadable; a camera that /tf      *)
(* lifts off the floor, or onto a tracked base, agrees in its rotation only.     *)
FramePosed ==
    frame # NoFrame /\ ~HasPose(frame.header) =>
        IF Candidates = {} THEN frame.pose = NoPose
        ELSE \E k \in Candidates :
                 /\ frame.pose.position = UnityToRos(poses[k].payload.position)
                 /\ Faces(MatrixOf(frame.pose.rotation), poses[k].payload)
                 /\ ShownAs(k, frame.pose)

=============================================================================
